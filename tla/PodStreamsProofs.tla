-------------------------- MODULE PodStreamsProofs --------------------------
(***************************************************************************)
(* Theorems about PodStreams, for every set of Pods and containers and any *)
(* bounds: the variables have their types, no follower is forgotten or     *)
(* left when Stream returns, and no line falls between two followers.      *)
(*                                                                         *)
(* OnlyActiveFollow is not inductive by itself: a reconciliation replaces  *)
(* entries of active by new numbers, so the number of an entry has to be   *)
(* that of a start of the same Pod (which TypeOK says), and a follower     *)
(* that runs must have one of the numbers given so far (LiveIsStarted).    *)
(* That nothing runs after the return needs it too for a Stream whose      *)
(* first listing fails: nothing has been started then (BeginIsEmpty).      *)
(*                                                                         *)
(* NoLineIsLost needs to know what the followers of a Pod have done as     *)
(* long as none of its containers restarts: LogsServed says of each that   *)
(* it is about to open the log, has sent the log up to where it stands, or *)
(* has ended because all of it is sent and nothing is added.               *)
(***************************************************************************)
EXTENDS PodStreams, TLAPS, SequenceTheorems, FiniteSetTheorems

\* A follower that runs belongs to a start.
LiveIsStarted == \A f \in Followers : ~Over(f) => f[1] \in 1..Len(starts)

\* A follower that reads a log reads that of some run.
OpenHasRun == \A f \in Followers : followers[f].state = "open" => followers[f].run # 0

\* One that runs belongs to the entry of its Pod, or is cancelled.
KnownFollow ==
  \A f \in Followers : ~Over(f) => Stopped(f) \/ active[PodOf(f)] = f[1]

\* None runs when Stream has returned.
NothingAfterReturn == phase = "returned" => \A f \in Followers : Over(f)

\* Before the first listing nothing is started.
BeginIsEmpty == phase = "begin" => starts = <<>>

IInv ==
  /\ TypeOK /\ LiveIsStarted /\ OpenHasRun /\ BeginIsEmpty
  /\ KnownFollow /\ NothingAfterReturn

-----------------------------------------------------------------------------
\* The initial state satisfies the invariant.
LEMMA InitIInv == ASSUME Init PROVE IInv
<1>1. TypeOK
  <2>1. \A c \in Containers : 0 \in Runs
    BY PodAssumption DEF Runs
  <2>2. run \in [Pods -> [Containers -> Runs]]
    BY <2>1 DEF Init
  <2>3. lines \in [Pods -> [Containers -> [Runs -> 0..MaxLines]]]
    BY PodAssumption DEF Init
  <2>4. followers \in [Followers -> Follower]
    BY PodAssumption DEF Init, NotStarted, Follower
  <2>5. starts \in Seq(Start) /\ active \in [Pods -> 0..Len(starts)]
    BY DEF Init
  <2>6. DOMAIN listing \subseteq Pods
        /\ \A p \in DOMAIN listing : listing[p] \in [Containers -> Runs]
    BY DEF Init
  <2> QED
    BY <2>2, <2>3, <2>4, <2>5, <2>6 DEF TypeOK, Init
<1>2. \A f \in Followers : Over(f)
  BY DEF Init, NotStarted, Over
<1>3. OpenHasRun
  BY DEF OpenHasRun, Init, NotStarted
<1> QED
  BY <1>1, <1>2, <1>3 DEF IInv, Init, LiveIsStarted, BeginIsEmpty, KnownFollow, NothingAfterReturn

\* The cluster changes nothing but what is to be seen of it.
LEMMA ClusterSteps ==
  ASSUME IInv, NEW p \in Pods,
         \/ CreatePod(p) \/ DeletePod(p)
         \/ \E c \in Containers : StartContainer(p, c) \/ StopContainer(p, c) \/ LogLine(p, c)
  PROVE  IInv'
<1> USE DEF IInv, clusterVars, providerVars, logVars
<1>1. UNCHANGED <<phase, cancelled, listing, starts, active, followers, delivered, broken>>
  BY DEF CreatePod, DeletePod, StartContainer, StopContainer, LogLine
<1>2. TypeOK'
  <2>1. CASE CreatePod(p) \/ DeletePod(p)
    <3>1. pod' \in [Pods -> {"coming", "present", "gone"}]
      BY <2>1 DEF CreatePod, DeletePod, TypeOK
    <3>2. running' \in [Pods -> [Containers -> BOOLEAN]]
      <4>1. [c \in Containers |-> FALSE] \in [Containers -> BOOLEAN]
        OBVIOUS
      <4>2. CASE CreatePod(p)
        BY <4>2 DEF CreatePod, TypeOK
      <4>3. CASE DeletePod(p)
        BY <4>1, <4>3 DEF DeletePod, TypeOK
      <4> QED
        BY <2>1, <4>2, <4>3
    <3>3. UNCHANGED <<run, lines>>
      BY <2>1 DEF CreatePod, DeletePod
    <3> QED
      BY <1>1, <3>1, <3>2, <3>3 DEF TypeOK
  <2>2. ASSUME NEW c \in Containers, StartContainer(p, c) PROVE TypeOK'
    <3>1. run[p][c] + 1 \in Runs
      <4>1. run[p][c] \in Runs /\ run[p][c] < MaxRuns[c]
        BY <2>2 DEF StartContainer, TypeOK
      <4>2. run[p][c] \in Nat /\ MaxRuns[c] \in Nat
        BY <4>1, PodAssumption DEF Runs
      <4>3. run[p][c] + 1 \in 0..MaxRuns[c]
        BY <4>1, <4>2
      <4> QED
        BY <4>3 DEF Runs
    <3>2. run' \in [Pods -> [Containers -> Runs]]
      BY <2>2, <3>1 DEF StartContainer, TypeOK
    <3>3. running' \in [Pods -> [Containers -> BOOLEAN]]
      BY <2>2 DEF StartContainer, TypeOK
    <3> QED
      BY <1>1, <2>2, <3>2, <3>3 DEF StartContainer, TypeOK
  <2>3. ASSUME NEW c \in Containers, StopContainer(p, c) PROVE TypeOK'
    <3>1. running' \in [Pods -> [Containers -> BOOLEAN]]
      BY <2>3 DEF StopContainer, TypeOK
    <3> QED
      BY <1>1, <2>3, <3>1 DEF StopContainer, TypeOK
  <2>4. ASSUME NEW c \in Containers, LogLine(p, c) PROVE TypeOK'
    <3>1. run[p][c] \in Runs /\ lines[p][c][run[p][c]] + 1 \in 0..MaxLines
      <4>1. run[p][c] \in Runs /\ lines[p][c] \in [Runs -> 0..MaxLines]
        BY DEF TypeOK
      <4>2. lines[p][c][run[p][c]] < MaxLines
        BY <2>4 DEF LogLine
      <4>3. lines[p][c][run[p][c]] \in 0..MaxLines
        BY <4>1
      <4> QED
        BY <4>1, <4>2, <4>3, PodAssumption
    <3>2. lines' \in [Pods -> [Containers -> [Runs -> 0..MaxLines]]]
      <4>1. lines \in [Pods -> [Containers -> [Runs -> 0..MaxLines]]]
        BY DEF TypeOK
      <4>2. lines' = [lines EXCEPT ![p][c][run[p][c]] = @ + 1]
        BY <2>4 DEF LogLine
      <4> HIDE DEF IInv
      <4> QED
        BY <3>1, <4>1, <4>2
    <3> QED
      BY <1>1, <2>4, <3>2 DEF LogLine, TypeOK
  <2> QED
    BY <2>1, <2>2, <2>3, <2>4
<1> QED
  BY <1>1, <1>2
     DEF LiveIsStarted, OpenHasRun, BeginIsEmpty, KnownFollow, NothingAfterReturn,
         Over, Stopped, PodOf

\* Listing.
LEMMA ListingSteps == ASSUME IInv, ListPods \/ ListFails PROVE IInv'
<1> USE DEF IInv, clusterVars, providerVars, logVars
<1>1. UNCHANGED <<pod, run, running, lines, cancelled, starts, active, followers,
                  delivered, broken>>
  BY DEF ListPods, ListFails
<1>2. /\ DOMAIN listing' \subseteq Pods
      /\ \A p \in DOMAIN listing' : listing'[p] \in [Containers -> Runs]
  BY DEF ListPods, ListFails, Present, TypeOK
<1>3. phase' \in {"listed", "returned"}
  BY DEF ListPods, ListFails
<1>4. TypeOK'
  BY <1>1, <1>2, <1>3 DEF TypeOK
<1>5. ASSUME phase' = "returned", NEW f \in Followers PROVE Over(f)
  BY <1>5 DEF ListPods, ListFails, BeginIsEmpty, LiveIsStarted
<1> QED
  BY <1>1, <1>3, <1>4, <1>5
     DEF LiveIsStarted, OpenHasRun, BeginIsEmpty, KnownFollow, NothingAfterReturn,
         Over, Stopped, PodOf

\* What a reconciliation does, whatever the order in which it starts Pods.
LEMMA Reconciled ==
  ASSUME IInv, Reconcile
  PROVE
    /\ UNCHANGED <<pod, run, running, lines, cancelled, delivered, broken>>
    /\ phase' = "idle" /\ listing' = <<>>
    /\ starts' \in Seq(Start) /\ Len(starts') >= Len(starts)
    /\ DOMAIN starts' \subseteq 1..MaxStarts
    /\ \A i \in 1..Len(starts) :
         /\ starts'[i].pod = starts[i].pod
         /\ starts'[i].fingerprint = starts[i].fingerprint
         /\ starts'[i].cancelled = (starts[i].cancelled \/ \E p \in ToCancel : active[p] = i)
    /\ \A i \in (1..Len(starts')) \ (1..Len(starts)) : \E p \in ToStart : active'[p] = i
    /\ active' = [p \in Pods |-> active'[p]]
    /\ \A p \in ToStart :
         /\ p \in Pods /\ active'[p] \in (1..Len(starts')) \ (1..Len(starts))
         /\ starts'[active'[p]] = [pod |-> p, fingerprint |-> listing[p], cancelled |-> FALSE]
    /\ \A p \in Pods \ ToStart : active'[p] = IF p \in ToCancel THEN 0 ELSE active[p]
    /\ followers' = [f \in Followers |-> followers'[f]]
    /\ \A f \in Followers :
         followers'[f] = IF f[1] \in (1..Len(starts')) \ (1..Len(starts))
                         THEN StartedFollower(starts'[f[1]], f[2], f[3])
                         ELSE followers[f]
<1> USE DEF IInv, clusterVars
<1> DEFINE count == Cardinality(ToStart)
<1>1. PICK order \in Bijection(1..count, ToStart) :
        LET started == starts \o [i \in DOMAIN order |->
                         [pod |-> order[i], fingerprint |-> listing[order[i]],
                          cancelled |-> FALSE]]
        IN
        /\ phase = "listed" /\ DOMAIN started \subseteq 1..MaxStarts
        /\ phase' = "idle" /\ listing' = <<>>
        /\ starts' = [i \in DOMAIN started |->
                       IF \E p \in ToCancel : active[p] = i
                       THEN [started[i] EXCEPT !.cancelled = TRUE]
                       ELSE started[i]]
        /\ active' = [p \in Pods |-> IF p \in ToStart THEN NumberOf(order, p)
                                     ELSE IF p \in ToCancel THEN 0 ELSE active[p]]
        /\ followers' = [f \in Followers |->
                          IF f[1] \in DOMAIN started \ DOMAIN starts
                          THEN StartedFollower(started[f[1]], f[2], f[3])
                          ELSE followers[f]]
        /\ UNCHANGED <<clusterVars, cancelled, delivered, broken>>
  BY DEF Reconcile
<1>2. count \in Nat /\ ToStart \subseteq Pods
  <2>1. ToStart \subseteq Pods
    BY DEF ToStart, TypeOK
  <2> QED
    BY <2>1, PodAssumption, FS_Subset, FS_CardinalityType
<1>3. /\ order \in [1..count -> ToStart]
      /\ \A i, j \in 1..count : order[i] = order[j] => i = j
      /\ \A p \in ToStart : \E i \in 1..count : order[i] = p
  BY <1>1 DEF Bijection, Injection, Surjection, IsInjective
<1> DEFINE new == [i \in DOMAIN order |->
                     [pod |-> order[i], fingerprint |-> listing[order[i]],
                      cancelled |-> FALSE]]
           started == starts \o new
<1>4. new \in Seq(Start) /\ Len(new) = count
  <2>1. \A i \in 1..count : new[i] \in Start
    BY <1>2, <1>3 DEF Start, ToStart, TypeOK
  <2> QED
    BY <1>2, <1>3, <2>1
<1>5. /\ started \in Seq(Start) /\ Len(started) = Len(starts) + count
      /\ \A i \in 1..Len(starts) : started[i] = starts[i]
      /\ \A i \in 1..count : started[Len(starts) + i] = new[i]
  <2> HIDE DEF new
  <2>1. starts \in Seq(Start)
    BY DEF TypeOK
  <2> QED
    BY <1>2, <1>4, <2>1
<1>6. starts' = [i \in 1..(Len(starts) + count) |->
                   IF \E p \in ToCancel : active[p] = i
                   THEN [started[i] EXCEPT !.cancelled = TRUE]
                   ELSE started[i]]
  <2>1. DOMAIN started = 1..(Len(starts) + count)
    <3> HIDE DEF started
    <3> QED
      BY <1>2, <1>5
  <2> QED
    BY <1>1, <2>1
<1> HIDE DEF started, new, count
<1>7. starts' \in Seq(Start) /\ Len(starts') = Len(starts) + count
  <2>1. \A i \in 1..(Len(starts) + count) :
          started[i] \in Start /\ [started[i] EXCEPT !.cancelled = TRUE] \in Start
    <3> TAKE i \in 1..(Len(starts) + count)
    <3>1. started[i] \in Start
      BY <1>5
    <3> QED
      BY <3>1 DEF Start
  <2>2. Len(starts) + count \in Nat
    BY <1>2 DEF TypeOK
  <2>3. starts' \in [1..(Len(starts) + count) -> Start]
    BY <1>6, <2>1
  <2> QED
    BY <2>2, <2>3
<1>8. ASSUME NEW i \in 1..Len(starts) PROVE
        /\ starts'[i].pod = starts[i].pod
        /\ starts'[i].fingerprint = starts[i].fingerprint
        /\ starts'[i].cancelled = (starts[i].cancelled \/ \E p \in ToCancel : active[p] = i)
  <2>1. i \in 1..(Len(starts) + count) /\ started[i] = starts[i] /\ starts[i] \in Start
    BY <1>2, <1>5 DEF TypeOK
  <2> QED
    BY <1>6, <1>7, <2>1 DEF Start
<1>9. DOMAIN order = 1..count
  BY <1>3
<1>10. ASSUME NEW i \in 1..count PROVE
         /\ order[i] \in ToStart /\ active'[order[i]] = Len(starts) + i
         /\ starts'[Len(starts) + i] =
              [pod |-> order[i], fingerprint |-> listing[order[i]], cancelled |-> FALSE]
  <2>1. order[i] \in ToStart
    BY <1>3
  <2>2. (CHOOSE j \in DOMAIN order : order[j] = order[i]) = i
    BY <1>3, <1>9
  <2>3. active'[order[i]] = Len(starts) + i
    BY <1>1, <1>2, <2>1, <2>2 DEF NumberOf
  <2>4. Len(starts) \in Nat /\ ~ \E q \in ToCancel : active[q] = Len(starts) + i
    BY <1>2 DEF TypeOK, ToCancel
  <2>5. starts'[Len(starts) + i] = new[i]
    BY <1>2, <1>5, <1>6, <2>4
  <2> QED
    BY <1>9, <2>1, <2>3, <2>5 DEF new
<1>11. ASSUME NEW i \in (1..Len(starts')) \ (1..Len(starts))
       PROVE  \E j \in 1..count : i = Len(starts) + j
  <2>1. Len(starts) \in Nat /\ i \in Nat
    BY <1>7 DEF TypeOK
  <2>2. i - Len(starts) \in 1..count /\ i = Len(starts) + (i - Len(starts))
    BY <1>2, <1>7, <1>11, <2>1
  <2> QED
    BY <2>2
<1>12. ASSUME NEW p \in ToStart PROVE
         /\ p \in Pods /\ active'[p] \in (1..Len(starts')) \ (1..Len(starts))
         /\ starts'[active'[p]] = [pod |-> p, fingerprint |-> listing[p], cancelled |-> FALSE]
  <2>1. PICK i \in 1..count : order[i] = p
    BY <1>3
  <2>2. Len(starts) \in Nat /\ i \in Nat
    BY <1>2 DEF TypeOK
  <2>3. Len(starts) + i \in (1..Len(starts')) \ (1..Len(starts))
    BY <1>2, <1>7, <2>1, <2>2
  <2> QED
    BY <1>2, <1>10, <2>1, <2>3
<1>13. DOMAIN starts = 1..Len(starts) /\ DOMAIN started = 1..Len(starts')
       /\ DOMAIN starts' = 1..Len(starts') /\ Len(starts') >= Len(starts)
  BY <1>2, <1>5, <1>7 DEF TypeOK
<1>14. DOMAIN starts' \subseteq 1..MaxStarts
  BY <1>1, <1>13 DEF started, new
<1>15. ASSUME NEW f \in Followers PROVE
         followers'[f] = IF f[1] \in (1..Len(starts')) \ (1..Len(starts))
                         THEN StartedFollower(starts'[f[1]], f[2], f[3])
                         ELSE followers[f]
  <2>1. followers'[f] = IF f[1] \in DOMAIN started \ DOMAIN starts
                        THEN StartedFollower(started[f[1]], f[2], f[3])
                        ELSE followers[f]
    BY <1>1 DEF started, new
  <2>2. CASE f[1] \in (1..Len(starts')) \ (1..Len(starts))
    <3>1. PICK j \in 1..count : f[1] = Len(starts) + j
      BY <1>11, <2>2
    <3>2. started[f[1]] = starts'[f[1]]
      <4>1. started[f[1]] = new[j]
        BY <1>5, <3>1
      <4>2. new[j] = [pod |-> order[j], fingerprint |-> listing[order[j]], cancelled |-> FALSE]
        BY <1>9 DEF new
      <4> QED
        BY <1>10, <3>1, <4>1, <4>2
    <3> QED
      BY <1>13, <2>1, <2>2, <3>2
  <2> QED
    BY <1>13, <2>1, <2>2
<1>16. ASSUME NEW i \in (1..Len(starts')) \ (1..Len(starts))
       PROVE  \E p \in ToStart : active'[p] = i
  <2>1. PICK j \in 1..count : i = Len(starts) + j
    BY <1>11, <1>16
  <2>2. order[j] \in ToStart /\ active'[order[j]] = Len(starts) + j
    BY <1>10
  <2> QED
    BY <2>1, <2>2
<1>17. /\ active' = [p \in Pods |-> active'[p]]
       /\ followers' = [f \in Followers |-> followers'[f]]
       /\ \A p \in Pods \ ToStart : active'[p] = IF p \in ToCancel THEN 0 ELSE active[p]
       /\ UNCHANGED <<pod, run, running, lines, cancelled, delivered, broken>>
       /\ phase' = "idle" /\ listing' = <<>>
  BY <1>1
<1> QED
  BY <1>7, <1>8, <1>12, <1>13, <1>14, <1>15, <1>16, <1>17

\* A reconciliation.
LEMMA ReconcileStep == ASSUME IInv, Reconcile PROVE IInv'
<1> USE DEF IInv
<1>1. /\ Len(starts) \in Nat /\ Len(starts') \in Nat /\ Len(starts') >= Len(starts)
      /\ starts' \in Seq(Start)
  BY Reconciled DEF TypeOK
<1>2. ASSUME NEW p \in Pods, p \notin ToStart, active'[p] # 0 PROVE
        /\ active'[p] = active[p] /\ p \notin ToCancel /\ active[p] \in 1..Len(starts)
        /\ starts'[active[p]].pod = p /\ starts'[active[p]].cancelled = FALSE
  <2>1. active'[p] = active[p] /\ p \notin ToCancel
    BY <1>2, Reconciled
  <2>2. active[p] \in 1..Len(starts) /\ starts[active[p]].pod = p
        /\ starts[active[p]].cancelled = FALSE
    BY <1>1, <1>2, <2>1 DEF TypeOK, Start
  <2>3. ~ \E q \in ToCancel : active[q] = active[p]
    BY <2>1, <2>2 DEF ToCancel, TypeOK
  <2> QED
    BY <2>1, <2>2, <2>3, Reconciled
<1>3. TypeOK'
  <2>1. followers' \in [Followers -> Follower]
    <3>1. Opening \in Follower /\ Ended \in Follower
      BY PodAssumption DEF Opening, Ended, Follower
    <3>2. ASSUME NEW f \in Followers PROVE followers'[f] \in Follower
      <4>1. followers'[f] = IF f[1] \in (1..Len(starts')) \ (1..Len(starts))
                            THEN StartedFollower(starts'[f[1]], f[2], f[3])
                            ELSE followers[f]
        BY Reconciled
      <4>2. StartedFollower(starts'[f[1]], f[2], f[3]) \in {Opening, Ended}
        BY DEF StartedFollower
      <4>3. followers[f] \in Follower
        BY DEF TypeOK
      <4> QED
        BY <3>1, <4>1, <4>2, <4>3
    <3>3. followers' = [f \in Followers |-> followers'[f]]
      BY Reconciled
    <3> QED
      BY <3>2, <3>3
  <2>2. active' \in [Pods -> 0..Len(starts')]
    <3>1. ASSUME NEW p \in Pods PROVE active'[p] \in 0..Len(starts')
      <4>1. CASE p \in ToStart
        <5>1. active'[p] \in 1..Len(starts')
          BY <4>1, Reconciled
        <5> QED
          BY <5>1
      <4>2. CASE p \notin ToStart /\ active'[p] # 0
        <5>1. active'[p] \in 1..Len(starts)
          BY <1>2, <4>2
        <5> QED
          BY <1>1, <5>1
      <4> QED
        BY <1>1, <4>1, <4>2
    <3>2. active' = [p \in Pods |-> active'[p]]
      BY Reconciled
    <3> QED
      BY <3>1, <3>2
  <2>3. ASSUME NEW p \in Pods, active'[p] # 0
        PROVE  starts'[active'[p]].pod = p /\ ~starts'[active'[p]].cancelled
    <3>1. CASE p \in ToStart
      <4>1. starts'[active'[p]] = [pod |-> p, fingerprint |-> listing[p], cancelled |-> FALSE]
        BY <3>1, Reconciled
      <4> QED
        BY <4>1
    <3>2. CASE p \notin ToStart
      BY <1>2, <2>3, <3>2
    <3> QED
      BY <3>1, <3>2
  <2>4. UNCHANGED <<pod, run, running, lines, cancelled, delivered, broken>>
        /\ phase' = "idle" /\ listing' = <<>>
    BY Reconciled
  <2> QED
    BY <1>1, <2>1, <2>2, <2>3, <2>4 DEF TypeOK
<1>4. LiveIsStarted' /\ OpenHasRun'
  <2>1. OpenHasRun'
    BY Reconciled DEF OpenHasRun, StartedFollower, Opening, Ended
  <2>2. ASSUME NEW f \in Followers, ~Over(f)' PROVE f[1] \in 1..Len(starts')
    <3>1. CASE followers'[f] = followers[f]
      <4>1. f[1] \in 1..Len(starts)
        BY <2>2, <3>1 DEF LiveIsStarted, Over
      <4> QED
        BY <1>1, <4>1
    <3>2. CASE followers'[f] # followers[f]
      BY <3>2, Reconciled
    <3> QED
      BY <3>1, <3>2
  <2> QED
    BY <2>1, <2>2 DEF LiveIsStarted
<1>5. KnownFollow'
  <2>1. SUFFICES ASSUME NEW f \in Followers, ~Over(f)', ~Stopped(f)'
                 PROVE  active'[PodOf(f)'] = f[1]
    BY DEF KnownFollow
  <2>2. CASE f[1] \in (1..Len(starts')) \ (1..Len(starts))
    <3>1. PICK p \in ToStart : active'[p] = f[1]
      BY <2>2, Reconciled
    <3>2. starts'[active'[p]].pod = p
      <4>1. starts'[active'[p]] = [pod |-> p, fingerprint |-> listing[p], cancelled |-> FALSE]
        BY Reconciled
      <4> QED
        BY <4>1
    <3> QED
      BY <3>1, <3>2 DEF PodOf
  <2>3. CASE f[1] \notin (1..Len(starts')) \ (1..Len(starts))
    <3>1. ~Over(f) /\ f[1] \in 1..Len(starts)
      <4>1. followers'[f] = followers[f]
        BY <2>3, Reconciled
      <4> QED
        BY <2>1, <4>1 DEF Over, LiveIsStarted
    <3>2. PodOf(f)' = PodOf(f) /\ starts[f[1]] \in Start
      BY <3>1, Reconciled DEF PodOf, TypeOK
    <3>3. ~Stopped(f) /\ ~ \E q \in ToCancel : active[q] = f[1]
      <4>1. starts'[f[1]].cancelled
              = (starts[f[1]].cancelled \/ \E q \in ToCancel : active[q] = f[1])
        BY <3>1, Reconciled
      <4>2. ~cancelled /\ ~starts'[f[1]].cancelled
        BY <2>1, Reconciled DEF Stopped
      <4> QED
        BY <4>1, <4>2 DEF Stopped
    <3>4. active[PodOf(f)] = f[1] /\ PodOf(f) \in Pods
      BY <3>1, <3>2, <3>3 DEF KnownFollow, PodOf, Start
    <3>5. PodOf(f) \notin ToCancel /\ active[PodOf(f)] # 0
      BY <3>1, <3>3, <3>4
    <3>6. PodOf(f) \notin ToStart
      BY <3>5 DEF ToStart, ToCancel, TypeOK
    <3>7. active'[PodOf(f)] = active[PodOf(f)]
      BY <3>4, <3>5, <3>6, Reconciled
    <3> QED
      BY <3>2, <3>4, <3>7
  <2> QED
    BY <2>2, <2>3
<1>6. BeginIsEmpty' /\ NothingAfterReturn'
  BY Reconciled DEF BeginIsEmpty, NothingAfterReturn
<1> QED
  BY <1>3, <1>4, <1>5, <1>6

\* The end of Stream.
LEMMA EndSteps ==
  ASSUME IInv, Cancel \/ Close \/ CloseAtOnce \/ Return
  PROVE  IInv'
<1> USE DEF IInv, clusterVars, providerVars, logVars
<1>1. UNCHANGED <<pod, run, running, lines, listing, followers, delivered, broken>>
  BY DEF Cancel, Close, CloseAtOnce, Return
<1>2. CASE Cancel
  BY <1>1, <1>2
     DEF Cancel, TypeOK, LiveIsStarted, OpenHasRun, BeginIsEmpty, KnownFollow,
         NothingAfterReturn, Over, Stopped, PodOf
<1>3. CASE Close
  <2>1. /\ starts \in Seq(Start)
        /\ starts' = [i \in 1..Len(starts) |-> [starts[i] EXCEPT !.cancelled = TRUE]]
    BY <1>3 DEF Close, TypeOK
  <2>2. \A i \in 1..Len(starts) : [starts[i] EXCEPT !.cancelled = TRUE] \in Start
    <3> TAKE i \in 1..Len(starts)
    <3>1. starts[i] \in Start
      BY <2>1
    <3> QED
      BY <3>1 DEF Start
  <2>3. starts' \in [1..Len(starts) -> Start]
    BY <2>1, <2>2
  <2>4. starts' \in Seq(Start) /\ Len(starts') = Len(starts)
    BY <2>1, <2>3
  <2>5. TypeOK'
    BY <1>1, <1>3, <2>4 DEF Close, TypeOK
  <2>6. LiveIsStarted' /\ OpenHasRun'
    BY <1>1, <2>4 DEF LiveIsStarted, OpenHasRun, Over
  <2>7. \A f \in Followers : ~Over(f)' => Stopped(f)'
    BY <1>1, <1>3 DEF Close, Stopped
  <2> QED
    BY <1>3, <2>5, <2>6, <2>7 DEF Close, BeginIsEmpty, KnownFollow, NothingAfterReturn
<1>4. CASE CloseAtOnce \/ Return
  <2>1. UNCHANGED <<cancelled, starts, active>> /\ phase' = "returned"
    BY <1>4 DEF CloseAtOnce, Return
  <2>2. \A f \in Followers : Over(f)
    BY <1>4 DEF CloseAtOnce, Return, Waited, BeginIsEmpty, LiveIsStarted
  <2> QED
    BY <1>1, <2>1, <2>2
       DEF TypeOK, LiveIsStarted, OpenHasRun, BeginIsEmpty, KnownFollow,
           NothingAfterReturn, Over, Stopped, PodOf
<1> QED
  BY <1>2, <1>3, <1>4

\* The log of some run has been opened.
LEMMA OpenStep ==
  ASSUME IInv, NEW f \in Followers, OpenLog(f)
  PROVE  \E value \in Follower : SetFollower(f, value) /\ value.run # 0
<1> DEFINE p == PodOf(f)
           c == f[2]
           r == Requested(f)
           value == [state |-> "open", run |-> r, at |-> TailOf(lines[p][c][r])]
<1>1. c \in Containers /\ f[3] \in BOOLEAN
  BY DEF Followers
<1>2. p \in Pods /\ r > 0 /\ SetFollower(f, value)
  <2>1. f[1] \in 1..Len(starts)
    BY DEF OpenLog, IInv, LiveIsStarted, Over
  <2>2. starts[f[1]] \in Start
    BY <2>1 DEF IInv, TypeOK
  <2> QED
    BY <2>2 DEF OpenLog, PodOf, Start
<1>3. r \in Runs \ {0}
  <2>1. run[p][c] \in Runs
    BY <1>1, <1>2 DEF IInv, TypeOK
  <2>2. PICK d \in Containers : run[p][c] \in 0..MaxRuns[d]
    BY <2>1 DEF Runs
  <2>3. r \in 0..MaxRuns[d] /\ r # 0
    BY <1>1, <1>2, <2>2, PodAssumption DEF Requested
  <2> QED
    BY <2>3 DEF Runs
<1>4. TailOf(lines[p][c][r]) \in 0..MaxLines
  <2>1. lines[p][c][r] \in 0..MaxLines
    BY <1>1, <1>2, <1>3 DEF IInv, TypeOK
  <2> QED
    BY <2>1, PodAssumption DEF TailOf
<1>5. value \in Follower /\ value.run # 0
  BY <1>3, <1>4 DEF Follower
<1> QED
  BY <1>2, <1>5

\* A step of a follower.
LEMMA FollowerSteps ==
  ASSUME IInv, NEW f \in Followers,
         \/ OpenLog(f) \/ OpenRefused(f) \/ SendLine(f)
         \/ EndOfLog(f) \/ Stop(f) \/ Break(f)
  PROVE  IInv'
<1>1. UNCHANGED <<clusterVars, providerVars>> /\ ~Over(f)
  BY DEF OpenLog, OpenRefused, SendLine, EndOfLog, Stop, Break, Over
<1>2. f[1] \in 1..Len(starts) /\ f[2] \in Containers /\ PodOf(f) \in Pods
  <2>1. f[1] \in 1..Len(starts)
    BY <1>1 DEF IInv, LiveIsStarted
  <2>2. starts[f[1]] \in Start
    BY <2>1 DEF IInv, TypeOK
  <2> QED
    BY <2>1, <2>2 DEF PodOf, Start, Followers
<1>3. \E value \in Follower :
        SetFollower(f, value) /\ (value.state = "open" => value.run # 0)
  <2>1. CASE OpenLog(f)
    BY <2>1, OpenStep
  <2>2. CASE SendLine(f)
    <3> DEFINE n == followers[f].at + 1
               r == followers[f].run
    <3>1. followers[f] \in Follower /\ r \in Runs
      BY <2>2 DEF SendLine, IInv, TypeOK, Follower, OpenHasRun
    <3>2. n \in 0..MaxLines
      <4>1. lines[PodOf(f)][f[2]][r] \in 0..MaxLines
        BY <1>2, <3>1 DEF IInv, TypeOK
      <4>2. followers[f].at \in Nat
        BY <3>1, PodAssumption DEF Follower
      <4>3. n <= lines[PodOf(f)][f[2]][r]
        BY <2>2 DEF SendLine
      <4> QED
        BY <4>1, <4>2, <4>3, PodAssumption
    <3>3. [followers[f] EXCEPT !.at = n] \in Follower
      BY <3>1, <3>2 DEF Follower
    <3> QED
      BY <2>2, <3>1, <3>3 DEF SendLine, IInv, OpenHasRun, Follower
  <2>3. CASE OpenRefused(f) \/ EndOfLog(f) \/ Stop(f) \/ Break(f)
    <3>1. Ended \in Follower
      BY PodAssumption DEF Ended, Follower
    <3> QED
      BY <2>3, <3>1 DEF OpenRefused, EndOfLog, Stop, Break, Ended
  <2> QED
    BY <2>1, <2>2, <2>3
<1>4. PICK value \in Follower :
        /\ followers' = [followers EXCEPT ![f] = value]
        /\ value.state = "open" => value.run # 0
  BY <1>3 DEF SetFollower
<1>5. delivered' \subseteq Lines
  <2>1. CASE SendLine(f)
    <3> DEFINE n == followers[f].at + 1
               r == followers[f].run
    <3>1. followers[f] \in Follower /\ r \in Runs \ {0}
      BY <2>1 DEF SendLine, IInv, TypeOK, Follower, OpenHasRun
    <3>2. n \in 1..MaxLines
      <4>1. lines[PodOf(f)][f[2]][r] \in 0..MaxLines
        BY <1>2, <3>1 DEF IInv, TypeOK
      <4>2. followers[f].at \in Nat
        BY <3>1, PodAssumption DEF Follower
      <4>3. n <= lines[PodOf(f)][f[2]][r]
        BY <2>1 DEF SendLine
      <4> QED
        BY <4>1, <4>2, <4>3, PodAssumption
    <3> QED
      BY <1>2, <2>1, <3>1, <3>2 DEF SendLine, IInv, TypeOK, Lines
  <2> QED
    BY <2>1 DEF OpenLog, OpenRefused, EndOfLog, Stop, Break, IInv, TypeOK
<1>6. broken' \subseteq Pods \X Containers
  BY <1>2 DEF OpenLog, OpenRefused, SendLine, EndOfLog, Stop, Break, IInv, TypeOK
<1>7. TypeOK'
  <2>1. followers' \in [Followers -> Follower]
    BY <1>4 DEF IInv, TypeOK
  <2> QED
    BY <1>1, <1>5, <1>6, <2>1 DEF IInv, TypeOK, clusterVars, providerVars
<1>8. \A g \in Followers : g # f => followers'[g] = followers[g]
  BY <1>4 DEF IInv, TypeOK
<1>9. followers'[f] = value
  BY <1>4 DEF IInv, TypeOK
<1>10. \A g \in Followers : ~Over(g)' => ~Over(g)
  BY <1>1, <1>8 DEF Over
<1>11. LiveIsStarted' /\ BeginIsEmpty' /\ OpenHasRun'
  BY <1>1, <1>4, <1>8, <1>9, <1>10
     DEF IInv, LiveIsStarted, BeginIsEmpty, OpenHasRun, providerVars
<1>12. KnownFollow'
  BY <1>1, <1>10 DEF IInv, KnownFollow, Stopped, PodOf, providerVars
<1>13. NothingAfterReturn'
  BY <1>1 DEF IInv, NothingAfterReturn, providerVars
<1> QED
  BY <1>7, <1>11, <1>12, <1>13 DEF IInv

\* Every step preserves the invariant.
LEMMA NextIInv == ASSUME IInv, [Next]_vars PROVE IInv'
<1>1. CASE Next
  BY <1>1, ClusterSteps, ListingSteps, ReconcileStep, EndSteps, FollowerSteps DEF Next
<1>2. CASE UNCHANGED vars
  BY <1>2
     DEF vars, clusterVars, providerVars, logVars, IInv, TypeOK, LiveIsStarted, OpenHasRun,
         BeginIsEmpty, KnownFollow, NothingAfterReturn, Over, Stopped, PodOf
<1> QED
  BY <1>1, <1>2

-----------------------------------------------------------------------------
\* Every reachable state satisfies the invariant.
LEMMA Invariance == Spec => []IInv
<1>1. Init => IInv
  BY InitIInv
<1>2. IInv /\ [Next]_vars => IInv'
  BY NextIInv
<1> QED
  BY <1>1, <1>2, PTL DEF Spec

\* The variables have their types, and an entry of active is the start of its
\* Pod and not cancelled (startPod and reconcile in Stream).
THEOREM TypeCorrect == Spec => []TypeOK
<1>1. IInv => TypeOK
  BY DEF IInv
<1> QED
  BY <1>1, Invariance, PTL

\* A log follower that runs belongs to the entry of its Pod, or its context is
\* cancelled: reconcile forgets none and follows no container twice.  None is left
\* when Stream returns (streams.Wait), so nothing is sent on the channel that run
\* closes then.
THEOREM FollowersAreKnown == Spec => []OnlyActiveFollow
<1>1. IInv => OnlyActiveFollow
  BY DEF IInv, KnownFollow, NothingAfterReturn, OnlyActiveFollow
<1> QED
  BY <1>1, Invariance, PTL

-----------------------------------------------------------------------------
(* What becomes of the lines: nothing falls between two followers. *)

\* Every start has followers.
StartsAreBounded == DOMAIN starts \subseteq 1..MaxStarts

\* What was listed of a Pod was so before: it existed, and its containers had
\* got that far.
SeenHasBeen ==
  /\ \A p \in Pods : pod[p] = "coming" => active[p] = 0 /\ p \notin DOMAIN listing
  /\ \A p \in DOMAIN listing, c \in Containers : listing[p][c] <= run[p][c]
  /\ \A p \in Pods, c \in Containers :
       active[p] # 0 => starts[active[p]].fingerprint[c] <= run[p][c]

\* A run that has not begun has logged nothing.
LinesHaveRun ==
  \A p \in Pods, c \in Containers, r \in Runs : run[p][c] < r => lines[p][c][r] = 0

\* The run a follower of p and c is there for.
Wanted(p, c, replay) == run[p][c] - (IF replay THEN 1 ELSE 0)

\* The first n lines of a run have been sent, unless the tail leaves some out.
Sent(p, c, r, n) ==
  TailLines < lines[p][c][r] \/ \A k \in 1..n : <<p, c, r, k>> \in delivered

\* That follower is there for something, and nothing excuses it.
Due(p, c, replay) ==
  /\ ~Outdated(p) /\ ~cancelled /\ pod[p] # "gone" /\ <<p, c>> \notin broken
  /\ Wanted(p, c, replay) > 0 /\ (replay => Previous)

\* It will open the log, reads it, or has read all that there is going to be.
Serves(p, c, replay) ==
  LET follower == followers[<<active[p], c, replay>>]
      r == Wanted(p, c, replay)
  IN
  \/ follower.state = "opening"
  \/ follower.state = "open" /\ follower.run = r /\ Sent(p, c, r, follower.at)
  \/ /\ follower.state = "ended" /\ (replay \/ ~running[p][c])
     /\ Sent(p, c, r, lines[p][c][r])

LogsServed ==
  \A p \in Pods, c \in Containers, replay \in BOOLEAN :
    Due(p, c, replay) => Serves(p, c, replay)

LogInv == StartsAreBounded /\ SeenHasBeen /\ LinesHaveRun /\ LogsServed

\* Runs are numbers.
LEMMA RunsAreNat == Runs \subseteq Nat
BY PodAssumption DEF Runs

\* The runs of containers are numbers.
LEMMA RunNumbers ==
  ASSUME TypeOK, NEW p \in Pods, NEW c \in Containers
  PROVE  run[p][c] \in Nat
<1>1. run[p][c] \in Runs
  BY DEF TypeOK
<1> QED
  BY <1>1, RunsAreNat

\* The followers of the entry of a Pod.
LEMMA EntryFollowers ==
  ASSUME IInv, StartsAreBounded,
         NEW p \in Pods, active[p] # 0, NEW c \in Containers, NEW replay \in BOOLEAN
  PROVE  /\ <<active[p], c, replay>> \in Followers
         /\ active[p] \in 1..Len(starts) /\ starts[active[p]] \in Start
         /\ PodOf(<<active[p], c, replay>>) = p
         /\ Requested(<<active[p], c, replay>>) = Wanted(p, c, replay)
         /\ ~starts[active[p]].cancelled
<1>1. active[p] \in 1..Len(starts) /\ starts[active[p]] \in Start
      /\ starts[active[p]].pod = p /\ ~starts[active[p]].cancelled
  BY DEF IInv, TypeOK
<1>2. active[p] \in 1..MaxStarts
  BY <1>1 DEF StartsAreBounded, IInv, TypeOK
<1>3. PodOf(<<active[p], c, replay>>) = p
  BY <1>1 DEF PodOf
<1> QED
  BY <1>1, <1>2, <1>3 DEF Followers, Requested, Wanted

\* What is sent stays sent, and a log that is too long stays so.
LEMMA SentStays ==
  ASSUME IInv, IInv', NEW p \in Pods, NEW c \in Containers, NEW r \in Runs, NEW n,
         lines'[p][c][r] >= lines[p][c][r], delivered \subseteq delivered',
         Sent(p, c, r, n)
  PROVE  Sent(p, c, r, n)'
<1>1. lines[p][c][r] \in Nat /\ lines'[p][c][r] \in Nat /\ TailLines \in Nat
  BY PodAssumption DEF IInv, TypeOK
<1> QED
  BY <1>1 DEF Sent

\* A follower that is there for something reads a run.
LEMMA WantedIsRun ==
  ASSUME IInv, NEW p \in Pods, NEW c \in Containers, NEW replay \in BOOLEAN,
         Wanted(p, c, replay) > 0
  PROVE  Wanted(p, c, replay) \in Runs
<1>1. run[p][c] \in Runs
  BY DEF IInv, TypeOK
<1>2. PICK d \in Containers : run[p][c] \in 0..MaxRuns[d]
  BY <1>1 DEF Runs
<1>3. Wanted(p, c, replay) \in 0..MaxRuns[d]
  BY <1>2, PodAssumption DEF Wanted
<1> QED
  BY <1>3 DEF Runs

\* A step that leaves a follower, its Pod and its container as they are, but for
\* lines that are logged and containers that stop.
LEMMA ServiceStays ==
  ASSUME IInv, IInv', NEW p \in Pods, NEW c \in Containers, NEW replay \in BOOLEAN,
         Due(p, c, replay) => Serves(p, c, replay),
         active'[p] = active[p],
         starts'[active[p]].fingerprint = starts[active[p]].fingerprint,
         followers'[<<active[p], c, replay>>] = followers[<<active[p], c, replay>>],
         run'[p] = run[p], running'[p][c] => running[p][c],
         pod'[p] # "gone" => pod[p] # "gone", ~cancelled' => ~cancelled,
         broken \subseteq broken', delivered \subseteq delivered',
         NEW r \in {Wanted(p, c, replay)},
         r \in Runs => \/ lines'[p][c][r] = lines[p][c][r]
                       \/ /\ lines'[p][c][r] >= lines[p][c][r]
                          /\ ~replay /\ running[p][c]
  PROVE  Due(p, c, replay)' => Serves(p, c, replay)'
<1> SUFFICES ASSUME Due(p, c, replay)' PROVE Serves(p, c, replay)'
  OBVIOUS
<1>1. Wanted(p, c, replay)' = r /\ Wanted(p, c, replay) = r
  BY DEF Wanted
<1>2. Due(p, c, replay)
  BY <1>1 DEF Due, Outdated
<1>3. r \in Runs
  BY <1>1, <1>2, WantedIsRun DEF Due
<1>4. lines'[p][c][r] \in Nat /\ lines[p][c][r] \in Nat /\ lines'[p][c][r] >= lines[p][c][r]
  BY <1>3 DEF IInv, TypeOK
<1> DEFINE follower == followers[<<active[p], c, replay>>]
<1>5. CASE follower.state = "opening"
  BY <1>5 DEF Serves
<1>6. CASE follower.state = "open" /\ follower.run = r /\ Sent(p, c, r, follower.at)
  <2>1. Sent(p, c, r, follower.at)'
    BY <1>3, <1>4, <1>6, SentStays
  <2> QED
    BY <1>1, <1>6, <2>1 DEF Serves
<1>7. CASE /\ follower.state = "ended" /\ (replay \/ ~running[p][c])
           /\ Sent(p, c, r, lines[p][c][r])
  <2>1. lines'[p][c][r] = lines[p][c][r]
    BY <1>3, <1>7
  <2>2. Sent(p, c, r, lines[p][c][r])'
    BY <1>3, <1>4, <1>7, <2>1, SentStays DEF Sent
  <2> QED
    BY <1>1, <1>7, <2>2 DEF Serves
<1> QED
  BY <1>1, <1>2, <1>5, <1>6, <1>7 DEF Serves

\* The cluster.
LEMMA ClusterKeepsLogs ==
  ASSUME IInv, IInv', LogInv, NEW q \in Pods,
         \/ CreatePod(q) \/ DeletePod(q)
         \/ \E d \in Containers : StartContainer(q, d) \/ StopContainer(q, d) \/ LogLine(q, d)
  PROVE  LogInv'
<1>1. UNCHANGED <<phase, cancelled, listing, starts, active, followers, delivered, broken>>
  BY DEF CreatePod, DeletePod, StartContainer, StopContainer, LogLine, providerVars, logVars
<1>2. \A p \in Pods, c \in Containers : run[p][c] \in Nat /\ run'[p][c] \in Nat
  <2>1. \A p \in Pods, c \in Containers : run[p][c] \in Runs /\ run'[p][c] \in Runs
    BY DEF IInv, TypeOK
  <2> QED
    BY <2>1, RunsAreNat
<1>3. ASSUME NEW p \in Pods, NEW c \in Containers
      PROVE  run'[p][c] >= run[p][c]
  <2>1. CASE \E d \in Containers : StartContainer(q, d)
    <3>1. PICK d \in Containers : run' = [run EXCEPT ![q][d] = @ + 1]
      BY <2>1 DEF StartContainer
    <3>2. run'[p][c] = IF p = q /\ c = d THEN run[p][c] + 1 ELSE run[p][c]
      <4>1. run \in [Pods -> [Containers -> Runs]]
        BY DEF IInv, TypeOK
      <4> QED
        BY <3>1, <4>1
    <3> QED
      BY <1>2, <3>2
  <2>2. CASE UNCHANGED run
    BY <1>2, <2>2
  <2> QED
    BY <2>1, <2>2 DEF CreatePod, DeletePod, StopContainer, LogLine
<1>4. \A p \in Pods : pod'[p] = "coming" => pod[p] = "coming"
  BY DEF CreatePod, DeletePod, StartContainer, StopContainer, LogLine, IInv, TypeOK
<1>5. StartsAreBounded'
  BY <1>1 DEF LogInv, StartsAreBounded
<1>6. SeenHasBeen'
  <2>1. \A p \in DOMAIN listing, c \in Containers :
          p \in Pods /\ listing[p][c] \in Nat
    BY RunsAreNat DEF IInv, TypeOK
  <2>2. ASSUME NEW p \in Pods, NEW c \in Containers, active[p] # 0
        PROVE  starts[active[p]].fingerprint[c] \in Nat
    <3>1. starts[active[p]] \in Start
      BY <2>2, EntryFollowers DEF LogInv
    <3> QED
      BY <3>1, RunsAreNat DEF Start
  <2>3. \A p \in DOMAIN listing, c \in Containers : listing[p][c] <= run'[p][c]
    BY <1>2, <1>3, <2>1 DEF LogInv, SeenHasBeen
  <2>4. \A p \in Pods, c \in Containers :
          active[p] # 0 => starts[active[p]].fingerprint[c] <= run'[p][c]
    BY <1>2, <1>3, <2>2 DEF LogInv, SeenHasBeen
  <2> QED
    BY <1>1, <1>4, <2>3, <2>4 DEF LogInv, SeenHasBeen
<1>7. LinesHaveRun'
  <2>1. SUFFICES ASSUME NEW p \in Pods, NEW c \in Containers, NEW r \in Runs, run'[p][c] < r
                 PROVE  lines'[p][c][r] = 0
    BY DEF LinesHaveRun
  <2>2. run[p][c] < r
    BY <1>2, <1>3, <2>1, RunsAreNat
  <2>3. lines[p][c][r] = 0
    BY <2>2 DEF LogInv, LinesHaveRun
  <2>4. CASE \E d \in Containers : LogLine(q, d)
    <3>1. PICK d \in Containers : LogLine(q, d)
      BY <2>4
    <3>2. /\ lines' = [lines EXCEPT ![q][d][run[q][d]] = @ + 1]
          /\ lines \in [Pods -> [Containers -> [Runs -> 0..MaxLines]]]
      BY <3>1 DEF LogLine, IInv, TypeOK
    <3>3. p = q /\ c = d => r # run[q][d]
      BY <2>2, <2>1, RunsAreNat DEF IInv, TypeOK
    <3>4. lines'[p][c][r] = lines[p][c][r]
      BY <2>1, <3>2, <3>3
    <3> QED
      BY <2>3, <3>4
  <2>5. CASE UNCHANGED lines
    BY <2>3, <2>5
  <2> QED
    BY <2>4, <2>5 DEF CreatePod, DeletePod, StartContainer, StopContainer
<1>8. LogsServed'
  <2>1. SUFFICES ASSUME NEW p \in Pods, NEW c \in Containers, NEW replay \in BOOLEAN
                 PROVE  Due(p, c, replay)' => Serves(p, c, replay)'
    BY DEF LogsServed
  <2>2. Due(p, c, replay) => Serves(p, c, replay)
    BY DEF LogInv, LogsServed
  <2>3. CASE p # q \/ ~ \E d \in Containers : StartContainer(q, d)
    <3>1. run'[p] = run[p]
      BY <2>3 DEF CreatePod, DeletePod, StartContainer, StopContainer, LogLine, IInv, TypeOK
    <3>2. CASE DeletePod(q) /\ p = q
      BY <3>2 DEF DeletePod, Due, IInv, TypeOK
    <3>3. CASE p # q \/ ~DeletePod(q)
      <4>1. running'[p][c] => running[p][c]
        <5>1. CASE UNCHANGED running
          BY <5>1
        <5>2. CASE p # q
          <6>1. running \in [Pods -> [Containers -> BOOLEAN]]
            BY DEF IInv, TypeOK
          <6>2. \/ UNCHANGED running
                \/ running' = [running EXCEPT ![q] = [d \in Containers |-> FALSE]]
                \/ \E d \in Containers, on \in BOOLEAN :
                     running' = [running EXCEPT ![q][d] = on]
            BY DEF CreatePod, DeletePod, StartContainer, StopContainer, LogLine
          <6>3. running'[p] = running[p]
            BY <5>2, <6>1, <6>2
          <6> QED
            BY <6>3
        <5>3. CASE \E d \in Containers : StopContainer(q, d)
          <6>1. PICK d \in Containers : running' = [running EXCEPT ![q][d] = FALSE]
            BY <5>3 DEF StopContainer
          <6>2. CASE p = q /\ c = d
            BY <6>1, <6>2 DEF IInv, TypeOK
          <6>3. CASE p # q \/ c # d
            <7>1. running \in [Pods -> [Containers -> BOOLEAN]]
              BY DEF IInv, TypeOK
            <7>2. running'[p][c] = running[p][c]
              BY <6>1, <6>3, <7>1
            <7> QED
              BY <7>2
          <6> QED
            BY <6>2, <6>3
        <5> QED
          BY <2>3, <3>3, <5>1, <5>2, <5>3 DEF CreatePod, LogLine
      <4>2. pod'[p] # "gone" => pod[p] # "gone"
        BY DEF CreatePod, DeletePod, StartContainer, StopContainer, LogLine, IInv, TypeOK
      <4>3. ASSUME Wanted(p, c, replay) \in Runs
            PROVE  LET r == Wanted(p, c, replay) IN
                   \/ lines'[p][c][r] = lines[p][c][r]
                   \/ lines'[p][c][r] >= lines[p][c][r] /\ ~replay /\ running[p][c]
        <5>1. CASE \E d \in Containers : LogLine(q, d)
          <6>1. PICK d \in Containers : LogLine(q, d)
            BY <5>1
          <6>2. lines' = [lines EXCEPT ![q][d][run[q][d]] = @ + 1] /\ running[q][d]
            BY <6>1 DEF LogLine
          <6>3. CASE p = q /\ c = d /\ ~replay
            BY <1>2, <4>3, <6>2, <6>3 DEF Wanted, IInv, TypeOK
          <6>4. CASE p = q /\ c = d /\ replay
            BY <1>2, <6>2, <6>4 DEF Wanted, IInv, TypeOK
          <6>5. CASE p # q \/ c # d
            <7>1. lines \in [Pods -> [Containers -> [Runs -> 0..MaxLines]]]
              BY DEF IInv, TypeOK
            <7>2. lines'[p][c] = lines[p][c]
              BY <6>2, <6>5, <7>1
            <7> QED
              BY <7>2
          <6> QED
            BY <6>3, <6>4, <6>5
        <5>2. CASE UNCHANGED lines
          BY <5>2
        <5> QED
          BY <5>1, <5>2 DEF CreatePod, DeletePod, StartContainer, StopContainer
      <4> QED
        BY <1>1, <2>2, <3>1, <4>1, <4>2, <4>3, ServiceStays
    <3> QED
      BY <3>2, <3>3
  <2>4. CASE p = q /\ \E d \in Containers : StartContainer(q, d)
    <3>1. PICK d \in Containers : run'[p][d] = run[p][d] + 1
      BY <1>2, <2>4 DEF StartContainer, IInv, TypeOK
    <3>2. ASSUME active[p] # 0 PROVE starts[active[p]].fingerprint # run'[p]
      <4>1. starts[active[p]].fingerprint[d] <= run[p][d]
        BY <3>2 DEF LogInv, SeenHasBeen
      <4>2. starts[active[p]] \in Start
        BY <3>2, EntryFollowers DEF LogInv
      <4>3. starts[active[p]].fingerprint[d] \in Nat
        BY <4>2, RunsAreNat DEF Start
      <4> QED
        BY <1>2, <3>1, <4>1, <4>3
    <3> QED
      BY <1>1, <3>2 DEF Due, Outdated
  <2> QED
    BY <2>3, <2>4
<1> QED
  BY <1>5, <1>6, <1>7, <1>8 DEF LogInv

\* Listing, and the end of Stream.
LEMMA StreamKeepsLogs ==
  ASSUME IInv, IInv', LogInv,
         ListPods \/ ListFails \/ Cancel \/ Close \/ CloseAtOnce \/ Return
  PROVE  LogInv'
<1>1. UNCHANGED <<clusterVars, logVars>> /\ UNCHANGED <<pod, run, running, lines>>
      /\ UNCHANGED <<followers, delivered, broken>>
  BY DEF ListPods, ListFails, Cancel, Close, CloseAtOnce, Return, clusterVars, logVars
<1>2. LinesHaveRun'
  BY <1>1 DEF LogInv, LinesHaveRun
<1>3. CASE Close
  <2>1. DOMAIN starts' = DOMAIN starts /\ \A p \in Pods : active'[p] = 0
    BY <1>3 DEF Close
  <2>2. listing' = listing
    BY <1>3 DEF Close
  <2>3. StartsAreBounded' /\ SeenHasBeen'
    BY <1>1, <2>1, <2>2 DEF LogInv, StartsAreBounded, SeenHasBeen
  <2>4. LogsServed'
    BY <2>1 DEF LogsServed, Due, Outdated
  <2> QED
    BY <1>2, <2>3, <2>4 DEF LogInv
<1>4. CASE ~Close
  <2>1. UNCHANGED <<starts, active>> /\ (cancelled => cancelled')
    BY <1>4 DEF ListPods, ListFails, Cancel, CloseAtOnce, Return
  <2>2. StartsAreBounded'
    BY <2>1 DEF LogInv, StartsAreBounded
  <2>3. SeenHasBeen'
    <3>1. CASE ListPods
      <4>1. listing' = [p \in Present |-> run[p]]
        BY <3>1 DEF ListPods
      <4>2. \A p \in Present, c \in Containers : run[p][c] \in Nat
        BY RunNumbers DEF IInv, Present
      <4>3. \A p \in DOMAIN listing', c \in Containers : listing'[p][c] <= run'[p][c]
        BY <1>1, <4>1, <4>2
      <4>4. \A p \in Pods : pod'[p] = "coming" => active'[p] = 0 /\ p \notin DOMAIN listing'
        BY <1>1, <2>1, <4>1 DEF Present, LogInv, SeenHasBeen
      <4>5. \A p \in Pods, c \in Containers :
              active'[p] # 0 => starts'[active'[p]].fingerprint[c] <= run'[p][c]
        BY <1>1, <2>1 DEF LogInv, SeenHasBeen
      <4> QED
        BY <4>3, <4>4, <4>5 DEF SeenHasBeen
    <3>2. CASE UNCHANGED listing
      BY <1>1, <2>1, <3>2 DEF LogInv, SeenHasBeen
    <3> QED
      BY <1>4, <3>1, <3>2 DEF ListFails, Cancel, CloseAtOnce, Return
  <2>4. ASSUME NEW p \in Pods, NEW c \in Containers, NEW replay \in BOOLEAN
        PROVE  Due(p, c, replay)' => Serves(p, c, replay)'
    <3>1. Due(p, c, replay) => Serves(p, c, replay)
      BY DEF LogInv, LogsServed
    <3> QED
      BY <1>1, <2>1, <3>1, ServiceStays
  <2> QED
    BY <1>2, <2>2, <2>3, <2>4 DEF LogInv, LogsServed
<1> QED
  BY <1>3, <1>4

\* A reconciliation: a Pod keeps its followers, loses them, or is given new ones
\* for the runs that were listed.
LEMMA ReconcileKeepsLogs ==
  ASSUME IInv, IInv', LogInv, Reconcile
  PROVE  LogInv'
<1>1. UNCHANGED <<pod, run, running, lines, cancelled, delivered, broken>>
      /\ listing' = <<>>
  BY Reconciled
<1>2. StartsAreBounded'
  BY Reconciled DEF StartsAreBounded
<1>3. LinesHaveRun'
  BY <1>1 DEF LogInv, LinesHaveRun
<1>4. ASSUME NEW p \in ToStart
      PROVE  /\ p \in Pods /\ p \in DOMAIN listing /\ active'[p] # 0
             /\ starts'[active'[p]].fingerprint = listing[p]
             /\ active'[p] \in (1..Len(starts')) \ (1..Len(starts))
  <2>1. /\ p \in Pods /\ active'[p] \in (1..Len(starts')) \ (1..Len(starts))
        /\ starts'[active'[p]] = [pod |-> p, fingerprint |-> listing[p], cancelled |-> FALSE]
    BY Reconciled
  <2> QED
    BY <2>1 DEF ToStart
<1>5. ASSUME NEW p \in Pods, p \notin ToStart, active'[p] # 0
      PROVE  /\ active'[p] = active[p] /\ active[p] \in 1..Len(starts)
             /\ starts'[active[p]].fingerprint = starts[active[p]].fingerprint
  <2>1. active'[p] = active[p]
    BY <1>5, Reconciled
  <2>2. active[p] \in 1..Len(starts)
    BY <1>5, <2>1 DEF IInv, TypeOK
  <2> QED
    BY <2>1, <2>2, Reconciled
<1>6. SeenHasBeen'
  <2>1. ASSUME NEW p \in Pods, pod[p] = "coming" PROVE active'[p] = 0
    <3>1. active[p] = 0 /\ p \notin ToStart
      BY <2>1 DEF LogInv, SeenHasBeen, ToStart
    <3> QED
      BY <1>5, <3>1
  <2>2. ASSUME NEW p \in Pods, NEW c \in Containers, active'[p] # 0
        PROVE  starts'[active'[p]].fingerprint[c] <= run[p][c]
    <3>1. CASE p \in ToStart
      BY <1>4, <3>1 DEF LogInv, SeenHasBeen
    <3>2. CASE p \notin ToStart
      BY <1>5, <2>2, <3>2 DEF LogInv, SeenHasBeen
    <3> QED
      BY <3>1, <3>2
  <2> QED
    BY <1>1, <2>1, <2>2 DEF SeenHasBeen
<1>7. ASSUME NEW p \in Pods, NEW c \in Containers, NEW replay \in BOOLEAN,
             Due(p, c, replay)'
      PROVE  Serves(p, c, replay)'
  <2>1. active'[p] # 0 /\ starts'[active'[p]].fingerprint = run[p]
    BY <1>1, <1>7 DEF Due, Outdated
  <2> DEFINE f == <<active'[p], c, replay>>
  <2>2. f \in Followers /\ f[1] = active'[p] /\ f[2] = c /\ f[3] = replay
    <3>1. active'[p] \in 1..Len(starts') /\ Len(starts') \in Nat
          /\ DOMAIN starts' = 1..Len(starts')
      BY <2>1 DEF IInv, TypeOK
    <3> QED
      BY <1>2, <3>1 DEF StartsAreBounded, Followers
  <2>3. followers'[f] = IF f[1] \in (1..Len(starts')) \ (1..Len(starts))
                        THEN StartedFollower(starts'[f[1]], f[2], f[3])
                        ELSE followers[f]
    BY <2>2, Reconciled
  <2>4. CASE p \in ToStart
    <3>1. followers'[f] = StartedFollower(starts'[active'[p]], c, replay)
      BY <1>4, <2>2, <2>3, <2>4
    <3>2. replay => Previous /\ starts'[active'[p]].fingerprint[c] > 1
      <4>1. Wanted(p, c, replay)' > 0 /\ (replay => Previous)
        BY <1>7 DEF Due
      <4>2. run'[p] = run[p] /\ run[p][c] \in Nat
        BY <1>1, RunNumbers DEF IInv
      <4> QED
        BY <2>1, <4>1, <4>2 DEF Wanted
    <3>3. followers'[f] = Opening
      BY <3>1, <3>2 DEF StartedFollower
    <3> QED
      BY <3>3 DEF Opening, Serves
  <2>5. CASE p \notin ToStart
    <3>1. followers'[<<active[p], c, replay>>] = followers[<<active[p], c, replay>>]
      BY <1>5, <2>1, <2>3, <2>5
    <3>2. Due(p, c, replay) => Serves(p, c, replay)
      BY DEF LogInv, LogsServed
    <3>3. Due(p, c, replay)' => Serves(p, c, replay)'
      BY <1>1, <1>5, <2>1, <2>5, <3>1, <3>2, ServiceStays
    <3> QED
      BY <1>7, <3>3
  <2> QED
    BY <2>4, <2>5
<1> QED
  BY <1>2, <1>3, <1>6, <1>7 DEF LogInv, LogsServed

\* The follower that is there for a run opens its log, reads it, or ends.
LEMMA FollowerServes ==
  ASSUME IInv, IInv', LogInv,
         NEW p \in Pods, NEW c \in Containers, NEW replay \in BOOLEAN,
         Due(p, c, replay), Due(p, c, replay)', UNCHANGED <<clusterVars, providerVars>>,
         NEW f \in {<<active[p], c, replay>>},
         \/ OpenLog(f) \/ OpenRefused(f) \/ SendLine(f)
         \/ EndOfLog(f) \/ Stop(f) \/ Break(f)
  PROVE  Serves(p, c, replay)'
<1> DEFINE r == Wanted(p, c, replay)
<1>1. active[p] # 0 /\ pod[p] # "gone" /\ ~cancelled /\ r > 0
  BY DEF Due, Outdated
<1>2. /\ f \in Followers /\ PodOf(f) = p /\ f[1] = active[p] /\ f[2] = c /\ f[3] = replay
      /\ Requested(f) = r /\ ~starts[active[p]].cancelled
  BY <1>1, EntryFollowers DEF LogInv
<1>3. r \in Runs /\ run[p][c] \in Nat
  BY <1>1, WantedIsRun, RunNumbers DEF IInv
<1>4. UNCHANGED <<pod, run, running, lines, active>> /\ r' = r
  BY DEF clusterVars, providerVars, Wanted
<1>5. lines[p][c][r] \in Nat /\ TailLines \in Nat
  BY <1>3, PodAssumption DEF IInv, TypeOK
<1>6. Serves(p, c, replay)
  BY DEF LogInv, LogsServed
<1>7. followers[f].state = "open" => followers[f].run = r /\ Sent(p, c, r, followers[f].at)
  BY <1>2, <1>6 DEF Serves
<1> HIDE DEF r
<1>8. CASE OpenLog(f)
  <2>1. followers' = [followers EXCEPT ![f] =
          [state |-> "open", run |-> r, at |-> TailOf(lines[p][c][r])]]
        /\ delivered' = delivered
    BY <1>2, <1>8 DEF OpenLog, SetFollower
  <2>2. followers'[f] = [state |-> "open", run |-> r, at |-> TailOf(lines[p][c][r])]
    BY <1>2, <2>1 DEF IInv, TypeOK
  <2>3. TailLines < lines[p][c][r] \/ TailOf(lines[p][c][r]) = 0
    BY <1>5 DEF TailOf
  <2>4. Sent(p, c, r, TailOf(lines[p][c][r]))
    BY <2>3 DEF Sent
  <2> QED
    BY <1>4, <2>1, <2>2, <2>4 DEF Serves, Sent, r
<1>9. CASE OpenRefused(f)
  <2>1. pod[p] = "present"
    BY <1>1 DEF LogInv, SeenHasBeen, IInv, TypeOK
  <2>2. run[p][c] # 0
    BY <1>1, <1>3 DEF r, Wanted
  <2> QED
    BY <1>2, <1>9, <2>1, <2>2 DEF OpenRefused
<1>10. CASE SendLine(f)
  <2> DEFINE n == followers[f].at + 1
  <2>1. /\ followers[f].state = "open" /\ followers[f].run = r
        /\ Sent(p, c, r, followers[f].at)
    BY <1>7, <1>10 DEF SendLine
  <2>2. /\ followers' = [followers EXCEPT ![f] = [followers[f] EXCEPT !.at = n]]
        /\ delivered' = delivered \cup {<<p, c, r, n>>}
    BY <1>2, <1>10, <2>1 DEF SendLine, SetFollower
  <2>3. followers[f] \in Follower
    BY <1>2 DEF IInv, TypeOK
  <2>4. followers'[f].state = "open" /\ followers'[f].run = r /\ followers'[f].at = n
    BY <1>2, <2>1, <2>2, <2>3 DEF IInv, TypeOK, Follower
  <2>5. followers[f].at \in Nat
    BY <2>3, PodAssumption DEF Follower
  <2>6. TailLines < lines[p][c][r] \/ \A k \in 1..n : <<p, c, r, k>> \in delivered'
    <3>1. \A k \in 1..n : k \in 1..followers[f].at \/ k = n
      BY <2>5
    <3> QED
      BY <2>1, <2>2, <3>1 DEF Sent
  <2> QED
    BY <1>4, <2>4, <2>6 DEF Serves, Sent, r
<1>11. CASE EndOfLog(f)
  <2>1. /\ followers[f].state = "open" /\ followers[f].run = r
        /\ Sent(p, c, r, followers[f].at)
    BY <1>7, <1>11 DEF EndOfLog
  <2>2. followers[f].at = lines[p][c][r] /\ (r # run[p][c] \/ ~running[p][c])
    BY <1>1, <1>2, <1>11, <2>1 DEF EndOfLog, RunOver
  <2>3. replay \/ ~running[p][c]
    BY <1>3, <2>2 DEF r, Wanted
  <2>4. followers'[f] = Ended /\ delivered' = delivered
    BY <1>2, <1>11 DEF EndOfLog, SetFollower, IInv, TypeOK
  <2> QED
    BY <1>4, <2>1, <2>2, <2>3, <2>4 DEF Ended, Serves, Sent, r
<1>12. CASE Stop(f)
  BY <1>1, <1>2, <1>12 DEF Stop, Stopped
<1>13. CASE Break(f)
  BY <1>2, <1>13 DEF Break, Due
<1> QED
  BY <1>8, <1>9, <1>10, <1>11, <1>12, <1>13

\* A step of a follower.
LEMMA FollowersKeepLogs ==
  ASSUME IInv, IInv', LogInv, NEW g \in Followers,
         \/ OpenLog(g) \/ OpenRefused(g) \/ SendLine(g)
         \/ EndOfLog(g) \/ Stop(g) \/ Break(g)
  PROVE  LogInv'
<1>1. UNCHANGED <<clusterVars, providerVars>>
      /\ UNCHANGED <<pod, run, running, lines, cancelled, listing, starts, active>>
  BY DEF OpenLog, OpenRefused, SendLine, EndOfLog, Stop, Break, clusterVars, providerVars
<1>2. StartsAreBounded' /\ SeenHasBeen' /\ LinesHaveRun'
  BY <1>1 DEF LogInv, StartsAreBounded, SeenHasBeen, LinesHaveRun
<1>3. delivered \subseteq delivered' /\ broken \subseteq broken'
  BY DEF OpenLog, OpenRefused, SendLine, EndOfLog, Stop, Break
<1>4. \A f \in Followers : f # g => followers'[f] = followers[f]
  BY DEF OpenLog, OpenRefused, SendLine, EndOfLog, Stop, Break, SetFollower, IInv, TypeOK
<1>5. ASSUME NEW p \in Pods, NEW c \in Containers, NEW replay \in BOOLEAN,
             Due(p, c, replay)'
      PROVE  Serves(p, c, replay)'
  <2>1. Due(p, c, replay) /\ active[p] # 0
    BY <1>1, <1>3, <1>5 DEF Due, Outdated, Wanted
  <2>2. Due(p, c, replay) => Serves(p, c, replay)
    BY DEF LogInv, LogsServed
  <2>3. <<active[p], c, replay>> \in Followers
    BY <2>1, EntryFollowers DEF LogInv
  <2>4. CASE g = <<active[p], c, replay>>
    BY <1>1, <1>5, <2>1, <2>4, FollowerServes
  <2>5. CASE g # <<active[p], c, replay>>
    <3>1. followers'[<<active[p], c, replay>>] = followers[<<active[p], c, replay>>]
      BY <1>4, <2>3, <2>5
    <3>2. Due(p, c, replay)' => Serves(p, c, replay)'
      BY <1>1, <1>3, <2>2, <3>1, ServiceStays
    <3> QED
      BY <1>5, <3>2
  <2> QED
    BY <2>4, <2>5
<1> QED
  BY <1>2, <1>5 DEF LogInv, LogsServed

\* The initial state satisfies the invariant.
LEMMA InitLogInv == Init => LogInv
<1> SUFFICES ASSUME Init PROVE LogInv
  OBVIOUS
<1>1. StartsAreBounded
  BY DEF Init, StartsAreBounded
<1>2. SeenHasBeen
  BY DEF Init, SeenHasBeen
<1>3. LinesHaveRun
  BY DEF Init, LinesHaveRun
<1>4. LogsServed
  BY DEF Init, LogsServed, Due, Outdated
<1> QED
  BY <1>1, <1>2, <1>3, <1>4 DEF LogInv

\* Every step preserves it.
LEMMA NextLogInv == IInv /\ IInv' /\ LogInv /\ [Next]_vars => LogInv'
<1> SUFFICES ASSUME IInv, IInv', LogInv, [Next]_vars PROVE LogInv'
  OBVIOUS
<1>1. CASE Next
  BY <1>1, ClusterKeepsLogs, StreamKeepsLogs, ReconcileKeepsLogs, FollowersKeepLogs DEF Next
<1>2. CASE UNCHANGED vars
  BY <1>2
     DEF vars, clusterVars, providerVars, logVars, LogInv, StartsAreBounded, SeenHasBeen,
         LinesHaveRun, LogsServed, Due, Serves, Sent, Wanted, Outdated
<1> QED
  BY <1>1, <1>2

\* A line that has not arrived is ahead of the follower that is there for its run.
LEMMA LinesAreKept == ASSUME IInv, LogInv PROVE NoLineIsLost
<1>1. SUFFICES ASSUME NEW p \in Pods, NEW c \in Containers, NEW r \in Runs \ {0},
                      NEW n \in 1..MaxLines,
                      n <= lines[p][c][r], lines[p][c][r] <= TailLines, ~Excused(p, c, r),
                      <<p, c, r, n>> \notin delivered, ~Outdated(p)
               PROVE  \E f \in Followers : f[1] = active[p] /\ f[2] = c /\ Ahead(f, r, n)
  BY DEF NoLineIsLost, Lines
<1>2. r \in Nat /\ r > 0 /\ n \in Nat /\ run[p][c] \in Nat
      /\ lines[p][c][r] \in Nat /\ TailLines \in Nat
  <2>1. lines[p][c][r] \in 0..MaxLines
    BY DEF IInv, TypeOK
  <2>2. lines[p][c][r] \in Nat /\ TailLines \in Nat /\ n \in Nat
    BY <2>1, PodAssumption
  <2>3. r \in Nat /\ r > 0
    BY RunsAreNat
  <2>4. run[p][c] \in Nat
    BY RunNumbers DEF IInv
  <2> QED
    BY <2>2, <2>3, <2>4
<1>3. r <= run[p][c]
  <2>1. run[p][c] < r => lines[p][c][r] = 0
    BY DEF LogInv, LinesHaveRun
  <2> QED
    BY <1>1, <1>2, <2>1
<1>4. PICK replay \in BOOLEAN : Wanted(p, c, replay) = r /\ (replay => Previous)
  <2>1. run[p][c] <= r + (IF Previous THEN 1 ELSE 0)
    BY <1>1, <1>2, PodAssumption DEF Excused
  <2>2. run[p][c] = r \/ (Previous /\ run[p][c] - 1 = r)
    BY <1>2, <1>3, <2>1, PodAssumption
  <2>3. CASE run[p][c] = r
    <3>1. Wanted(p, c, FALSE) = r
      BY <1>2, <2>3 DEF Wanted
    <3> QED
      BY <3>1
  <2>4. CASE Previous /\ run[p][c] - 1 = r
    <3>1. Wanted(p, c, TRUE) = r
      BY <2>4 DEF Wanted
    <3> QED
      BY <2>4, <3>1
  <2> QED
    BY <2>2, <2>3, <2>4
<1>5. Due(p, c, replay)
  BY <1>1, <1>2, <1>4 DEF Excused, Due
<1>6. Serves(p, c, replay)
  BY <1>5 DEF LogInv, LogsServed
<1> DEFINE f == <<active[p], c, replay>>
<1>7. f \in Followers /\ f[1] = active[p] /\ f[2] = c /\ Requested(f) = r
  BY <1>1, <1>4, EntryFollowers DEF Outdated, LogInv
<1>8. Ahead(f, r, n)
  <2>1. CASE followers[f].state = "opening"
    BY <1>7, <2>1 DEF Ahead
  <2>2. CASE /\ followers[f].state = "open" /\ followers[f].run = r
             /\ Sent(p, c, r, followers[f].at)
    <3>1. followers[f].at \in Nat
      BY <1>7, PodAssumption DEF IInv, TypeOK, Follower
    <3>2. \A k \in 1..followers[f].at : <<p, c, r, k>> \in delivered
      BY <1>1, <1>2, <2>2 DEF Sent
    <3>3. followers[f].at < n
      BY <1>1, <1>2, <3>1, <3>2
    <3> QED
      BY <2>2, <3>3 DEF Ahead
  <2>3. CASE Sent(p, c, r, lines[p][c][r])
    BY <1>1, <1>2, <2>3 DEF Sent
  <2> QED
    BY <1>4, <1>6, <2>1, <2>2, <2>3 DEF Serves
<1> QED
  BY <1>7, <1>8

\* No line falls between two followers: a restart gives its Pod followers for the
\* run before and for the new one (runAPIPodStreams), each reads its log to the end
\* (streamLogs), and reconcile cancels none whose successor does not begin before.
THEOREM NothingIsSkipped == Spec => []NoLineIsLost
<1>1. Init => LogInv
  BY InitLogInv
<1>2. IInv /\ IInv' /\ LogInv /\ [Next]_vars => LogInv'
  BY NextLogInv
<1>3. IInv /\ LogInv => NoLineIsLost
  BY LinesAreKept
<1> QED
  BY <1>1, <1>2, <1>3, Invariance, PTL DEF Spec
=============================================================================
