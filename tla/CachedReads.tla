----------------------------- MODULE CachedReads -----------------------------
(***************************************************************************)
(* What a cache in front of a runtime promises once it is invalidated      *)
(* after every change: a call that begins after an invalidation is never   *)
(* answered from before it.  In between, an answer may be as old as the    *)
(* last invalidation, and a call may fail.                                 *)
(*                                                                         *)
(* SnapshotCache is shown to implement this specification.                 *)
(***************************************************************************)
EXTENDS Naturals

CONSTANTS
  Calls, Conns,
  None,      \* no connection, no answer yet
  Failed     \* the answer of a call that fails

VARIABLES
  truth,     \* version of what each connection's runtime really contains
  floor,     \* version at the last invalidation of the connection
  asked,     \* the connection and the oldest version each call may be given
  answer     \* what each call was given

vars == <<truth, floor, asked, answer>>

Nothing == [conn |-> None, least |-> 0]

Init ==
  /\ truth = [c \in Conns |-> 0]
  /\ floor = [c \in Conns |-> 0]
  /\ asked = [q \in Calls |-> Nothing]
  /\ answer = [q \in Calls |-> None]

Change(c) ==
  /\ truth' = [truth EXCEPT ![c] = @ + 1]
  /\ UNCHANGED <<floor, asked, answer>>

Invalidate(c) ==
  /\ floor' = [floor EXCEPT ![c] = truth[c]]
  /\ UNCHANGED <<truth, asked, answer>>

Ask(q, c) ==
  /\ asked[q] = Nothing
  /\ asked' = [asked EXCEPT ![q] = [conn |-> c, least |-> floor[c]]]
  /\ UNCHANGED <<truth, floor, answer>>

Answer(q) ==
  /\ asked[q] # Nothing
  /\ answer[q] = None
  /\ \E a \in {Failed} \cup (asked[q].least .. truth[asked[q].conn]) :
       answer' = [answer EXCEPT ![q] = a]
  /\ UNCHANGED <<truth, floor, asked>>

Next ==
  \/ \E c \in Conns : Change(c) \/ Invalidate(c) \/ \E q \in Calls : Ask(q, c)
  \/ \E q \in Calls : Answer(q)

Spec == Init /\ [][Next]_vars
=============================================================================
