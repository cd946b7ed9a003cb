--------------------------- MODULE RegistryProofs ---------------------------
(***************************************************************************)
(* Theorems about Registry, for every set of ids, requests and saved       *)
(* connections and any number of secrets and restarts.                     *)
(*                                                                         *)
(* The argument: an id is named once, by the request that creates its      *)
(* record, so the secrets and the kind of a record are those it was born   *)
(* with (Origin), whatever PATCH writes back later, and the secrets of two *)
(* records never meet.  A handler that removes secrets works on a record   *)
(* that was never stored, on a profile that is gone, or on a connection    *)
(* somebody deletes.                                                       *)
(*                                                                         *)
(* Access mode manage is followed along the saves: a record has it only    *)
(* while OptedIn holds at the last save, and a copy only if OptedIn held   *)
(* when it was taken.  The history grows at its end, and a request that is *)
(* in it never changes again, so what held at an earlier save holds later. *)
(***************************************************************************)
EXTENDS Registry, TLAPS

Making == {"building", "testing", "saving"}

\* The save or delete of this request took effect.
Stored(id) == \E n \in 1 .. Len(saves) : saves[n] = id

\* It takes effect in this step.
Recorded(q) == saves' = Append(saves, q)

\* The record of this id has been stored.
Born(id) ==
  \/ id \in Saved
  \/ id \in Requests /\ op[id] = "create" /\ Stored(id)

\* What the record was stored with; a request keeps its draft when it is done.
OriginKind(id)    == IF id \in Saved THEN "connection" ELSE draft[id].kind
OriginSecrets(id) == IF id \in Saved THEN {<<id, 1>>} ELSE draft[id].secrets

\* The discarding part of a DELETE.
Erasing(q) == pc[q] = "discarding" /\ op[q] = "delete"

\* How far a request has come fits what it asks for.
Lifecycle ==
  \A q \in Requests :
    /\ answer[q] # "none" <=> pc[q] = "done"
    /\ pc[q] = "idle" => op[q] = "none"
    /\ pc[q] \in InFlight => target[q] \in Ids /\ draft[q] \in Record
    /\ pc[q] \in Making => op[q] \in {"create", "test"}
    /\ pc[q] = "building" /\ draft[q].kind = "profile" => op[q] = "create"
    /\ pc[q] = "saving" => op[q] = "create"
    /\ pc[q] = "discarding" => op[q] \in {"create", "test", "delete"}
    /\ pc[q] = "updating" => op[q] = "update"
    /\ pc[q] \in {"clearing", "dropping"} => op[q] = "delete"
    /\ pc[q] = "acting" => op[q] = "act"
    /\ q \in acted => pc[q] \in {"answering", "done"}
    /\ Stored(q) => \/ pc[q] \in {"answering", "done"}
                    \/ pc[q] = "discarding" /\ op[q] = "delete"
    /\ op[q] \in {"create", "test"} => target[q] = q /\ draft[q] \in Record

\* Secrets are named after the request that creates the record.
SecretsAreNamed ==
  \A q \in Requests : op[q] \in {"create", "test"} =>
    \A s \in draft[q].secrets : s[1] = q

\* A record has the kind and the secrets it was born with.
StoredAsBorn ==
  \A id \in Ids : records[id] # None =>
    /\ Born(id)
    /\ records[id].kind = OriginKind(id)
    /\ records[id].secrets = OriginSecrets(id)

\* The records that PATCH, DELETE and the actions work on were stored.
TargetsAreBorn ==
  \A q \in Requests :
    pc[q] \in {"updating", "clearing", "dropping", "acting"} \/ Erasing(q) => Born(target[q])

\* PATCH writes back the secrets the connection was born with.
UpdatesKeepOrigin ==
  \A q \in Requests : pc[q] = "updating" =>
    /\ OriginKind(target[q]) = "connection" /\ draft[q].kind = "connection"
    /\ draft[q].secrets = OriginSecrets(target[q])

\* What DELETE still has to remove, before and after it has removed the record.
DeletesHoldRest ==
  \A q \in Requests :
    /\ pc[q] = "clearing" =>
         /\ draft[q].kind = "connection" /\ OriginKind(target[q]) = "connection"
         /\ draft[q].secrets \subseteq OriginSecrets(target[q])
         /\ OriginSecrets(target[q]) \cap secrets \subseteq draft[q].secrets \cup strays
    /\ pc[q] = "dropping" =>
         /\ draft[q].kind = OriginKind(target[q])
         /\ draft[q].kind = "connection" => OriginSecrets(target[q]) \cap secrets \subseteq strays
         /\ draft[q].kind = "profile" => draft[q].secrets = OriginSecrets(target[q])
    /\ Erasing(q) =>
         /\ OriginKind(target[q]) = "profile"
         /\ draft[q].secrets \subseteq OriginSecrets(target[q])
         /\ records[target[q]] = None

\* A record in the making has its secrets.
MakingHasSecrets ==
  \A q \in Requests : pc[q] \in Making => draft[q].secrets \subseteq secrets

\* Somebody asked to delete the record.
Unwanted(id) == \E q \in Requests : op[q] = "delete" /\ target[q] = id

\* A record that is gone was deleted.
GoneWasDeleted == \A id \in Ids : Born(id) /\ records[id] = None => Unwanted(id)

\* NoOrphanSecret, one secret at a time.
SecretsAreHeld ==
  \A s \in secrets :
    \/ s \in strays
    \/ \E id \in Ids : records[id] # None /\ s \in records[id].secrets
    \/ \E q \in Holding : s \in draft[q].secrets

\* The connection had access mode manage by right when the request took its copy,
\* or has it now.
WasOpen(q) == OptedIn(target[q], begun[q])
IsOpen(id) == OptedIn(id, Len(saves))

\* A copy was taken after a save that was made.
BegunInPast == \A q \in Requests : begun[q] <= Len(saves)

\* ActionNeedsOptIn
ActedWhereOpen ==
  \A q \in Requests : q \in acted \/ pc[q] = "acting" => WasOpen(q)

\* Where access mode manage may be found.
ManageIsOptIn ==
  /\ \A id \in Ids : records[id] # None /\ records[id].access = "manage" => IsOpen(id)
  /\ \A q \in Requests :
       /\ pc[q] \in Making /\ draft[q].access = "manage" => asked[q] = "manage"
       /\ pc[q] = "updating" /\ draft[q].access = "manage" =>
            \/ asked[q] = "manage"
            \/ asked[q] = None /\ op[q] = "update" /\ WasOpen(q)

IInv ==
  /\ TypeOK
  /\ RestartFindsAll
  /\ Lifecycle
  /\ SecretsAreNamed
  /\ StoredAsBorn
  /\ TargetsAreBorn
  /\ UpdatesKeepOrigin
  /\ DeletesHoldRest
  /\ MakingHasSecrets
  /\ GoneWasDeleted
  /\ ManageIsOptIn
  /\ SecretsAreHeld
  /\ RecordKeepsSecrets
  /\ BegunInPast
  /\ ActedWhereOpen

-----------------------------------------------------------------------------
LEMMA InitIInv == Init => IInv
<1> SUFFICES ASSUME Init PROVE IInv
  OBVIOUS
<1> USE RequestsAssumption DEF Init
<1>1. TypeOK
  BY DEF TypeOK, Record, Secrets, Modes, Histories
<1>2. RestartFindsAll /\ Lifecycle /\ SecretsAreNamed
  <2>1. \A q : ~Stored(q)
    BY DEF Stored
  <2> QED
    BY <2>1 DEF RestartFindsAll, Lifecycle, SecretsAreNamed, InFlight, Making
<1>3. StoredAsBorn
  BY DEF StoredAsBorn, Born, OriginKind, OriginSecrets
<1>4. TargetsAreBorn /\ UpdatesKeepOrigin /\ DeletesHoldRest /\ MakingHasSecrets
  BY DEF TargetsAreBorn, UpdatesKeepOrigin, DeletesHoldRest, MakingHasSecrets, Erasing,
         Making
<1>5. GoneWasDeleted
  BY NoneAssumption DEF GoneWasDeleted, Born, Record, Modes, Secrets
<1>6. ManageIsOptIn /\ ActedWhereOpen
  <2>1. ASSUME NEW id \in Managed PROVE IsOpen(id)
    <3>1. Grants(0, id) /\ 0 \in 0 .. 0 /\ (0 + 1) .. 0 = {} /\ Len(saves) = 0
      BY DEF Grants
    <3> QED
      BY <3>1 DEF IsOpen, OptedIn
  <2> QED
    BY <2>1 DEF ManageIsOptIn, ActedWhereOpen, Making, InFlight
<1>7. SecretsAreHeld
  <2>1. \A id \in Saved : {<<id, 1>>} \in SUBSET Secrets
    <3>1. 1 \in 1 .. MaxSecrets
      OBVIOUS
    <3>2. \A id \in Saved : <<id, 1>> \in Ids \X (1 .. MaxSecrets)
      BY <3>1
    <3> QED
      BY <3>2 DEF Secrets
  <2>2. \A id \in Saved : records[id] \in Record
    BY <2>1 DEF Record, Modes
  <2>3. \A id \in Saved : id \in Ids /\ <<id, 1>> \in records[id].secrets
    OBVIOUS
  <2> QED
    BY <2>2, <2>3, NoneAssumption DEF SecretsAreHeld
<1>8. RecordKeepsSecrets
  BY DEF RecordKeepsSecrets
<1>9. BegunInPast
  BY DEF BegunInPast
<1> QED
  BY <1>1, <1>2, <1>3, <1>4, <1>5, <1>6, <1>7, <1>8, <1>9 DEF IInv

-----------------------------------------------------------------------------
\* The secrets a record was stored with bear its id.
LEMMA OriginsAreNamed ==
  ASSUME IInv, NEW id, Born(id), NEW s \in OriginSecrets(id)
  PROVE  s[1] = id
BY DEF IInv, SecretsAreNamed, Born, OriginSecrets

\* What holds at a save still holds when more has been saved.
LEMMA OptInStays ==
  ASSUME IInv, saves' \in Histories, Len(saves) <= Len(saves'),
         \A n \in 1 .. Len(saves) :
           /\ saves'[n] = saves[n]
           /\ op'[saves[n]] = op[saves[n]] /\ target'[saves[n]] = target[saves[n]]
           /\ asked'[saves[n]] = asked[saves[n]] /\ begun'[saves[n]] = begun[saves[n]],
         NEW id, NEW t \in 0 .. Len(saves), OptedIn(id, t)
  PROVE  OptedIn(id, t)'
<1>1. Len(saves) \in Nat
  BY DEF IInv, TypeOK, Histories
<1>2. \A n \in 0 .. t : About(n, id)' <=> About(n, id)
  BY <1>1 DEF About
<1>3. \A n \in 0 .. t : Grants(n, id) => Grants(n, id)'
  BY <1>1, <1>2 DEF Grants, About
<1>4. \A n \in 0 .. t : Revokes(n, id)' => Revokes(n, id)
  BY <1>1, <1>2 DEF Revokes, About
<1>5. \A n \in 0 .. t, i \in 0 .. t : PutsBack(n, i, id) => PutsBack(n, i, id)'
  BY <1>1, <1>2 DEF PutsBack, About
<1>6. PICK j \in 0 .. t :
        /\ Grants(j, id)
        /\ \A i \in (j + 1) .. t : Revokes(i, id) => \E n \in 1 .. t : PutsBack(n, i, id)
  BY DEF OptedIn
<1>7. ASSUME NEW i \in (j + 1) .. t, Revokes(i, id)'
      PROVE  \E n \in 1 .. t : PutsBack(n, i, id)'
  <2>1. i \in 0 .. t /\ \A n \in 1 .. t : n \in 0 .. t
    BY <1>1
  <2>2. PICK n \in 1 .. t : PutsBack(n, i, id)
    BY <1>4, <1>6, <1>7, <2>1
  <2> QED
    BY <1>5, <2>1, <2>2
<1>8. Grants(j, id)'
  BY <1>3, <1>6
<1> QED
  BY <1>7, <1>8 DEF OptedIn

\* What one handler does to itself, before it answers, leaves every record that was
\* stored, and every save and wish there was, as they are.
LEMMA HistoryStays ==
  ASSUME IInv, NEW q \in Requests, pc[q] \notin {"answering", "done"},
         \A p \in Requests \ {q} :
           /\ op'[p] = op[p] /\ target'[p] = target[p] /\ asked'[p] = asked[p]
           /\ draft'[p] = draft[p] /\ begun'[p] = begun[p],
         pc[q] # "idle" => /\ op'[q] = op[q] /\ target'[q] = target[q]
                           /\ asked'[q] = asked[q] /\ begun'[q] = begun[q],
         begun' \in [Requests -> Nat], begun'[q] \in {0, begun[q], Len(saves)},
         saves' = saves \/ (pc[q] # "idle" /\ Recorded(q))
  PROVE  /\ \A id \in Ids : Born(id) =>
               /\ Born(id)' /\ id # q
               /\ OriginKind(id)' = OriginKind(id)
               /\ OriginSecrets(id)' = OriginSecrets(id)
         /\ \A id \in Ids : Born(id)' =>
               Born(id) \/ (id = q /\ op[q] = "create" /\ saves' # saves)
         /\ \A id : IsOpen(id) /\ saves' = saves => IsOpen(id)'
         /\ BegunInPast' /\ saves' \in Histories
         /\ \A p \in Requests : WasOpen(p) /\ (p = q => pc[q] # "idle") => WasOpen(p)'
         /\ \A id : Unwanted(id) => Unwanted(id)'
         /\ \A p : Stored(p)' <=> Stored(p) \/ (p = q /\ saves' # saves)
         /\ Recorded(q) => saves' # saves
<1>1. /\ saves \in Histories /\ Len(saves) \in Nat
      /\ saves' \in Histories /\ Len(saves) <= Len(saves')
      /\ \A n \in 1 .. Len(saves) : saves[n] \in Requests /\ saves'[n] = saves[n]
  <2>1. saves \in Seq(Requests)
    BY DEF IInv, TypeOK, Histories
  <2>2. /\ saves' \in Seq(Requests) /\ Len(saves') \in {Len(saves), Len(saves) + 1}
        /\ \A n \in 1 .. Len(saves) : saves'[n] = saves[n]
    <3>1. CASE saves' = saves
      BY <2>1, <3>1
    <3>2. CASE saves' = Append(saves, q)
      BY <2>1, <3>2
    <3> QED
      BY <3>1, <3>2 DEF Recorded
  <2>3. Len(saves) \in Nat /\ \A n \in 1 .. Len(saves) : saves[n] \in Requests
    BY <2>1
  <2>4. Len(saves) <= Len(saves')
    BY <2>2, <2>3
  <2> QED
    BY <2>1, <2>2, <2>3, <2>4 DEF Histories
<1>2. \A p : Stored(p)' <=> Stored(p) \/ (p = q /\ saves' # saves)
  <2>1. CASE saves' = saves
    BY <2>1 DEF Stored
  <2>2. CASE pc[q] # "idle" /\ Recorded(q)
    <3>1. Len(saves') = Len(saves) + 1 /\ saves'[Len(saves) + 1] = q
      BY <1>1, <2>2 DEF Recorded, Histories
    <3>2. saves' # saves
      BY <1>1, <3>1
    <3> QED
      BY <1>1, <3>1, <3>2 DEF Stored
  <2> QED
    BY <2>1, <2>2
<1>3. Stored(q) => pc[q] = "discarding" /\ op[q] = "delete"
  BY DEF IInv, Lifecycle
<1>4. \A id \in Ids : Born(id) => id # q
  BY <1>3, RequestsAssumption DEF Born
<1>5. \A id \in Ids : Born(id) => /\ Born(id)'
                                 /\ OriginKind(id)' = OriginKind(id)
                                 /\ OriginSecrets(id)' = OriginSecrets(id)
  BY <1>2, <1>4 DEF Born, OriginKind, OriginSecrets
<1>6. \A id \in Ids : Born(id)' =>
        Born(id) \/ (id = q /\ op[q] = "create" /\ saves' # saves)
  BY <1>2, <1>3 DEF Born
<1>7. \A n \in 1 .. Len(saves) :
        /\ op'[saves[n]] = op[saves[n]] /\ target'[saves[n]] = target[saves[n]]
        /\ asked'[saves[n]] = asked[saves[n]] /\ begun'[saves[n]] = begun[saves[n]]
  <2> SUFFICES ASSUME NEW n \in 1 .. Len(saves), saves[n] = q
               PROVE  pc[q] # "idle"
    BY <1>1
  <2> QED
    BY <1>3 DEF Stored
<1>8. \A id : \A t \in 0 .. Len(saves) : OptedIn(id, t) => OptedIn(id, t)'
  BY <1>1, <1>7, OptInStays
<1>9. \A id : IsOpen(id) /\ saves' = saves => IsOpen(id)'
  <2> SUFFICES ASSUME NEW id, IsOpen(id), saves' = saves PROVE IsOpen(id)'
    OBVIOUS
  <2>1. Len(saves) \in 0 .. Len(saves) /\ Len(saves') = Len(saves)
    BY <1>1
  <2> QED
    BY <1>8, <2>1 DEF IsOpen
<1>10. Recorded(q) => saves' # saves
  BY <1>1 DEF Recorded, Histories
<1>11. BegunInPast'
  <2> SUFFICES ASSUME NEW p \in Requests PROVE begun'[p] <= Len(saves')
    BY DEF BegunInPast
  <2>1. begun[p] \in Nat /\ begun[p] <= Len(saves) /\ Len(saves') \in Nat
    BY <1>1 DEF IInv, TypeOK, BegunInPast, Histories
  <2> QED
    BY <1>1, <2>1
<1>12. \A p \in Requests : WasOpen(p) /\ (p = q => pc[q] # "idle") => WasOpen(p)'
  <2> SUFFICES ASSUME NEW p \in Requests, WasOpen(p), p = q => pc[q] # "idle"
               PROVE  WasOpen(p)'
    OBVIOUS
  <2>1. begun[p] \in 0 .. Len(saves)
    BY <1>1 DEF IInv, TypeOK, BegunInPast
  <2>2. target'[p] = target[p] /\ begun'[p] = begun[p]
    OBVIOUS
  <2> QED
    BY <1>8, <2>1, <2>2 DEF WasOpen
<1>13. \A id : Unwanted(id) => Unwanted(id)'
  BY DEF IInv, Lifecycle, Unwanted
<1> QED
  BY <1>1, <1>2, <1>4, <1>5, <1>6, <1>9, <1>10, <1>11, <1>12, <1>13

\* Before a request saves, its copy and its wish are stable; when it does, the
\* history has one more entry, its own.
LEMMA OptInGrows ==
  ASSUME IInv, NEW q \in Requests, target[q] \in Ids,
         Recorded(q), UNCHANGED <<op, target, asked, begun>>
  PROVE  /\ \A id \in Ids \ {target[q]} : IsOpen(id) => IsOpen(id)'
         /\ asked[q] = "manage" => IsOpen(target[q])'
         /\ asked[q] = None /\ op[q] = "update" /\ WasOpen(q) => IsOpen(target[q])'
<1>0. PICK last : last = Len(saves) + 1
  OBVIOUS
<1>1. /\ saves \in Histories /\ Len(saves) \in Nat
      /\ saves' \in Histories /\ Len(saves') = last /\ saves'[last] = q
      /\ \A n \in 1 .. Len(saves) : saves[n] \in Requests /\ saves'[n] = saves[n]
      /\ begun[q] \in 0 .. Len(saves) /\ last = Len(saves) + 1
  BY <1>0 DEF IInv, TypeOK, BegunInPast, Histories, Recorded
<1>2. \A id \in Ids, n \in 0 .. Len(saves), i \in 0 .. last :
        /\ Grants(n, id)' <=> Grants(n, id)
        /\ Revokes(n, id)' <=> Revokes(n, id)
        /\ PutsBack(n, i, id)' <=> PutsBack(n, i, id)
  <2>1. \A id \in Ids, n \in 0 .. Len(saves) : n > 0 => n \in 1 .. Len(saves)
    BY <1>1
  <2>2. \A id \in Ids, n \in 0 .. Len(saves) : About(n, id)' <=> About(n, id)
    BY <1>1, <2>1 DEF About
  <2>3. \A id \in Ids, n \in 0 .. Len(saves) : Grants(n, id)' <=> Grants(n, id)
    BY <1>1, <2>1, <2>2 DEF Grants, About
  <2>4. \A id \in Ids, n \in 0 .. Len(saves) : Revokes(n, id)' <=> Revokes(n, id)
    BY <1>1, <2>1, <2>2 DEF Revokes, About
  <2>5. \A id \in Ids, n \in 0 .. Len(saves), i \in 0 .. last :
          PutsBack(n, i, id)' <=> PutsBack(n, i, id)
    BY <1>1, <2>1, <2>2 DEF PutsBack, About
  <2> QED
    BY <2>3, <2>4, <2>5
<1>3. \A id \in Ids : About(last, id)' <=> target[q] = id
  BY <1>1 DEF About
<1>4. ASSUME NEW id \in Ids \ {target[q]}, IsOpen(id)
      PROVE  IsOpen(id)'
  <2>1. PICK j \in 0 .. Len(saves) :
          /\ Grants(j, id)
          /\ \A i \in (j + 1) .. Len(saves) :
               Revokes(i, id) => \E n \in 1 .. Len(saves) : PutsBack(n, i, id)
    BY <1>4 DEF OptedIn, IsOpen, WasOpen
  <2>2. ~Revokes(last, id)'
    BY <1>3 DEF Revokes
  <2>3. ASSUME NEW i \in (j + 1) .. last, Revokes(i, id)'
        PROVE  \E n \in 1 .. last : PutsBack(n, i, id)'
    <3>1. i \in (j + 1) .. Len(saves)
      BY <1>1, <2>2, <2>3
    <3>2. PICK n \in 1 .. Len(saves) : PutsBack(n, i, id)
      BY <1>1, <1>2, <2>1, <2>3, <3>1
    <3> QED
      BY <1>1, <1>2, <3>1, <3>2
  <2>4. j \in 0 .. last /\ Grants(j, id)'
    BY <1>1, <1>2, <2>1
  <2> QED
    BY <1>1, <2>3, <2>4 DEF OptedIn, IsOpen, WasOpen
<1>5. ASSUME asked[q] = "manage"
      PROVE  IsOpen(target[q])'
  <2>1. Grants(last, target[q])'
    BY <1>1, <1>3, <1>5 DEF Grants
  <2>2. last \in 0 .. last /\ (last + 1) .. last = {}
    BY <1>1
  <2> QED
    BY <1>1, <2>1, <2>2 DEF OptedIn, IsOpen, WasOpen
<1>6. ASSUME asked[q] = None, op[q] = "update", WasOpen(q)
      PROVE  IsOpen(target[q])'
  <2> DEFINE id == target[q]
  <2>1. PICK j \in 0 .. begun[q] :
          /\ Grants(j, id)
          /\ \A i \in (j + 1) .. begun[q] :
               Revokes(i, id) => \E n \in 1 .. begun[q] : PutsBack(n, i, id)
    BY <1>6 DEF OptedIn, IsOpen, WasOpen
  <2>2. ~Revokes(last, id)'
    BY <1>1, <1>6, NoneAssumption DEF Revokes, Modes
  <2>3. ASSUME NEW i \in (j + 1) .. last, Revokes(i, id)'
        PROVE  \E n \in 1 .. last : PutsBack(n, i, id)'
    <3>1. i \in (j + 1) .. Len(saves)
      BY <1>1, <2>2, <2>3
    <3>2. CASE i <= begun[q]
      <4>1. Revokes(i, id)
        BY <1>1, <1>2, <2>3, <3>1
      <4>2. PICK n \in 1 .. begun[q] : PutsBack(n, i, id)
        BY <1>1, <2>1, <3>1, <3>2, <4>1
      <4>3. n \in 0 .. Len(saves) /\ n \in 1 .. last /\ i \in 0 .. last
        BY <1>1, <3>1
      <4> QED
        BY <1>2, <4>2, <4>3
    <3>3. CASE i > begun[q]
      <4>1. PutsBack(last, i, id)'
        BY <1>1, <1>3, <1>6, <3>1, <3>3 DEF PutsBack
      <4> QED
        BY <1>1, <4>1
    <3> QED
      BY <1>1, <3>1, <3>2, <3>3
  <2>4. j \in 0 .. last /\ Grants(j, id)'
    BY <1>1, <1>2, <2>1
  <2> QED
    BY <1>1, <2>3, <2>4 DEF OptedIn, IsOpen, WasOpen
<1> QED
  BY <1>4, <1>5, <1>6

\* What a handler removes belongs to no record in the making.
LEMMA RemovedFromNoDraft ==
  ASSUME IInv, NEW q \in Requests, pc[q] \in {"discarding", "clearing"},
         NEW s \in draft[q].secrets, NEW p \in Requests, pc[p] \in Making
  PROVE  s \notin draft[p].secrets
<1> SUFFICES ASSUME s \in draft[p].secrets PROVE FALSE
  OBVIOUS
<1>1. s[1] = p /\ ~Born(p)
  BY RequestsAssumption DEF IInv, SecretsAreNamed, Lifecycle, Making, Born
<1>2. op[q] = "delete" => s[1] = target[q] /\ Born(target[q])
  BY OriginsAreNamed DEF IInv, DeletesHoldRest, TargetsAreBorn, Erasing
<1>3. op[q] # "delete" => s[1] = q
  BY DEF IInv, SecretsAreNamed, Lifecycle
<1> QED
  BY <1>1, <1>2, <1>3 DEF IInv, Lifecycle, Making

-----------------------------------------------------------------------------
(* Steps of the handlers *)

LEMMA BeginCreateKeeps ==
  ASSUME IInv, NEW q \in Requests, NEW kind \in {"connection", "profile"},
         NEW what \in {"create", "test"}, NEW mode \in Modes \cup {None},
         BeginCreate(q, kind, what, mode)
  PROVE  IInv'
<1> DEFINE copy == [kind |-> kind, access |-> AccessMode(mode), secrets |-> {}]
<1>1. /\ pc[q] = "idle"
      /\ pc' = [pc EXCEPT ![q] = "building"]
      /\ op' = [op EXCEPT ![q] = what]
      /\ target' = [target EXCEPT ![q] = q]
      /\ asked' = [asked EXCEPT ![q] = mode]
      /\ draft' = [draft EXCEPT ![q] = copy]
      /\ kind = "profile" => what = "create"
      /\ begun' = [begun EXCEPT ![q] = 0]
      /\ UNCHANGED <<storeVars, answer, acted, strays, saves>>
  BY DEF BeginCreate, Begin, GoTo, IInv, TypeOK
<1> USE <1>1 DEF IInv, TypeOK, storeVars, history
<1>2. copy \in Record /\ copy.kind = kind /\ copy.secrets = {}
      /\ (copy.access = "manage" => mode = "manage")
  BY DEF AccessMode, Record, Modes
<1>3. q \in Ids
  BY RequestsAssumption
<1> HIDE DEF copy
<1>4. /\ \A id \in Ids : Born(id) =>
           /\ Born(id)' /\ id # q
           /\ OriginKind(id)' = OriginKind(id)
           /\ OriginSecrets(id)' = OriginSecrets(id)
      /\ \A id \in Ids : Born(id)' =>
           Born(id) \/ (id = q /\ op[q] = "create" /\ saves' # saves)
      /\ \A id : IsOpen(id) /\ saves' = saves => IsOpen(id)'
      /\ BegunInPast' /\ saves' \in Histories
      /\ \A p \in Requests : WasOpen(p) /\ (p = q => pc[q] # "idle") => WasOpen(p)'
      /\ \A id : Unwanted(id) => Unwanted(id)'
      /\ \A p : Stored(p)' <=> Stored(p) \/ (p = q /\ saves' # saves)
      /\ Recorded(q) => saves' # saves
  BY HistoryStays
<1>5. TypeOK'
  BY <1>2, <1>3 DEF Record, InFlight
<1>6. RestartFindsAll'
  BY <1>2, <1>3 DEF RestartFindsAll
<1>7. Lifecycle'
  BY <1>2, <1>3, <1>4 DEF Lifecycle, InFlight, Making, Record, Modes
<1>8. SecretsAreNamed'
  BY <1>2, <1>3 DEF SecretsAreNamed
<1>9. StoredAsBorn' /\ TargetsAreBorn'
  BY <1>4 DEF StoredAsBorn, Lifecycle, TargetsAreBorn, Erasing, Making
<1>10. UpdatesKeepOrigin' /\ DeletesHoldRest'
  BY <1>4 DEF UpdatesKeepOrigin, TargetsAreBorn, Lifecycle, InFlight, DeletesHoldRest,
         Erasing, Making
<1>11. MakingHasSecrets'
  BY <1>2, <1>3 DEF MakingHasSecrets, Making
<1>12. GoneWasDeleted'
  BY <1>4 DEF GoneWasDeleted
<1>13. ManageIsOptIn'
  BY <1>2, <1>3, <1>4 DEF ManageIsOptIn, Making
<1>14. SecretsAreHeld'
  BY <1>2, <1>3 DEF SecretsAreHeld, Holding
<1>15. RecordKeepsSecrets'
  BY <1>2, <1>3, <1>4 DEF RecordKeepsSecrets, Unwanted
<1>16. ActedWhereOpen'
  BY <1>4 DEF ActedWhereOpen, Lifecycle
<1> QED
  BY <1>4, <1>5, <1>6, <1>7, <1>8, <1>9, <1>10, <1>11, <1>12, <1>13, <1>14, <1>15, <1>16

LEMMA StoreSecretKeeps ==
  ASSUME IInv, NEW q \in Requests, StoreSecret(q)
  PROVE  IInv'
<1>1. /\ pc[q] = "building"
      /\ \E s \in Secrets :
           /\ s[1] = q /\ secrets' = secrets \cup {s}
           /\ draft' = [draft EXCEPT ![q].secrets = @ \cup {s}]
      /\ UNCHANGED <<records, file, op, pc, target, asked, answer, history>>
  BY DEF StoreSecret, PutSecret, IInv, TypeOK
<1> USE <1>1 DEF IInv, TypeOK, storeVars, history
<1>2. \E s \in Secrets :
        /\ draft'[q] \in Record /\ draft'[q].secrets = draft[q].secrets \cup {s}
        /\ draft'[q].kind = draft[q].kind /\ draft'[q].access = draft[q].access
        /\ draft' = [draft EXCEPT ![q] = draft'[q]]
        /\ secrets' = secrets \cup {s} /\ s[1] = q
  BY DEF Lifecycle, InFlight, Record
<1>3. /\ \A id \in Ids : Born(id) =>
           /\ Born(id)' /\ id # q
           /\ OriginKind(id)' = OriginKind(id)
           /\ OriginSecrets(id)' = OriginSecrets(id)
      /\ \A id \in Ids : Born(id)' =>
           Born(id) \/ (id = q /\ op[q] = "create" /\ saves' # saves)
      /\ \A id : IsOpen(id) /\ saves' = saves => IsOpen(id)'
      /\ BegunInPast' /\ saves' \in Histories
      /\ \A p \in Requests : WasOpen(p) /\ (p = q => pc[q] # "idle") => WasOpen(p)'
      /\ \A id : Unwanted(id) => Unwanted(id)'
      /\ \A p : Stored(p)' <=> Stored(p) \/ (p = q /\ saves' # saves)
      /\ Recorded(q) => saves' # saves
  BY HistoryStays
<1>4. TypeOK'
  BY <1>2 DEF Record, InFlight
<1>5. RestartFindsAll' /\ Lifecycle' /\ SecretsAreNamed'
  BY <1>3 DEF RestartFindsAll, Lifecycle, InFlight, Making, Record, Modes, SecretsAreNamed
<1>6. StoredAsBorn' /\ TargetsAreBorn'
  BY <1>3 DEF StoredAsBorn, Lifecycle, TargetsAreBorn, Erasing, Making
<1>7. DeletesHoldRest'
  BY <1>2, <1>3, OriginsAreNamed DEF DeletesHoldRest, Erasing, TargetsAreBorn,
     Lifecycle, InFlight
<1>8. UpdatesKeepOrigin'
  BY <1>3 DEF UpdatesKeepOrigin, TargetsAreBorn, Lifecycle, InFlight
<1>9. MakingHasSecrets'
  BY DEF MakingHasSecrets, Making
<1>10. GoneWasDeleted'
  BY <1>3 DEF GoneWasDeleted
<1>11. ManageIsOptIn'
  BY <1>3 DEF ManageIsOptIn, Making
<1>12. SecretsAreHeld' /\ RecordKeepsSecrets'
  BY <1>3 DEF SecretsAreHeld, Holding, RecordKeepsSecrets, Unwanted
<1>13. ActedWhereOpen'
  BY <1>3 DEF ActedWhereOpen, Lifecycle
<1> QED
  BY <1>3, <1>4, <1>5, <1>6, <1>7, <1>8, <1>9, <1>10, <1>11, <1>12, <1>13

LEMMA BuildFailsKeeps ==
  ASSUME IInv, NEW q \in Requests, BuildFails(q)
  PROVE  IInv'
<1>1. /\ pc[q] = "building"
      /\ pc' = [pc EXCEPT ![q] = "discarding"]
      /\ UNCHANGED <<storeVars, op, target, asked, draft, answer, history>>
  BY DEF BuildFails, GoTo, IInv, TypeOK
<1> USE <1>1 DEF IInv, TypeOK, storeVars, history
<1>2. /\ \A id \in Ids : Born(id) =>
           /\ Born(id)' /\ id # q
           /\ OriginKind(id)' = OriginKind(id)
           /\ OriginSecrets(id)' = OriginSecrets(id)
      /\ \A id \in Ids : Born(id)' =>
           Born(id) \/ (id = q /\ op[q] = "create" /\ saves' # saves)
      /\ \A id : IsOpen(id) /\ saves' = saves => IsOpen(id)'
      /\ BegunInPast' /\ saves' \in Histories
      /\ \A p \in Requests : WasOpen(p) /\ (p = q => pc[q] # "idle") => WasOpen(p)'
      /\ \A id : Unwanted(id) => Unwanted(id)'
      /\ \A p : Stored(p)' <=> Stored(p) \/ (p = q /\ saves' # saves)
      /\ Recorded(q) => saves' # saves
  BY HistoryStays
<1>3. TypeOK'
  BY DEF Record, InFlight
<1>4. RestartFindsAll' /\ Lifecycle' /\ SecretsAreNamed'
  BY <1>2 DEF RestartFindsAll, Lifecycle, InFlight, Making, Record, Modes, SecretsAreNamed
<1>5. StoredAsBorn' /\ TargetsAreBorn'
  BY <1>2 DEF StoredAsBorn, Lifecycle, TargetsAreBorn, Erasing, Making
<1>6. UpdatesKeepOrigin' /\ DeletesHoldRest'
  BY <1>2 DEF UpdatesKeepOrigin, TargetsAreBorn, Lifecycle, InFlight, DeletesHoldRest,
         Erasing, Making
<1>7. MakingHasSecrets'
  BY DEF MakingHasSecrets, Making
<1>8. GoneWasDeleted'
  BY <1>2 DEF GoneWasDeleted
<1>9. ManageIsOptIn'
  BY <1>2 DEF ManageIsOptIn, Making
<1>10. SecretsAreHeld' /\ RecordKeepsSecrets'
  BY <1>2 DEF SecretsAreHeld, Holding, RecordKeepsSecrets, Unwanted
<1>11. ActedWhereOpen'
  BY <1>2 DEF ActedWhereOpen, Lifecycle
<1> QED
  BY <1>2, <1>3, <1>4, <1>5, <1>6, <1>7, <1>8, <1>9, <1>10, <1>11

LEMMA BuildKeeps ==
  ASSUME IInv, NEW q \in Requests, Build(q)
  PROVE  IInv'
<1>1. /\ pc[q] = "building"
      /\ pc' = [pc EXCEPT ![q] = IF draft[q].kind = "profile" THEN "saving" ELSE "testing"]
      /\ UNCHANGED <<storeVars, op, target, asked, draft, answer, history>>
  BY DEF Build, GoTo, IInv, TypeOK
<1> USE <1>1 DEF IInv, TypeOK, storeVars, history
<1>2. /\ \A id \in Ids : Born(id) =>
           /\ Born(id)' /\ id # q
           /\ OriginKind(id)' = OriginKind(id)
           /\ OriginSecrets(id)' = OriginSecrets(id)
      /\ \A id \in Ids : Born(id)' =>
           Born(id) \/ (id = q /\ op[q] = "create" /\ saves' # saves)
      /\ \A id : IsOpen(id) /\ saves' = saves => IsOpen(id)'
      /\ BegunInPast' /\ saves' \in Histories
      /\ \A p \in Requests : WasOpen(p) /\ (p = q => pc[q] # "idle") => WasOpen(p)'
      /\ \A id : Unwanted(id) => Unwanted(id)'
      /\ \A p : Stored(p)' <=> Stored(p) \/ (p = q /\ saves' # saves)
      /\ Recorded(q) => saves' # saves
  BY HistoryStays
<1>3. TypeOK'
  BY DEF Record, InFlight
<1>4. RestartFindsAll' /\ Lifecycle' /\ SecretsAreNamed'
  BY <1>2 DEF RestartFindsAll, Lifecycle, InFlight, Making, Record, Modes, SecretsAreNamed
<1>5. StoredAsBorn' /\ TargetsAreBorn'
  BY <1>2 DEF StoredAsBorn, Lifecycle, TargetsAreBorn, Erasing, Making
<1>6. UpdatesKeepOrigin' /\ DeletesHoldRest'
  BY <1>2 DEF UpdatesKeepOrigin, TargetsAreBorn, Lifecycle, InFlight, DeletesHoldRest,
         Erasing, Making
<1>7. MakingHasSecrets'
  BY DEF MakingHasSecrets, Making
<1>8. GoneWasDeleted'
  BY <1>2 DEF GoneWasDeleted
<1>9. ManageIsOptIn'
  BY <1>2 DEF ManageIsOptIn, Making
<1>10. SecretsAreHeld' /\ RecordKeepsSecrets'
  BY <1>2 DEF SecretsAreHeld, Holding, RecordKeepsSecrets, Unwanted
<1>11. ActedWhereOpen'
  BY <1>2 DEF ActedWhereOpen, Lifecycle
<1> QED
  BY <1>2, <1>3, <1>4, <1>5, <1>6, <1>7, <1>8, <1>9, <1>10, <1>11

LEMMA TestKeeps ==
  ASSUME IInv, NEW q \in Requests, Test(q)
  PROVE  IInv'
<1>1. /\ pc[q] = "testing"
      /\ \/ pc' = [pc EXCEPT ![q] = "discarding"]
         \/ op[q] = "create" /\ pc' = [pc EXCEPT ![q] = "saving"]
      /\ UNCHANGED <<storeVars, op, target, asked, draft, answer, history>>
  BY DEF Test, GoTo, IInv, TypeOK
<1> USE <1>1 DEF IInv, TypeOK, storeVars, history
<1>2. /\ \A id \in Ids : Born(id) =>
           /\ Born(id)' /\ id # q
           /\ OriginKind(id)' = OriginKind(id)
           /\ OriginSecrets(id)' = OriginSecrets(id)
      /\ \A id \in Ids : Born(id)' =>
           Born(id) \/ (id = q /\ op[q] = "create" /\ saves' # saves)
      /\ \A id : IsOpen(id) /\ saves' = saves => IsOpen(id)'
      /\ BegunInPast' /\ saves' \in Histories
      /\ \A p \in Requests : WasOpen(p) /\ (p = q => pc[q] # "idle") => WasOpen(p)'
      /\ \A id : Unwanted(id) => Unwanted(id)'
      /\ \A p : Stored(p)' <=> Stored(p) \/ (p = q /\ saves' # saves)
      /\ Recorded(q) => saves' # saves
  BY HistoryStays
<1>3. TypeOK'
  BY DEF Record, InFlight
<1>4. RestartFindsAll' /\ Lifecycle' /\ SecretsAreNamed'
  BY <1>2 DEF RestartFindsAll, Lifecycle, InFlight, Making, Record, Modes, SecretsAreNamed
<1>5. StoredAsBorn' /\ TargetsAreBorn'
  BY <1>2 DEF StoredAsBorn, Lifecycle, TargetsAreBorn, Erasing, Making
<1>6. UpdatesKeepOrigin' /\ DeletesHoldRest'
  BY <1>2 DEF UpdatesKeepOrigin, TargetsAreBorn, Lifecycle, InFlight, DeletesHoldRest,
         Erasing, Making
<1>7. MakingHasSecrets'
  BY DEF MakingHasSecrets, Making
<1>8. GoneWasDeleted'
  BY <1>2 DEF GoneWasDeleted
<1>9. ManageIsOptIn'
  BY <1>2 DEF ManageIsOptIn, Making
<1>10. SecretsAreHeld' /\ RecordKeepsSecrets'
  BY <1>2 DEF SecretsAreHeld, Holding, RecordKeepsSecrets, Unwanted
<1>11. ActedWhereOpen'
  BY <1>2 DEF ActedWhereOpen, Lifecycle
<1> QED
  BY <1>2, <1>3, <1>4, <1>5, <1>6, <1>7, <1>8, <1>9, <1>10, <1>11

\* The record appears with its draft's secrets, or the draft goes on to be discarded.
LEMMA SaveCreatedKeeps ==
  ASSUME IInv, NEW q \in Requests, SaveCreated(q)
  PROVE  IInv'
<1>1. /\ pc[q] = "saving" /\ op[q] = "create" /\ target[q] = q
      /\ \/ /\ records' = [records EXCEPT ![q] = draft[q]] /\ file' = records'
            /\ pc' = [pc EXCEPT ![q] = "answering"] /\ Recorded(q)
         \/ /\ pc' = [pc EXCEPT ![q] = "discarding"] /\ UNCHANGED <<records, file, saves>>
      /\ UNCHANGED <<secrets, op, target, asked, draft, answer, acted, strays, begun>>
  BY DEF SaveCreated, SaveRecord, Write, AfterFailure, Created, ToAnswer, Logged, Recorded, GoTo,
     RestartFindsAll, Lifecycle, IInv, TypeOK
<1> USE <1>1 DEF IInv, TypeOK, storeVars, history
<1>2. q \in Ids /\ q \notin Saved /\ ~Born(q)
  BY RequestsAssumption DEF Lifecycle, Born
<1>3. records[q] = None /\ draft[q] \in Record /\ draft[q] # None
  BY <1>2, NoneAssumption DEF StoredAsBorn, Lifecycle, InFlight
<1>4. /\ \A id \in Ids : Born(id) =>
           /\ Born(id)' /\ id # q
           /\ OriginKind(id)' = OriginKind(id)
           /\ OriginSecrets(id)' = OriginSecrets(id)
      /\ \A id \in Ids : Born(id)' =>
           Born(id) \/ (id = q /\ op[q] = "create" /\ saves' # saves)
      /\ \A id : IsOpen(id) /\ saves' = saves => IsOpen(id)'
      /\ BegunInPast' /\ saves' \in Histories
      /\ \A p \in Requests : WasOpen(p) /\ (p = q => pc[q] # "idle") => WasOpen(p)'
      /\ \A id : Unwanted(id) => Unwanted(id)'
      /\ \A p : Stored(p)' <=> Stored(p) \/ (p = q /\ saves' # saves)
      /\ Recorded(q) => saves' # saves
  BY HistoryStays
<1>5. \A id \in Ids :
        \/ records'[id] = records[id]
        \/ /\ id = q /\ records'[id] = draft[q] /\ Born(id)'
           /\ OriginKind(id)' = draft[q].kind /\ OriginSecrets(id)' = draft[q].secrets
           /\ pc'[q] = "answering" /\ Recorded(q)
  BY <1>2, <1>4 DEF Born, OriginKind, OriginSecrets, Lifecycle
<1>6. saves' # saves => records'[q] # None
  BY <1>2, <1>3
<1>7. TypeOK'
  BY <1>2, <1>3, <1>4 DEF Record, InFlight
<1>8. RestartFindsAll' /\ Lifecycle' /\ SecretsAreNamed'
  BY <1>4 DEF RestartFindsAll, Lifecycle, InFlight, Making, Record, Modes, SecretsAreNamed
<1>9. StoredAsBorn'
  BY <1>2, <1>3, <1>5, <1>6, <1>4 DEF StoredAsBorn, Lifecycle
<1>10. TargetsAreBorn'
  BY <1>2, <1>3, <1>5, <1>6, <1>4 DEF TargetsAreBorn, Erasing, Lifecycle, Making
<1>11. UpdatesKeepOrigin' /\ DeletesHoldRest'
  BY <1>4 DEF UpdatesKeepOrigin, TargetsAreBorn, Lifecycle, InFlight, DeletesHoldRest,
         Erasing, Making
<1>12. MakingHasSecrets'
  BY DEF MakingHasSecrets, Making
<1>13. GoneWasDeleted'
  BY <1>2, <1>3, <1>5, <1>6, <1>4 DEF GoneWasDeleted
<1>14. ManageIsOptIn'
  <2>1. ASSUME Recorded(q)
        PROVE  \A id \in Ids : records'[id] # None /\ records'[id].access = "manage" =>
                 IsOpen(id)'
    <3>1. /\ \A id \in Ids \ {target[q]} : IsOpen(id) => IsOpen(id)'
          /\ asked[q] = "manage" => IsOpen(target[q])'
      BY <1>2, <2>1, OptInGrows
    <3>2. ASSUME NEW id \in Ids, id # q, records'[id] # None, records'[id].access = "manage"
          PROVE  IsOpen(id)'
      BY <1>5, <3>1, <3>2 DEF ManageIsOptIn
    <3>3. draft[q].access = "manage" => IsOpen(q)'
      BY <3>1 DEF ManageIsOptIn, Making
    <3>4. records'[q] = records[q] \/ records'[q] = draft[q]
      BY <1>2
    <3> QED
      BY <1>3, <3>2, <3>3, <3>4
  <2>2. ASSUME saves' = saves
        PROVE  \A id \in Ids : records'[id] # None /\ records'[id].access = "manage" =>
                 IsOpen(id)'
    BY <1>5, <1>4, <2>2 DEF ManageIsOptIn
  <2> QED
    BY <1>4, <2>1, <2>2 DEF ManageIsOptIn, Making, Lifecycle, InFlight
<1>15. SecretsAreHeld'
  BY <1>2, <1>3, <1>5, <1>6 DEF SecretsAreHeld, Holding
<1>16. RecordKeepsSecrets'
  BY <1>2, <1>5, <1>4 DEF RecordKeepsSecrets, MakingHasSecrets, Making, Unwanted
<1>17. ActedWhereOpen'
  BY <1>4 DEF ActedWhereOpen, Lifecycle
<1> QED
  BY <1>4, <1>7, <1>8, <1>9, <1>10, <1>11, <1>12, <1>13, <1>14, <1>15, <1>16, <1>17

\* The secret belongs to no stored record: the draft was never stored, or its
\* profile is gone.
LEMMA DiscardKeeps ==
  ASSUME IInv, NEW q \in Requests, Discard(q)
  PROVE  IInv'
<1>1. /\ pc[q] = "discarding"
      /\ \E s \in draft[q].secrets :
           /\ draft' = [draft EXCEPT ![q].secrets = @ \ {s}]
           /\ \/ secrets' = secrets \ {s} /\ strays' = strays
              \/ secrets' = secrets /\ strays' = strays \cup {s}
      /\ UNCHANGED <<records, file, op, pc, target, asked, answer, acted, saves, begun>>
  BY DEF Discard, LeftToDiscard, RemoveSecret, DeleteSecret, IInv, TypeOK
<1> USE <1>1 DEF IInv, TypeOK, storeVars, history
<1>2. \E s \in draft[q].secrets :
        /\ s \in Secrets /\ draft'[q] \in Record /\ draft'[q].kind = draft[q].kind
        /\ draft'[q].access = draft[q].access
        /\ draft'[q].secrets = draft[q].secrets \ {s}
        /\ draft' = [draft EXCEPT ![q] = draft'[q]]
        /\ \/ secrets' = secrets \ {s} /\ strays' = strays
           \/ secrets' = secrets /\ strays' = strays \cup {s}
  BY DEF Lifecycle, InFlight, Record
<1>3. \A s \in draft[q].secrets, p \in Requests :
        pc[p] \in Making => s \notin draft[p].secrets
  BY RemovedFromNoDraft
<1>4. /\ \A id \in Ids : Born(id) =>
           /\ Born(id)' /\ id # q
           /\ OriginKind(id)' = OriginKind(id)
           /\ OriginSecrets(id)' = OriginSecrets(id)
      /\ \A id \in Ids : Born(id)' =>
           Born(id) \/ (id = q /\ op[q] = "create" /\ saves' # saves)
      /\ \A id : IsOpen(id) /\ saves' = saves => IsOpen(id)'
      /\ BegunInPast' /\ saves' \in Histories
      /\ \A p \in Requests : WasOpen(p) /\ (p = q => pc[q] # "idle") => WasOpen(p)'
      /\ \A id : Unwanted(id) => Unwanted(id)'
      /\ \A p : Stored(p)' <=> Stored(p) \/ (p = q /\ saves' # saves)
      /\ Recorded(q) => saves' # saves
  BY HistoryStays
<1>5. \A s \in draft[q].secrets, id \in Ids : records[id] # None => s \notin records[id].secrets
  <2> SUFFICES ASSUME NEW s \in draft[q].secrets, NEW id \in Ids, records[id] # None,
                      s \in records[id].secrets
               PROVE  FALSE
    OBVIOUS
  <2>1. s[1] = id /\ Born(id) /\ id # q
    BY OriginsAreNamed, <1>4 DEF StoredAsBorn
  <2>2. op[q] = "delete" => s[1] = target[q] /\ records[target[q]] = None
    BY OriginsAreNamed DEF DeletesHoldRest, TargetsAreBorn, Erasing
  <2>3. op[q] # "delete" => s[1] = q
    BY DEF SecretsAreNamed, Lifecycle
  <2> QED
    BY <2>1, <2>2, <2>3
<1>6. TypeOK'
  BY <1>2, <1>3 DEF Record, InFlight
<1>7. RestartFindsAll' /\ Lifecycle' /\ SecretsAreNamed'
  BY <1>4 DEF RestartFindsAll, Lifecycle, InFlight, Making, Record, Modes, SecretsAreNamed
<1>8. StoredAsBorn' /\ TargetsAreBorn'
  BY <1>4 DEF StoredAsBorn, Lifecycle, TargetsAreBorn, Erasing, Making
<1>9. UpdatesKeepOrigin' /\ DeletesHoldRest'
  BY <1>4 DEF UpdatesKeepOrigin, TargetsAreBorn, Lifecycle, InFlight, DeletesHoldRest,
         Erasing, Making
<1>10. MakingHasSecrets'
  BY <1>2, <1>3 DEF MakingHasSecrets, Making
<1>11. GoneWasDeleted'
  BY <1>4 DEF GoneWasDeleted
<1>12. ManageIsOptIn'
  BY <1>4 DEF ManageIsOptIn, Making
<1>13. RecordKeepsSecrets'
  BY <1>2, <1>4, <1>5 DEF RecordKeepsSecrets, Unwanted
<1>14. SecretsAreHeld'
  BY DEF SecretsAreHeld, Holding
<1>15. ActedWhereOpen'
  BY <1>4 DEF ActedWhereOpen, Lifecycle
<1> QED
  BY <1>4, <1>6, <1>7, <1>8, <1>9, <1>10, <1>11, <1>12, <1>13, <1>14, <1>15

LEMMA DiscardedKeeps ==
  ASSUME IInv, NEW q \in Requests, Discarded(q)
  PROVE  IInv'
<1>1. /\ pc[q] = "discarding" /\ draft[q].secrets = {}
      /\ \E value \in {"ok", "error"} :
           /\ answer' = [answer EXCEPT ![q] = value]
           /\ op[q] = "create" => value = "error"
      /\ pc' = [pc EXCEPT ![q] = "done"]
      /\ UNCHANGED <<storeVars, op, target, asked, draft, history>>
  BY DEF Discarded, LeftToDiscard, Answer, GoTo, IInv, TypeOK
<1> USE <1>1 DEF IInv, TypeOK, storeVars, history
<1>2. /\ \A id \in Ids : Born(id) =>
           /\ Born(id)' /\ id # q
           /\ OriginKind(id)' = OriginKind(id)
           /\ OriginSecrets(id)' = OriginSecrets(id)
      /\ \A id \in Ids : Born(id)' =>
           Born(id) \/ (id = q /\ op[q] = "create" /\ saves' # saves)
      /\ \A id : IsOpen(id) /\ saves' = saves => IsOpen(id)'
      /\ BegunInPast' /\ saves' \in Histories
      /\ \A p \in Requests : WasOpen(p) /\ (p = q => pc[q] # "idle") => WasOpen(p)'
      /\ \A id : Unwanted(id) => Unwanted(id)'
      /\ \A p : Stored(p)' <=> Stored(p) \/ (p = q /\ saves' # saves)
      /\ Recorded(q) => saves' # saves
  BY HistoryStays
<1>3. TypeOK'
  BY DEF Record, InFlight
<1>4. RestartFindsAll' /\ Lifecycle' /\ SecretsAreNamed'
  BY <1>2 DEF RestartFindsAll, Lifecycle, InFlight, Making, Record, Modes, SecretsAreNamed
<1>5. StoredAsBorn' /\ TargetsAreBorn'
  BY <1>2 DEF StoredAsBorn, Lifecycle, TargetsAreBorn, Erasing, Making
<1>6. UpdatesKeepOrigin' /\ DeletesHoldRest'
  BY <1>2 DEF UpdatesKeepOrigin, TargetsAreBorn, Lifecycle, InFlight, DeletesHoldRest,
         Erasing, Making
<1>7. MakingHasSecrets'
  BY DEF MakingHasSecrets, Making
<1>8. GoneWasDeleted'
  BY <1>2 DEF GoneWasDeleted
<1>9. ManageIsOptIn'
  BY <1>2 DEF ManageIsOptIn, Making
<1>10. SecretsAreHeld' /\ RecordKeepsSecrets'
  BY <1>2 DEF SecretsAreHeld, Holding, RecordKeepsSecrets, Unwanted
<1>11. ActedWhereOpen'
  BY <1>2 DEF ActedWhereOpen, Lifecycle
<1> QED
  BY <1>2, <1>3, <1>4, <1>5, <1>6, <1>7, <1>8, <1>9, <1>10, <1>11

\* The copy has the origin of the record it was taken from.
LEMMA BeginUpdateKeeps ==
  ASSUME IInv, NEW q \in Requests, NEW id \in Ids, NEW mode \in Modes \cup {None},
         BeginUpdate(q, id, mode)
  PROVE  IInv'
<1> DEFINE copy == Updated(records[id], mode)
<1>1. /\ pc[q] = "idle" /\ records[id] # None /\ records[id].kind = "connection"
      /\ pc' = [pc EXCEPT ![q] = "updating"]
      /\ op' = [op EXCEPT ![q] = "update"]
      /\ target' = [target EXCEPT ![q] = id]
      /\ asked' = [asked EXCEPT ![q] = mode]
      /\ draft' = [draft EXCEPT ![q] = copy]
      /\ begun' = [begun EXCEPT ![q] = Len(saves)]
      /\ UNCHANGED <<storeVars, answer, acted, strays, saves>>
  BY DEF BeginUpdate, Begin, GoTo, IInv, TypeOK
<1> USE <1>1 DEF IInv, TypeOK, storeVars, history
<1>2. /\ copy \in Record /\ copy.kind = "connection"
      /\ copy.secrets = records[id].secrets
      /\ copy.access = "manage" =>
           mode = "manage" \/ (mode = None /\ records[id].access = "manage")
  <2>1. records[id] \in Record
    OBVIOUS
  <2>2. CASE mode = None
    BY <2>1, <2>2 DEF Updated, Record, Modes
  <2>3. CASE mode \in Modes
    BY <2>1, <2>3, NoneAssumption DEF Updated, Record, Modes
  <2> QED
    BY <2>2, <2>3
<1>3. Born(id) /\ OriginKind(id) = "connection" /\ copy.secrets = OriginSecrets(id)
  BY <1>2 DEF StoredAsBorn
<1> HIDE DEF copy
<1>4. /\ \A other \in Ids : Born(other) =>
           /\ Born(other)' /\ other # q
           /\ OriginKind(other)' = OriginKind(other)
           /\ OriginSecrets(other)' = OriginSecrets(other)
      /\ \A other \in Ids : Born(other)' =>
           Born(other) \/ (other = q /\ op[q] = "create" /\ saves' # saves)
      /\ \A other : IsOpen(other) /\ saves' = saves => IsOpen(other)'
      /\ BegunInPast' /\ saves' \in Histories
      /\ \A p \in Requests : WasOpen(p) /\ (p = q => pc[q] # "idle") => WasOpen(p)'
      /\ \A other : Unwanted(other) => Unwanted(other)'
      /\ \A p : Stored(p)' <=> Stored(p) \/ (p = q /\ saves' # saves)
      /\ Recorded(q) => saves' # saves
  <2>1. Len(saves) \in Nat
    BY DEF Histories
  <2> QED
    BY <2>1, HistoryStays
<1>5. TypeOK'
  BY <1>2, <1>3 DEF Record, InFlight
<1>6. RestartFindsAll'
  BY <1>2, <1>3 DEF RestartFindsAll
<1>7. Lifecycle'
  BY <1>2, <1>3, <1>4 DEF Lifecycle, InFlight, Making, Record, Modes
<1>8. SecretsAreNamed'
  BY <1>2, <1>3 DEF SecretsAreNamed
<1>9. StoredAsBorn' /\ TargetsAreBorn'
  BY <1>4 DEF StoredAsBorn, Lifecycle, TargetsAreBorn, Erasing, Making
<1>10. UpdatesKeepOrigin'
  BY <1>2, <1>3, <1>4 DEF UpdatesKeepOrigin, TargetsAreBorn, Lifecycle, InFlight
<1>11. DeletesHoldRest'
  BY <1>2, <1>3, <1>4 DEF DeletesHoldRest, Erasing, TargetsAreBorn, Lifecycle,
     InFlight, Making
<1>12. MakingHasSecrets'
  BY DEF MakingHasSecrets, Making
<1>13. GoneWasDeleted'
  BY <1>4 DEF GoneWasDeleted
<1>14. ManageIsOptIn' /\ ActedWhereOpen'
  <2>1. IsOpen(id) => WasOpen(q)'
    <3>1. Len(saves') = Len(saves) /\ target'[q] = id /\ begun'[q] = Len(saves)
      OBVIOUS
    <3>2. IsOpen(id) => IsOpen(id)'
      BY <1>4
    <3> QED
      BY <3>1, <3>2 DEF IsOpen, WasOpen
  <2>2. ActedWhereOpen'
    <3>1. q \notin acted
      BY DEF Lifecycle
    <3>2. pc'[q] = "updating"
      OBVIOUS
    <3>3. ASSUME NEW p \in Requests \ {q}, p \in acted' \/ pc'[p] = "acting"
          PROVE  WasOpen(p)'
      BY <1>4, <3>3 DEF ActedWhereOpen
    <3> QED
      BY <3>1, <3>2, <3>3 DEF ActedWhereOpen
  <2>3. ASSUME NEW p \in Requests
        PROVE  /\ pc'[p] \in Making /\ draft'[p].access = "manage" => asked'[p] = "manage"
               /\ pc'[p] = "updating" /\ draft'[p].access = "manage" =>
                    \/ asked'[p] = "manage"
                    \/ asked'[p] = None /\ op'[p] = "update" /\ WasOpen(p)'
    <3>1. CASE p = q
      BY <1>2, <2>1, <3>1 DEF ManageIsOptIn, Making
    <3>2. CASE p # q
      BY <1>4, <3>2 DEF ManageIsOptIn, Making
    <3> QED
      BY <3>1, <3>2
  <2> QED
    BY <1>4, <2>2, <2>3 DEF ManageIsOptIn
<1>15. SecretsAreHeld'
  BY <1>2, <1>3 DEF SecretsAreHeld, Holding
<1>16. RecordKeepsSecrets'
  <2>1. SUFFICES ASSUME NEW other \in Ids, records[other] # None,
                        ~(records[other].secrets \subseteq secrets)
                 PROVE  records[other].kind = "connection" /\ Unwanted(other)'
    BY DEF RecordKeepsSecrets, Unwanted
  <2>2. records[other].kind = "connection" /\ Unwanted(other)
    BY <2>1 DEF RecordKeepsSecrets, Unwanted
  <2> QED
    BY <1>4, <2>2
<1> QED
  BY <1>4, <1>5, <1>6, <1>7, <1>8, <1>9, <1>10, <1>11, <1>12, <1>13, <1>14, <1>15, <1>16

\* The record gets its own secrets back, even if it was deleted meanwhile.
LEMMA SaveUpdateKeeps ==
  ASSUME IInv, NEW q \in Requests, SaveUpdate(q)
  PROVE  IInv'
<1>1. /\ pc[q] = "updating"
      /\ \/ /\ records' = [records EXCEPT ![target[q]] = draft[q]] /\ file' = records'
            /\ pc' = [pc EXCEPT ![q] = "answering"]
            /\ Recorded(q) /\ UNCHANGED answer
         \/ /\ answer' = [answer EXCEPT ![q] = "error"]
            /\ pc' = [pc EXCEPT ![q] = "done"]
            /\ UNCHANGED <<records, file, saves>>
      /\ UNCHANGED <<secrets, op, target, asked, draft, acted, strays, begun>>
  BY DEF SaveUpdate, SaveRecord, Write, AfterFailure, Answer, ToAnswer, Logged, Recorded, GoTo,
     RestartFindsAll, IInv, TypeOK
<1> USE <1>1 DEF IInv, TypeOK, storeVars, history
<1>2. /\ target[q] \in Ids /\ Born(target[q])
      /\ draft[q] \in Record /\ draft[q] # None /\ draft[q].kind = "connection"
      /\ OriginKind(target[q]) = "connection"
      /\ draft[q].secrets = OriginSecrets(target[q])
  BY NoneAssumption DEF TargetsAreBorn, UpdatesKeepOrigin, Lifecycle, InFlight
<1>3. \A id \in Ids :
        \/ records'[id] = records[id]
        \/ id = target[q] /\ records'[id] = draft[q] /\ Recorded(q)
  BY <1>2
<1>4. \A id \in Ids : records[id] # None =>
        /\ records'[id] # None /\ records'[id].kind = records[id].kind
        /\ records'[id].secrets = records[id].secrets
  BY <1>2, <1>3 DEF StoredAsBorn
<1>5. /\ \A id \in Ids : Born(id) =>
           /\ Born(id)' /\ id # q
           /\ OriginKind(id)' = OriginKind(id)
           /\ OriginSecrets(id)' = OriginSecrets(id)
      /\ \A id \in Ids : Born(id)' =>
           Born(id) \/ (id = q /\ op[q] = "create" /\ saves' # saves)
      /\ \A id : IsOpen(id) /\ saves' = saves => IsOpen(id)'
      /\ BegunInPast' /\ saves' \in Histories
      /\ \A p \in Requests : WasOpen(p) /\ (p = q => pc[q] # "idle") => WasOpen(p)'
      /\ \A id : Unwanted(id) => Unwanted(id)'
      /\ \A p : Stored(p)' <=> Stored(p) \/ (p = q /\ saves' # saves)
      /\ Recorded(q) => saves' # saves
  BY HistoryStays
<1>6. draft[q].access = "manage" /\ Recorded(q) =>
        IsOpen(target[q])'
  BY <1>2, OptInGrows DEF ManageIsOptIn
<1>7. TypeOK'
  <2>1. records' \in [Ids -> Record \cup {None}] /\ file' \in [Ids -> Record \cup {None}]
    BY <1>2
  <2>2. pc' \in [Requests -> {"idle", "done"} \cup InFlight]
    BY DEF InFlight
  <2>3. answer' \in [Requests -> {"none", "ok", "error", "lost"}]
    OBVIOUS
  <2> QED
    BY <1>5, <2>1, <2>2, <2>3
<1>8. RestartFindsAll' /\ Lifecycle' /\ SecretsAreNamed'
  BY <1>5 DEF RestartFindsAll, Lifecycle, InFlight, Making, Record, Modes, SecretsAreNamed
<1>9. StoredAsBorn'
  BY <1>2, <1>3, <1>4, <1>5 DEF StoredAsBorn, Lifecycle
<1>10. TargetsAreBorn'
  BY <1>2, <1>3, <1>4, <1>5 DEF TargetsAreBorn, Erasing, Lifecycle, Making
<1>11. UpdatesKeepOrigin' /\ DeletesHoldRest'
  BY <1>5 DEF UpdatesKeepOrigin, TargetsAreBorn, Lifecycle, InFlight, DeletesHoldRest,
         Erasing, Making
<1>12. MakingHasSecrets'
  BY DEF MakingHasSecrets, Making
<1>13. GoneWasDeleted'
  BY <1>2, <1>3, <1>4, <1>5 DEF GoneWasDeleted, Lifecycle
<1>14. ManageIsOptIn'
  <2>1. ASSUME Recorded(q)
        PROVE  \A id \in Ids : records'[id] # None /\ records'[id].access = "manage" =>
                 IsOpen(id)'
    <3>1. \A id \in Ids \ {target[q]} : IsOpen(id) => IsOpen(id)'
      BY <1>2, <2>1, OptInGrows
    <3>2. ASSUME NEW id \in Ids, id # target[q],
                 records'[id] # None, records'[id].access = "manage"
          PROVE  IsOpen(id)'
      BY <1>3, <3>1, <3>2 DEF ManageIsOptIn
    <3>3. draft[q].access = "manage" => IsOpen(target[q])'
      BY <1>6, <2>1
    <3>4. saves' # saves
      BY <1>5, <2>1
    <3>5. records'[target[q]] = draft[q]
      BY <1>2, <3>4
    <3> QED
      BY <3>2, <3>3, <3>5
  <2>2. ASSUME saves' = saves
        PROVE  \A id \in Ids : records'[id] # None /\ records'[id].access = "manage" =>
                 IsOpen(id)'
    BY <1>3, <1>5, <2>2 DEF ManageIsOptIn
  <2> QED
    BY <1>5, <2>1, <2>2 DEF ManageIsOptIn, Making, Lifecycle, InFlight
<1>15. SecretsAreHeld'
  BY <1>2, <1>3, <1>4 DEF SecretsAreHeld, Holding
<1>16. RecordKeepsSecrets'
  BY <1>2, <1>3, <1>4, <1>5 DEF RecordKeepsSecrets, GoneWasDeleted, Unwanted
<1>17. ActedWhereOpen'
  BY <1>5 DEF ActedWhereOpen, Lifecycle
<1> QED
  BY <1>5, <1>7, <1>8, <1>9, <1>10, <1>11, <1>12, <1>13, <1>14, <1>15, <1>16, <1>17

LEMMA BeginDeleteKeeps ==
  ASSUME IInv, NEW q \in Requests, NEW id \in Ids, BeginDelete(q, id)
  PROVE  IInv'
<1>1. /\ pc[q] = "idle" /\ records[id] # None
      /\ \E place \in {"clearing", "dropping"} :
           /\ pc' = [pc EXCEPT ![q] = place]
           /\ place = "clearing" <=> records[id].kind = "connection"
      /\ op' = [op EXCEPT ![q] = "delete"]
      /\ target' = [target EXCEPT ![q] = id]
      /\ asked' = [asked EXCEPT ![q] = None]
      /\ draft' = [draft EXCEPT ![q] = records[id]]
      /\ begun' = [begun EXCEPT ![q] = 0]
      /\ UNCHANGED <<storeVars, answer, acted, strays, saves>>
  BY DEF BeginDelete, Begin, GoTo, FirstDeleted, IInv, TypeOK
<1> USE <1>1 DEF IInv, TypeOK, storeVars, history
<1>2. records[id] \in Record /\ records[id].kind \in {"connection", "profile"}
  BY DEF Record
<1>3. Born(id) /\ OriginKind(id) = records[id].kind /\ OriginSecrets(id) = records[id].secrets
  BY DEF StoredAsBorn
<1>4. /\ \A other \in Ids : Born(other) =>
           /\ Born(other)' /\ other # q
           /\ OriginKind(other)' = OriginKind(other)
           /\ OriginSecrets(other)' = OriginSecrets(other)
      /\ \A other \in Ids : Born(other)' =>
           Born(other) \/ (other = q /\ op[q] = "create" /\ saves' # saves)
      /\ \A other : IsOpen(other) /\ saves' = saves => IsOpen(other)'
      /\ BegunInPast' /\ saves' \in Histories
      /\ \A p \in Requests : WasOpen(p) /\ (p = q => pc[q] # "idle") => WasOpen(p)'
      /\ \A other : Unwanted(other) => Unwanted(other)'
      /\ \A p : Stored(p)' <=> Stored(p) \/ (p = q /\ saves' # saves)
      /\ Recorded(q) => saves' # saves
  BY HistoryStays
<1>5. TypeOK'
  BY DEF Record, InFlight
<1>6. RestartFindsAll' /\ Lifecycle' /\ SecretsAreNamed'
  BY <1>4 DEF RestartFindsAll, Lifecycle, InFlight, Making, Record, Modes, SecretsAreNamed
<1>7. StoredAsBorn' /\ TargetsAreBorn'
  BY <1>4 DEF StoredAsBorn, Lifecycle, TargetsAreBorn, Erasing, Making
<1>8. UpdatesKeepOrigin'
  BY <1>2, <1>3, <1>4 DEF UpdatesKeepOrigin, TargetsAreBorn, Lifecycle, InFlight
<1>9. DeletesHoldRest'
  BY <1>2, <1>3, <1>4 DEF DeletesHoldRest, Erasing, TargetsAreBorn, Lifecycle,
     InFlight, Making
<1>10. MakingHasSecrets'
  BY DEF MakingHasSecrets, Making
<1>11. GoneWasDeleted'
  BY <1>4 DEF GoneWasDeleted
<1>12. ManageIsOptIn'
  BY <1>4 DEF ManageIsOptIn, Making
<1>13. SecretsAreHeld'
  BY <1>2, <1>3 DEF SecretsAreHeld, Holding
<1>14. RecordKeepsSecrets'
  BY <1>2, <1>3, <1>4 DEF RecordKeepsSecrets, Unwanted
<1>15. ActedWhereOpen'
  BY <1>4 DEF ActedWhereOpen, Lifecycle
<1> QED
  BY <1>4, <1>5, <1>6, <1>7, <1>8, <1>9, <1>10, <1>11, <1>12, <1>13, <1>14, <1>15

LEMMA BeginActionKeeps ==
  ASSUME IInv, NEW q \in Requests, NEW id \in Ids, BeginAction(q, id)
  PROVE  IInv'
<1>1. /\ pc[q] = "idle" /\ records[id] # None /\ records[id].access = "manage"
      /\ pc' = [pc EXCEPT ![q] = "acting"]
      /\ op' = [op EXCEPT ![q] = "act"]
      /\ target' = [target EXCEPT ![q] = id]
      /\ asked' = [asked EXCEPT ![q] = None]
      /\ draft' = [draft EXCEPT ![q] = records[id]]
      /\ begun' = [begun EXCEPT ![q] = Len(saves)]
      /\ UNCHANGED <<storeVars, answer, acted, strays, saves>>
  BY DEF BeginAction, Begin, GoTo, MayManage, IInv, TypeOK
<1> USE <1>1 DEF IInv, TypeOK, storeVars, history
<1>2. Born(id) /\ IsOpen(id)
  BY DEF StoredAsBorn, ManageIsOptIn
<1>3. /\ \A other \in Ids : Born(other) =>
           /\ Born(other)' /\ other # q
           /\ OriginKind(other)' = OriginKind(other)
           /\ OriginSecrets(other)' = OriginSecrets(other)
      /\ \A other \in Ids : Born(other)' =>
           Born(other) \/ (other = q /\ op[q] = "create" /\ saves' # saves)
      /\ \A other : IsOpen(other) /\ saves' = saves => IsOpen(other)'
      /\ BegunInPast' /\ saves' \in Histories
      /\ \A p \in Requests : WasOpen(p) /\ (p = q => pc[q] # "idle") => WasOpen(p)'
      /\ \A other : Unwanted(other) => Unwanted(other)'
      /\ \A p : Stored(p)' <=> Stored(p) \/ (p = q /\ saves' # saves)
      /\ Recorded(q) => saves' # saves
  <2>1. Len(saves) \in Nat
    BY DEF Histories
  <2> QED
    BY <2>1, HistoryStays
<1>4. TypeOK'
  BY DEF Record, InFlight
<1>5. RestartFindsAll' /\ Lifecycle' /\ SecretsAreNamed'
  BY <1>3 DEF RestartFindsAll, Lifecycle, InFlight, Making, Record, Modes, SecretsAreNamed
<1>6. StoredAsBorn' /\ TargetsAreBorn'
  BY <1>3 DEF StoredAsBorn, Lifecycle, TargetsAreBorn, Erasing, Making
<1>7. UpdatesKeepOrigin' /\ DeletesHoldRest'
  BY <1>3 DEF UpdatesKeepOrigin, TargetsAreBorn, Lifecycle, InFlight, DeletesHoldRest,
         Erasing, Making
<1>8. MakingHasSecrets'
  BY DEF MakingHasSecrets, Making
<1>9. GoneWasDeleted'
  BY <1>3 DEF GoneWasDeleted
<1>10. ManageIsOptIn' /\ ActedWhereOpen'
  <2>1. IsOpen(id) => WasOpen(q)'
    <3>1. Len(saves') = Len(saves) /\ target'[q] = id /\ begun'[q] = Len(saves)
      OBVIOUS
    <3>2. IsOpen(id) => IsOpen(id)'
      BY <1>3
    <3> QED
      BY <3>1, <3>2 DEF IsOpen, WasOpen
  <2> QED
    BY <2>1, <1>3 DEF ManageIsOptIn, Making, ActedWhereOpen, Lifecycle
<1>11. SecretsAreHeld'
  BY <1>2 DEF SecretsAreHeld, Holding
<1>12. RecordKeepsSecrets'
  BY <1>2, <1>3 DEF RecordKeepsSecrets, Unwanted
<1> QED
  BY <1>3, <1>4, <1>5, <1>6, <1>7, <1>8, <1>9, <1>10, <1>11, <1>12

\* The secret belongs to a connection somebody deletes.
LEMMA ClearSecretKeeps ==
  ASSUME IInv, NEW q \in Requests, ClearSecret(q)
  PROVE  IInv'
<1>1. /\ pc[q] = "clearing"
      /\ \E s \in draft[q].secrets :
           /\ draft' = [draft EXCEPT ![q].secrets = @ \ {s}]
           /\ \/ secrets' = secrets \ {s} /\ strays' = strays
              \/ secrets' = secrets /\ strays' = strays \cup {s}
      /\ UNCHANGED <<records, file, op, pc, target, asked, answer, acted, saves, begun>>
  BY DEF ClearSecret, RemoveSecret, DeleteSecret, IInv, TypeOK
<1> USE <1>1 DEF IInv, TypeOK, storeVars, history
<1>2. \E s \in draft[q].secrets :
        /\ s \in Secrets /\ draft'[q] \in Record /\ draft'[q].kind = draft[q].kind
        /\ draft'[q].access = draft[q].access
        /\ draft'[q].secrets = draft[q].secrets \ {s}
        /\ draft' = [draft EXCEPT ![q] = draft'[q]]
        /\ \/ secrets' = secrets \ {s} /\ strays' = strays
           \/ secrets' = secrets /\ strays' = strays \cup {s}
  BY DEF Lifecycle, InFlight, Record
<1>3. \A s \in draft[q].secrets, p \in Requests :
        pc[p] \in Making => s \notin draft[p].secrets
  BY RemovedFromNoDraft
<1>4. /\ \A id \in Ids : Born(id) =>
           /\ Born(id)' /\ id # q
           /\ OriginKind(id)' = OriginKind(id)
           /\ OriginSecrets(id)' = OriginSecrets(id)
      /\ \A id \in Ids : Born(id)' =>
           Born(id) \/ (id = q /\ op[q] = "create" /\ saves' # saves)
      /\ \A id : IsOpen(id) /\ saves' = saves => IsOpen(id)'
      /\ BegunInPast' /\ saves' \in Histories
      /\ \A p \in Requests : WasOpen(p) /\ (p = q => pc[q] # "idle") => WasOpen(p)'
      /\ \A id : Unwanted(id) => Unwanted(id)'
      /\ \A p : Stored(p)' <=> Stored(p) \/ (p = q /\ saves' # saves)
      /\ Recorded(q) => saves' # saves
  BY HistoryStays
<1>5. \A s \in draft[q].secrets, id \in Ids :
        records[id] # None /\ s \in records[id].secrets =>
          records[id].kind = "connection" /\ Unwanted(id)
  <2> SUFFICES ASSUME NEW s \in draft[q].secrets, NEW id \in Ids, records[id] # None,
                      s \in records[id].secrets
               PROVE  records[id].kind = "connection" /\ Unwanted(id)
    OBVIOUS
  <2>1. s[1] = id /\ records[id].kind = OriginKind(id)
    BY OriginsAreNamed DEF StoredAsBorn
  <2>2. s[1] = target[q] /\ OriginKind(target[q]) = "connection"
    BY OriginsAreNamed DEF DeletesHoldRest, TargetsAreBorn
  <2> QED
    BY <2>1, <2>2 DEF Unwanted, Lifecycle
<1>6. TypeOK'
  BY <1>2, <1>3 DEF Record, InFlight
<1>7. RestartFindsAll' /\ Lifecycle' /\ SecretsAreNamed'
  BY <1>4 DEF RestartFindsAll, Lifecycle, InFlight, Making, Record, Modes, SecretsAreNamed
<1>8. StoredAsBorn' /\ TargetsAreBorn'
  BY <1>4 DEF StoredAsBorn, Lifecycle, TargetsAreBorn, Erasing, Making
<1>9. UpdatesKeepOrigin' /\ DeletesHoldRest'
  BY <1>4 DEF UpdatesKeepOrigin, TargetsAreBorn, Lifecycle, InFlight, DeletesHoldRest,
         Erasing, Making
<1>10. MakingHasSecrets'
  BY <1>2, <1>3 DEF MakingHasSecrets, Making
<1>11. GoneWasDeleted'
  BY <1>4 DEF GoneWasDeleted
<1>12. ManageIsOptIn'
  BY <1>4 DEF ManageIsOptIn, Making
<1>13. RecordKeepsSecrets'
  BY <1>2, <1>4, <1>5 DEF RecordKeepsSecrets, Unwanted
<1>14. SecretsAreHeld'
  BY DEF SecretsAreHeld, Holding
<1>15. ActedWhereOpen'
  BY <1>4 DEF ActedWhereOpen, Lifecycle
<1> QED
  BY <1>4, <1>6, <1>7, <1>8, <1>9, <1>10, <1>11, <1>12, <1>13, <1>14, <1>15

LEMMA ClearedKeeps ==
  ASSUME IInv, NEW q \in Requests, Cleared(q)
  PROVE  IInv'
<1>1. /\ pc[q] = "clearing" /\ draft[q].secrets = {}
      /\ pc' = [pc EXCEPT ![q] = "dropping"]
      /\ UNCHANGED <<storeVars, op, target, asked, draft, answer, history>>
  BY DEF Cleared, GoTo, IInv, TypeOK
<1> USE <1>1 DEF IInv, TypeOK, storeVars, history
<1>2. /\ \A id \in Ids : Born(id) =>
           /\ Born(id)' /\ id # q
           /\ OriginKind(id)' = OriginKind(id)
           /\ OriginSecrets(id)' = OriginSecrets(id)
      /\ \A id \in Ids : Born(id)' =>
           Born(id) \/ (id = q /\ op[q] = "create" /\ saves' # saves)
      /\ \A id : IsOpen(id) /\ saves' = saves => IsOpen(id)'
      /\ BegunInPast' /\ saves' \in Histories
      /\ \A p \in Requests : WasOpen(p) /\ (p = q => pc[q] # "idle") => WasOpen(p)'
      /\ \A id : Unwanted(id) => Unwanted(id)'
      /\ \A p : Stored(p)' <=> Stored(p) \/ (p = q /\ saves' # saves)
      /\ Recorded(q) => saves' # saves
  BY HistoryStays
<1>3. TypeOK'
  BY DEF Record, InFlight
<1>4. RestartFindsAll' /\ Lifecycle' /\ SecretsAreNamed'
  BY <1>2 DEF RestartFindsAll, Lifecycle, InFlight, Making, Record, Modes, SecretsAreNamed
<1>5. StoredAsBorn' /\ TargetsAreBorn'
  BY <1>2 DEF StoredAsBorn, Lifecycle, TargetsAreBorn, Erasing, Making
<1>6. UpdatesKeepOrigin' /\ DeletesHoldRest'
  BY <1>2 DEF UpdatesKeepOrigin, TargetsAreBorn, Lifecycle, InFlight, DeletesHoldRest,
         Erasing, Making
<1>7. MakingHasSecrets'
  BY DEF MakingHasSecrets, Making
<1>8. GoneWasDeleted'
  BY <1>2 DEF GoneWasDeleted
<1>9. ManageIsOptIn'
  BY <1>2 DEF ManageIsOptIn, Making
<1>10. SecretsAreHeld' /\ RecordKeepsSecrets'
  BY <1>2 DEF SecretsAreHeld, Holding, RecordKeepsSecrets, Unwanted
<1>11. ActedWhereOpen'
  BY <1>2 DEF ActedWhereOpen, Lifecycle
<1> QED
  BY <1>2, <1>3, <1>4, <1>5, <1>6, <1>7, <1>8, <1>9, <1>10, <1>11

\* What a connection leaves behind was cleared; a profile's secret is still held.
LEMMA DropRecordKeeps ==
  ASSUME IInv, NEW q \in Requests, DropRecord(q)
  PROVE  IInv'
<1>1. /\ pc[q] = "dropping"
      /\ \/ /\ pc' = [pc EXCEPT ![q] = "done"]
            /\ answer' = [answer EXCEPT ![q] = "error"]
            /\ UNCHANGED <<records, file, saves>>
         \/ /\ records' = [records EXCEPT ![target[q]] = None] /\ file' = records'
            /\ Recorded(q) /\ UNCHANGED answer
            /\ \/ /\ draft[q].kind = "profile"
                  /\ pc' = [pc EXCEPT ![q] = "discarding"]
               \/ /\ draft[q].kind = "connection"
                  /\ pc' = [pc EXCEPT ![q] = "answering"]
      /\ UNCHANGED <<secrets, op, target, asked, draft, acted, strays, begun>>
  BY DEF DropRecord, DeleteRecord, Write, AfterFailure, Answer, ToAnswer, Logged, Recorded, GoTo,
     RestartFindsAll, Lifecycle, InFlight, Record, IInv, TypeOK
<1> USE <1>1 DEF IInv, TypeOK, storeVars, history
<1>2. target[q] \in Ids /\ Unwanted(target[q])
  BY DEF Lifecycle, InFlight, Unwanted
<1>3. records[target[q]] # None =>
        /\ draft[q].kind = "connection" => records[target[q]].secrets \cap secrets \subseteq strays
        /\ draft[q].kind = "profile" => draft[q].secrets = records[target[q]].secrets
  BY <1>2 DEF DeletesHoldRest, StoredAsBorn
<1>4. /\ \A id \in Ids : Born(id) =>
           /\ Born(id)' /\ id # q
           /\ OriginKind(id)' = OriginKind(id)
           /\ OriginSecrets(id)' = OriginSecrets(id)
      /\ \A id \in Ids : Born(id)' =>
           Born(id) \/ (id = q /\ op[q] = "create" /\ saves' # saves)
      /\ \A id : IsOpen(id) /\ saves' = saves => IsOpen(id)'
      /\ BegunInPast' /\ saves' \in Histories
      /\ \A p \in Requests : WasOpen(p) /\ (p = q => pc[q] # "idle") => WasOpen(p)'
      /\ \A id : Unwanted(id) => Unwanted(id)'
      /\ \A p : Stored(p)' <=> Stored(p) \/ (p = q /\ saves' # saves)
      /\ Recorded(q) => saves' # saves
  BY HistoryStays
<1>5. TypeOK'
  BY <1>2, <1>4 DEF Record, InFlight
<1>6. RestartFindsAll' /\ Lifecycle' /\ SecretsAreNamed'
  BY <1>4 DEF RestartFindsAll, Lifecycle, InFlight, Making, Record, Modes, SecretsAreNamed
<1>7. StoredAsBorn' /\ TargetsAreBorn'
  BY <1>4 DEF StoredAsBorn, Lifecycle, TargetsAreBorn, Erasing, Making
<1>8. UpdatesKeepOrigin' /\ DeletesHoldRest'
  BY <1>4 DEF UpdatesKeepOrigin, TargetsAreBorn, Lifecycle, InFlight, DeletesHoldRest,
         Erasing, Making
<1>9. MakingHasSecrets'
  BY DEF MakingHasSecrets, Making
<1>10. GoneWasDeleted'
  BY <1>2, <1>3, <1>4 DEF GoneWasDeleted, Lifecycle
<1>11. ManageIsOptIn'
  <2>1. ASSUME Recorded(q), records' = [records EXCEPT ![target[q]] = None]
        PROVE  \A id \in Ids : records'[id] # None /\ records'[id].access = "manage" =>
                 IsOpen(id)'
    BY <1>2, <2>1, OptInGrows DEF ManageIsOptIn
  <2>2. ASSUME saves' = saves, records' = records
        PROVE  \A id \in Ids : records'[id] # None /\ records'[id].access = "manage" =>
                 IsOpen(id)'
    BY <1>4, <2>2 DEF ManageIsOptIn
  <2> QED
    BY <1>4, <2>1, <2>2 DEF ManageIsOptIn, Making, Lifecycle, InFlight
<1>12. SecretsAreHeld'
  BY <1>2, <1>3 DEF SecretsAreHeld, Holding
<1>13. RecordKeepsSecrets'
  BY <1>2, <1>3, <1>4 DEF RecordKeepsSecrets, Unwanted
<1>14. ActedWhereOpen'
  BY <1>4 DEF ActedWhereOpen, Lifecycle
<1> QED
  BY <1>4, <1>5, <1>6, <1>7, <1>8, <1>9, <1>10, <1>11, <1>12, <1>13, <1>14

\* The record allowed it when the handler began, so somebody had opted in.
LEMMA ActKeeps ==
  ASSUME IInv, NEW q \in Requests, Act(q)
  PROVE  IInv'
<1>1. /\ pc[q] = "acting"
      /\ \/ /\ pc' = [pc EXCEPT ![q] = "answering"] /\ answer' = answer
            /\ acted' = acted \cup {q}
         \/ /\ pc' = [pc EXCEPT ![q] = "done"]
            /\ answer' = [answer EXCEPT ![q] = "error"] /\ acted' = acted
      /\ UNCHANGED <<storeVars, op, target, asked, draft, strays, saves, begun>>
  BY DEF Act, Answer, ToAnswer, GoTo, IInv, TypeOK
<1> USE <1>1 DEF IInv, TypeOK, storeVars, history
<1>2. WasOpen(q) /\ op[q] = "act"
  BY DEF ActedWhereOpen, Lifecycle
<1>3. /\ \A id \in Ids : Born(id) =>
           /\ Born(id)' /\ id # q
           /\ OriginKind(id)' = OriginKind(id)
           /\ OriginSecrets(id)' = OriginSecrets(id)
      /\ \A id \in Ids : Born(id)' =>
           Born(id) \/ (id = q /\ op[q] = "create" /\ saves' # saves)
      /\ \A id : IsOpen(id) /\ saves' = saves => IsOpen(id)'
      /\ BegunInPast' /\ saves' \in Histories
      /\ \A p \in Requests : WasOpen(p) /\ (p = q => pc[q] # "idle") => WasOpen(p)'
      /\ \A id : Unwanted(id) => Unwanted(id)'
      /\ \A p : Stored(p)' <=> Stored(p) \/ (p = q /\ saves' # saves)
      /\ Recorded(q) => saves' # saves
  BY HistoryStays
<1>4. TypeOK'
  BY DEF Record, InFlight
<1>5. RestartFindsAll' /\ Lifecycle' /\ SecretsAreNamed'
  BY <1>3 DEF RestartFindsAll, Lifecycle, InFlight, Making, Record, Modes, SecretsAreNamed
<1>6. StoredAsBorn' /\ TargetsAreBorn'
  BY <1>3 DEF StoredAsBorn, Lifecycle, TargetsAreBorn, Erasing, Making
<1>7. UpdatesKeepOrigin' /\ DeletesHoldRest'
  BY <1>3 DEF UpdatesKeepOrigin, TargetsAreBorn, Lifecycle, InFlight, DeletesHoldRest,
         Erasing, Making
<1>8. MakingHasSecrets'
  BY DEF MakingHasSecrets, Making
<1>9. GoneWasDeleted'
  BY <1>3 DEF GoneWasDeleted
<1>10. ManageIsOptIn'
  BY <1>3 DEF ManageIsOptIn, Making
<1>11. SecretsAreHeld' /\ RecordKeepsSecrets'
  BY <1>3 DEF SecretsAreHeld, Holding, RecordKeepsSecrets, Unwanted
<1>12. ActedWhereOpen'
  BY <1>2, <1>3 DEF ActedWhereOpen, Lifecycle
<1> QED
  BY <1>3, <1>4, <1>5, <1>6, <1>7, <1>8, <1>9, <1>10, <1>11, <1>12

LEMMA RespondKeeps ==
  ASSUME IInv, NEW q \in Requests, Respond(q)
  PROVE  IInv'
<1>1. /\ pc[q] = "answering"
      /\ pc' = [pc EXCEPT ![q] = "done"]
      /\ answer' = [answer EXCEPT ![q] = "ok"]
      /\ UNCHANGED <<storeVars, op, target, asked, draft, history>>
  BY DEF Respond, Answer, GoTo, IInv, TypeOK
<1> USE <1>1 DEF IInv, TypeOK, storeVars, history
<1>2. /\ \A id : /\ Born(id)' <=> Born(id)
                 /\ OriginKind(id)' = OriginKind(id)
                 /\ OriginSecrets(id)' = OriginSecrets(id)
                 /\ Unwanted(id)' <=> Unwanted(id)
      /\ \A id : IsOpen(id)' <=> IsOpen(id)
      /\ \A p : WasOpen(p)' <=> WasOpen(p)
      /\ \A p : Stored(p)' <=> Stored(p)
      /\ BegunInPast'
  BY DEF Born, Stored, OriginKind, OriginSecrets, Unwanted, IsOpen, WasOpen, OptedIn, Grants,
     Revokes, PutsBack, About, BegunInPast
<1>3. TypeOK'
  BY DEF Record, InFlight
<1>4. RestartFindsAll' /\ Lifecycle' /\ SecretsAreNamed'
  BY <1>2 DEF RestartFindsAll, Lifecycle, InFlight, Making, Record, Modes, SecretsAreNamed
<1>5. StoredAsBorn' /\ TargetsAreBorn' /\ UpdatesKeepOrigin' /\ DeletesHoldRest'
  BY <1>2 DEF StoredAsBorn, TargetsAreBorn, UpdatesKeepOrigin, DeletesHoldRest, Erasing
<1>6. MakingHasSecrets' /\ GoneWasDeleted' /\ ManageIsOptIn'
  BY <1>2 DEF MakingHasSecrets, GoneWasDeleted, ManageIsOptIn, Making
<1>7. SecretsAreHeld' /\ RecordKeepsSecrets' /\ ActedWhereOpen'
  BY <1>2 DEF SecretsAreHeld, Holding, RecordKeepsSecrets, ActedWhereOpen
<1> QED
  BY <1>2, <1>3, <1>4, <1>5, <1>6, <1>7

-----------------------------------------------------------------------------
\* A crash leaves the secrets that handlers held, and no handler that could
\* take away anybody else's.
LEMMA RestartKeeps ==
  ASSUME IInv, Restart
  PROVE  IInv'
<1>1. /\ records' = records /\ file' = file /\ secrets' = secrets
      /\ pc' = [q \in Requests |-> IF pc[q] \in InFlight THEN "done" ELSE pc[q]]
      /\ answer' = [q \in Requests |-> IF pc[q] \in InFlight THEN "lost" ELSE answer[q]]
      /\ strays' = strays \cup UNION {draft[q].secrets : q \in Holding}
      /\ UNCHANGED <<op, target, asked, draft, acted, saves, begun>>
  BY DEF Restart, Reopen, IInv, RestartFindsAll
<1>2. \A q \in Requests : pc'[q] \in {"idle", "done"} /\ (pc'[q] = "idle" <=> pc[q] = "idle")
  BY <1>1 DEF IInv, TypeOK, InFlight
<1>3. /\ \A id : IsOpen(id)' <=> IsOpen(id)
      /\ \A p : WasOpen(p)' <=> WasOpen(p)
      /\ \A p : Stored(p)' <=> Stored(p)
      /\ BegunInPast'
  BY <1>1 DEF Stored, IsOpen, WasOpen, OptedIn, Grants, Revokes, PutsBack, About, IInv, BegunInPast
<1>4. \A id \in Ids : /\ Born(id)' <=> Born(id)
                      /\ OriginKind(id)' = OriginKind(id)
                      /\ OriginSecrets(id)' = OriginSecrets(id)
                      /\ Unwanted(id)' <=> Unwanted(id)
  BY <1>1, <1>3 DEF Born, OriginKind, OriginSecrets, Unwanted
<1>5. \A q \in Holding : draft[q].secrets \subseteq Secrets
  BY DEF Holding, IInv, TypeOK, Lifecycle, InFlight, Record
<1> USE <1>1 DEF IInv
<1>6. TypeOK'
  BY <1>5 DEF TypeOK, InFlight
<1>7. RestartFindsAll' /\ SecretsAreNamed'
  BY DEF RestartFindsAll, SecretsAreNamed
<1>8. Lifecycle'
  BY <1>2, <1>3 DEF TypeOK, Lifecycle, InFlight, Making
<1>9. StoredAsBorn' /\ GoneWasDeleted'
  BY <1>4 DEF StoredAsBorn, GoneWasDeleted
<1>10. TargetsAreBorn' /\ UpdatesKeepOrigin' /\ DeletesHoldRest' /\ MakingHasSecrets'
  BY <1>2 DEF TargetsAreBorn, UpdatesKeepOrigin, DeletesHoldRest, MakingHasSecrets,
     Erasing,
              Making
<1>11. ManageIsOptIn'
  BY <1>2, <1>3 DEF ManageIsOptIn, Making
<1>12. SecretsAreHeld'
  BY DEF SecretsAreHeld
<1>13. RecordKeepsSecrets'
  BY DEF RecordKeepsSecrets
<1>14. ActedWhereOpen'
  BY <1>2, <1>3 DEF ActedWhereOpen, TypeOK
<1> QED
  BY <1>3, <1>6, <1>7, <1>8, <1>9, <1>10, <1>11, <1>12, <1>13, <1>14

LEMMA StutterKeeps ==
  ASSUME IInv, UNCHANGED vars
  PROVE  IInv'
<1> USE DEF vars, storeVars, requestVars, history, IInv
<1>1. /\ \A id : /\ Born(id)' <=> Born(id)
                 /\ OriginKind(id)' = OriginKind(id)
                 /\ OriginSecrets(id)' = OriginSecrets(id)
                 /\ Unwanted(id)' <=> Unwanted(id)
      /\ \A id : IsOpen(id)' <=> IsOpen(id)
      /\ \A p : WasOpen(p)' <=> WasOpen(p)
      /\ \A p : Stored(p)' <=> Stored(p)
      /\ BegunInPast'
  BY DEF Born, Stored, OriginKind, OriginSecrets, Unwanted, IsOpen, WasOpen, OptedIn, Grants,
     Revokes, PutsBack, About, BegunInPast
<1>2. TypeOK' /\ RestartFindsAll' /\ Lifecycle' /\ SecretsAreNamed'
  BY <1>1 DEF TypeOK, RestartFindsAll, Lifecycle, SecretsAreNamed
<1>3. StoredAsBorn' /\ TargetsAreBorn' /\ UpdatesKeepOrigin' /\ DeletesHoldRest'
  BY <1>1 DEF StoredAsBorn, TargetsAreBorn, UpdatesKeepOrigin, DeletesHoldRest, Erasing
<1>4. MakingHasSecrets' /\ GoneWasDeleted' /\ ManageIsOptIn'
  BY <1>1 DEF MakingHasSecrets, GoneWasDeleted, ManageIsOptIn
<1>5. SecretsAreHeld' /\ RecordKeepsSecrets' /\ ActedWhereOpen'
  BY <1>1 DEF SecretsAreHeld, Holding, RecordKeepsSecrets, ActedWhereOpen
<1> QED
  BY <1>1, <1>2, <1>3, <1>4, <1>5

LEMMA NextIInv == IInv /\ [Next]_vars => IInv'
<1> SUFFICES ASSUME IInv, [Next]_vars PROVE IInv'
  OBVIOUS
<1>1. ASSUME NEW q \in Requests, Handle(q) PROVE IInv'
  <2>1. ASSUME NEW mode \in Modes \cup {None}, NEW kind \in {"connection", "profile"},
               NEW what \in {"create", "test"}, BeginCreate(q, kind, what, mode)
        PROVE  IInv'
    BY <2>1, BeginCreateKeeps
  <2>2. CASE StoreSecret(q) \/ BuildFails(q) \/ Build(q) \/ Test(q) \/ SaveCreated(q)
    BY <2>2, StoreSecretKeeps, BuildFailsKeeps, BuildKeeps, TestKeeps, SaveCreatedKeeps
  <2>3. CASE Discard(q) \/ Discarded(q)
    BY <2>3, DiscardKeeps, DiscardedKeeps
  <2>4. ASSUME NEW id \in Ids, NEW mode \in Modes \cup {None}, BeginUpdate(q, id, mode)
        PROVE  IInv'
    BY <2>4, BeginUpdateKeeps
  <2>5. ASSUME NEW id \in Ids, BeginDelete(q, id) \/ BeginAction(q, id) PROVE IInv'
    BY <2>5, BeginDeleteKeeps, BeginActionKeeps
  <2>6. CASE SaveUpdate(q) \/ ClearSecret(q) \/ Cleared(q) \/ DropRecord(q)
    BY <2>6, SaveUpdateKeeps, ClearSecretKeeps, ClearedKeeps, DropRecordKeeps
  <2>7. CASE Act(q) \/ Respond(q)
    BY <2>7, ActKeeps, RespondKeeps
  <2> QED
    BY <1>1, <2>1, <2>2, <2>3, <2>4, <2>5, <2>6, <2>7 DEF Handle
<1>2. CASE Restart
  BY <1>2, RestartKeeps
<1>3. CASE UNCHANGED vars
  BY <1>3, StutterKeeps
<1> QED
  BY <1>1, <1>2, <1>3 DEF Next

-----------------------------------------------------------------------------
LEMMA AlwaysIInv == Spec => []IInv
BY InitIInv, NextIInv, PTL DEF Spec

\* The registry's state keeps its types, whatever requests overlap or crash.
THEOREM TypeCorrect == Spec => []TypeOK
<1>1. IInv => TypeOK
  BY DEF IInv
<1> QED
  BY <1>1, AlwaysIInv, PTL

\* Memory and files always agree, also after saves that failed
\* (store.go:75-85, 95-98).
THEOREM NothingIsForgotten == Spec => []RestartFindsAll
<1>1. IInv => RestartFindsAll
  BY DEF IInv
<1> QED
  BY <1>1, AlwaysIInv, PTL

\* Every secret belongs to a record or to a request that will remove it, except
\* those a crash or the file system left (connections.go:143-150, 242).
THEOREM SecretsAreAccounted == Spec => []NoOrphanSecret
<1>1. IInv => NoOrphanSecret
  <2> SUFFICES ASSUME IInv, NEW s \in secrets
               PROVE  s \in strays \cup Owned \cup UNION {draft[q].secrets : q \in Holding}
    BY DEF NoOrphanSecret
  <2> QED
    BY DEF IInv, SecretsAreHeld, Owned
<1> QED
  BY <1>1, AlwaysIInv, PTL

\* No stored record loses a secret before somebody deletes it
\* (connections.go:170, 242; ssh_profiles.go:70-74).
THEOREM SecretsAreKept == Spec => []RecordKeepsSecrets
<1>1. IInv => RecordKeepsSecrets
  BY DEF IInv
<1> QED
  BY <1>1, AlwaysIInv, PTL

\* However many requests and restarts interleave with saves and answers, a runtime
\* is changed only through a connection that somebody opened for it, and that had not
\* been closed for good when the action took its copy (docker_actions.go:114-126).
THEOREM ActionsAreOptedIn == Spec => []ActionNeedsOptIn
<1>1. IInv => ActionNeedsOptIn
  BY DEF IInv, ActedWhereOpen, WasOpen, ActionNeedsOptIn
<1> QED
  BY <1>1, AlwaysIInv, PTL
=============================================================================
