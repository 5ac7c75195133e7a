-------------------------- MODULE IdempotencyProofs --------------------------
(***************************************************************************)
(* Proofs about Idempotency, for any callers, keys, owners and limits.     *)
(*                                                                         *)
(* Three invariants, each on top of the one before it: Creations ties a    *)
(* key's record to its driver and to the resources it has made; Counted    *)
(* ties owner_counts to the records; Settling says who is still there when *)
(* nobody waits.  What the calls of the registry do to the records is in   *)
(* one lemma, Recorded, that all three use.                                *)
(***************************************************************************)
EXTENDS Idempotency, TLAPS, FiniteSetTheorems

Records == {k \in Keys : kept[k]}

(* A driver runs exactly while the outcome is open, and the record is then  *)
(* there; only a record that is there can have a live resource, and only    *)
(* the latest creation of a key.                                            *)
Creations ==
    /\ \A k \in Keys :
         /\ driver[k] = "none" <=> outcome[k] # "pending"
         /\ outcome[k] = "pending" => kept[k] /\ count[k] > 0
         /\ ~kept[k] => Resource(k) \notin alive \ deleted
         /\ driver[k] \in {"new", "starting"} => Resource(k) \notin alive
         /\ outcome[k] \in {"failed", "refused"} => Resource(k) \notin alive
         /\ outcome[k] = "value" => Resource(k) \in listed \cup deleted
    /\ \A r \in alive : r[2] <= count[r[1]]
    /\ \A r \in alive \ deleted : r[2] = count[r[1]]

(* The records are finitely many, and so are the waiters of each.           *)
Counted ==
    /\ IsFiniteSet(Records)
    /\ \A k \in Keys : IsFiniteSet(waiters[k])
    /\ RecordsCounted

(* Who waits is attached to the latest creation of its key, whose record    *)
(* stays: so the one who leaves last has seen the creation it cancels.      *)
Attached ==
    \A c \in Callers : caller[c] = "waiting" =>
        /\ c \in waiters[KeyOf[c]] /\ kept[KeyOf[c]]
        /\ joined[c] = count[KeyOf[c]]

Settling == Attached /\ AbandonedIsCancelled /\ KeyReleased

RegistryInv == TypeOK /\ Creations /\ Counted /\ Settling

-----------------------------------------------------------------------------
(* The calls of the registry.                                               *)

(* The records that some purge may delete.                                  *)
Droppable == Purgeable([k \in Keys |-> {}])

CallerStep(c) == Arrive(c) \/ Answer(c) \/ Leave(c) \/ Settled(c)

Creates(c) ==
    /\ Create(c, KeyOf[c], KeptAfter(waiters), OwnedAfter(waiters))
    /\ caller[c] = "out"
    /\ UNCHANGED resources

(* A purge drops some of the records that may be dropped.                   *)
LEMMA PurgeDrops ==
  ASSUME kept \in [Keys -> BOOLEAN], NEW w, NEW k \in Keys
  PROVE  /\ KeptAfter(w)[k] \in BOOLEAN
         /\ KeptAfter(w)[k] => kept[k]
         /\ kept[k] /\ ~KeptAfter(w)[k] => k \in Droppable
  BY DEF KeptAfter, Purgeable, Droppable

(* Every step of a caller either creates, or leaves the creations alone and *)
(* drops nothing but what may be dropped.                                   *)
LEMMA CallerKeeps ==
  ASSUME TypeOK, NEW c \in Callers, CallerStep(c)
  PROVE  \/ Creates(c)
         \/ /\ UNCHANGED <<count, body, driver, outcome, old, resources>>
            /\ kept' \in [Keys -> BOOLEAN]
            /\ \A k \in Keys : /\ kept'[k] => kept[k]
                               /\ kept[k] /\ ~kept'[k] => k \in Droppable
  <1>1. \/ Creates(c)
        \/ /\ UNCHANGED <<count, body, driver, outcome, old, resources>>
           /\ \/ UNCHANGED kept
              \/ \E w : kept' = KeptAfter(w)
    BY DEF CallerStep, Arrive, Creates, Turned, Join, Answer, Leave, Settled, Purge, record
  <1>2. ASSUME NEW w, kept' = KeptAfter(w) PROVE kept' \in [Keys -> BOOLEAN]
    BY <1>2 DEF KeptAfter, TypeOK
  <1>3. kept \in [Keys -> BOOLEAN]
    BY DEF TypeOK
  <1> QED BY <1>1, <1>2, <1>3, PurgeDrops

-----------------------------------------------------------------------------
(* Creations.                                                               *)

(* What a purge drops has no live resource left.                            *)
LEMMA DroppedEnded ==
  ASSUME Creations, NEW k \in Droppable
  PROVE  k \in Keys /\ Resource(k) \notin alive \ deleted
  BY DEF Creations, Droppable, Purgeable, Active

(* A caller drops only what has ended, and creates only when nothing lives.  *)
LEMMA CallerCreations ==
  ASSUME TypeOK, Creations, NEW c \in Callers, CallerStep(c)
  PROVE  Creations'
  <1>1. CASE /\ UNCHANGED <<count, body, driver, outcome, old, resources>>
             /\ \A k \in Keys : /\ kept'[k] => kept[k]
                                /\ kept[k] /\ ~kept'[k] => k \in Droppable
    <2>1. \A k \in Keys : outcome[k] = "pending" => k \notin Droppable
      BY DEF Droppable, Purgeable
    <2> QED BY <1>1, <2>1, DroppedEnded DEF Creations, resources, Resource
  <1>2. CASE Creates(c)
    <2> DEFINE l == KeyOf[c]
    <2>1. l \in Keys
      BY ScopeAssumption
    <2>2. /\ count' = [count EXCEPT ![l] = @ + 1]
          /\ driver' = [driver EXCEPT ![l] = "new"]
          /\ outcome' = [outcome EXCEPT ![l] = "pending"]
          /\ kept' = [KeptAfter(waiters) EXCEPT ![l] = TRUE]
          /\ UNCHANGED <<alive, listed, deleted>>
          /\ ~KeptAfter(waiters)[l]
      BY <1>2 DEF Creates, Create, resources
    <2> HIDE DEF l
    <2>3. /\ count \in [Keys -> Nat] /\ kept \in [Keys -> BOOLEAN]
          /\ driver \in [Keys -> {"none", "new", "starting", "made", "cleaning"}]
          /\ outcome \in [Keys -> {"none", "pending", "value", "refused", "failed", "unknown"}]
          /\ KeptAfter(waiters) \in [Keys -> BOOLEAN]
      BY LimitAssumption DEF TypeOK, KeptAfter
    <2>4. Resource(l) \notin alive \ deleted
      BY <2>1, <2>2, <2>3, PurgeDrops, DroppedEnded DEF Creations
    <2>5. \A r \in alive \cup listed \cup deleted : r \in Keys \X Int
      BY DEF TypeOK, Resources
    <2>6. ASSUME NEW k \in Keys, k # l
          PROVE  /\ outcome'[k] = outcome[k] /\ driver'[k] = driver[k] /\ count'[k] = count[k]
                 /\ Resource(k)' = Resource(k)
                 /\ kept'[k] = KeptAfter(waiters)[k]
      BY <2>1, <2>2, <2>3, <2>6 DEF Resource
    <2>7. ASSUME NEW k \in Keys, k # l
          PROVE  /\ outcome[k] = "pending" => kept'[k]
                 /\ ~kept'[k] => Resource(k) \notin alive \ deleted
      <3>1. outcome[k] = "pending" => k \notin Droppable
        BY DEF Droppable, Purgeable
      <3> QED BY <2>3, <2>6, <2>7, <3>1, PurgeDrops, DroppedEnded DEF Creations
    <2>8. Resource(l)' \notin alive
      BY <2>1, <2>2, <2>3, <2>5 DEF Creations, Resource
    <2>9. ASSUME NEW k \in Keys
          PROVE  /\ driver'[k] = "none" <=> outcome'[k] # "pending"
                 /\ outcome'[k] = "pending" => kept'[k] /\ count'[k] > 0
                 /\ ~kept'[k] => Resource(k)' \notin alive' \ deleted'
                 /\ driver'[k] \in {"new", "starting"} => Resource(k)' \notin alive'
                 /\ outcome'[k] \in {"failed", "refused"} => Resource(k)' \notin alive'
                 /\ outcome'[k] = "value" => Resource(k)' \in listed' \cup deleted'
      <3>1. CASE k = l
        BY <3>1, <2>1, <2>2, <2>3, <2>8
      <3>2. CASE k # l
        BY <3>2, <2>2, <2>6, <2>7 DEF Creations
      <3> QED BY <3>1, <3>2
    <2>10. \A r \in alive' : r[2] <= count'[r[1]]
      BY <2>1, <2>2, <2>3, <2>5 DEF Creations
    <2>11. \A r \in alive' \ deleted' : r[2] = count'[r[1]]
      BY <2>1, <2>2, <2>3, <2>4, <2>5 DEF Creations, Resource
    <2> QED BY <2>9, <2>10, <2>11 DEF Creations
  <1> QED BY <1>1, <1>2, CallerKeeps

(* The driver's steps, and those of the resources and of time.              *)
LEMMA DriverCreations ==
  ASSUME TypeOK, Creations, NEW k \in Keys, Drive(k)
  PROVE  Creations'
  <1>1. /\ count \in [Keys -> Nat] /\ kept \in [Keys -> BOOLEAN]
        /\ driver \in [Keys -> {"none", "new", "starting", "made", "cleaning"}]
        /\ outcome \in [Keys -> {"none", "pending", "value", "refused", "failed", "unknown"}]
        /\ \A r \in alive \cup listed \cup deleted : r \in Keys \X Int
    BY LimitAssumption DEF TypeOK, Resources
  <1>2. UNCHANGED <<kept, count>> /\ \A l \in Keys : Resource(l)' = Resource(l)
    BY DEF Drive, DriverDone, Begin, Make, Return, Refuse, Unwind, Unwound, untouched, Resource
  <1>3. \A l, m \in Keys : Resource(l) = Resource(m) => l = m
    BY DEF Resource
  <1>4. Resource(k) = <<k, count[k]>>
    BY DEF Resource
  <1>5. CASE DriverDone(k)
    BY <1>1, <1>2, <1>5 DEF DriverDone, Creations, resources
  <1>6. CASE Begin(k) \/ Unwind(k)
    BY <1>1, <1>2, <1>6 DEF Begin, Unwind, Creations, resources
  <1>7. CASE Make(k)
    BY <1>1, <1>2, <1>3, <1>4, <1>7 DEF Make, Creations
  <1>8. CASE Return(k)
    BY <1>1, <1>2, <1>8 DEF Return, Creations
  <1>9. CASE Refuse(k)
    BY <1>1, <1>2, <1>9 DEF Refuse, Creations, resources
  <1>10. CASE Unwound(k)
    BY <1>1, <1>2, <1>3, <1>10 DEF Unwound, Unexpected, Creations
  <1> QED BY <1>5, <1>6, <1>7, <1>8, <1>9, <1>10 DEF Drive

(* Resources end and are deleted, and then they are not live any more.       *)
LEMMA OtherCreations ==
  ASSUME Creations,
         \/ \E k \in Keys : CancelDriver(k) \/ Expire(k)
         \/ \E r \in Resources : Finish(r) \/ Delete(r)
  PROVE  Creations'
  <1>1. /\ UNCHANGED <<kept, count, driver, outcome>>
        /\ alive' \subseteq alive /\ deleted \subseteq deleted'
        /\ listed \cup deleted \subseteq listed' \cup deleted'
    BY DEF CancelDriver, Expire, Finish, Delete, untouched, resources
  <1> QED BY <1>1 DEF Creations, Resource

-----------------------------------------------------------------------------
(* Counts.                                                                  *)

(* The records when the keys present are the ones of p.                     *)
RecordsOf(p) == {k \in Keys : p[k]}

CountsOf(counts, ks) ==
    /\ counts \in [Owners -> Nat]
    /\ \A o \in Owners : counts[o] = OwnedBy(o, ks) /\ counts[o] <= MaxUserEntries

(* Some of the counted records are dropped: each owner's count goes down by *)
(* the number of its records among them.                                    *)
LEMMA DropCounts ==
  ASSUME NEW K, IsFiniteSet(K), NEW D \in SUBSET K, NEW o
  PROVE  /\ IsFiniteSet(K \ D) /\ Cardinality(K \ D) <= Cardinality(K)
         /\ OwnedBy(o, K) \in Nat /\ OwnedBy(o, K \ D) \in Nat
         /\ OwnedBy(o, K \ D) = OwnedBy(o, K) - OwnedBy(o, D)
         /\ OwnedBy(o, K \ D) <= OwnedBy(o, K)
  <1> DEFINE Ko == {k \in K : OwnerOf[k] = o}
             Do == {k \in D : OwnerOf[k] = o}
  <1>1. IsFiniteSet(K \ D) /\ Cardinality(K \ D) <= Cardinality(K)
    <2>1. K \ D \in SUBSET K
      OBVIOUS
    <2> QED BY <2>1, FS_Subset
  <1>2. Ko \in SUBSET K /\ Do \in SUBSET Ko /\ Ko \cap Do = Do
        /\ {k \in K \ D : OwnerOf[k] = o} = Ko \ Do
    OBVIOUS
  <1>3. IsFiniteSet(Ko) /\ IsFiniteSet(Do) /\ IsFiniteSet(Ko \ Do)
    BY <1>2, FS_Subset, FS_Difference
  <1>4. Cardinality(Ko \ Do) = Cardinality(Ko) - Cardinality(Do)
    BY <1>2, <1>3, FS_Difference
  <1>5. Cardinality(Ko) \in Nat /\ Cardinality(Do) \in Nat /\ Cardinality(Ko \ Do) \in Nat
    BY <1>3, FS_CardinalityType
  <1>6. /\ OwnedBy(o, K) = Cardinality(Ko) /\ OwnedBy(o, D) = Cardinality(Do)
        /\ OwnedBy(o, K \ D) = Cardinality(Ko \ Do)
    BY <1>2 DEF OwnedBy
  <1> HIDE DEF Ko, Do
  <1> QED BY <1>1, <1>4, <1>5, <1>6

(* The records and counts that a purge leaves.                              *)
LEMMA PurgeCounts ==
  ASSUME TypeOK, Counted, NEW w
  PROVE  /\ IsFiniteSet(RecordsOf(KeptAfter(w)))
         /\ Cardinality(RecordsOf(KeptAfter(w))) <= MaxEntries
         /\ CountsOf(OwnedAfter(w), RecordsOf(KeptAfter(w)))
  <1> DEFINE K == Records
             D == Purgeable(w)
  <1>1. RecordsOf(KeptAfter(w)) = K \ D /\ D \in SUBSET K
    BY DEF RecordsOf, KeptAfter, Records, Purgeable
  <1>2. /\ IsFiniteSet(K) /\ Cardinality(K) <= MaxEntries
        /\ \A o \in Owners : owned[o] = OwnedBy(o, K) /\ owned[o] <= MaxUserEntries
    BY DEF Counted, RecordsCounted, Records
  <1>3. /\ Cardinality(K) \in Nat /\ Cardinality(K \ D) \in Nat
        /\ MaxEntries \in Nat /\ MaxUserEntries \in Nat
    <2>1. IsFiniteSet(K \ D)
      BY <1>1, <1>2, DropCounts
    <2> QED BY <1>2, <2>1, FS_CardinalityType, LimitAssumption
  <1> HIDE DEF K, D
  <1>4. IsFiniteSet(K \ D) /\ Cardinality(K \ D) <= Cardinality(K)
    BY <1>1, <1>2, DropCounts
  <1>5. ASSUME NEW o \in Owners
        PROVE  /\ owned[o] - OwnedBy(o, D) \in Nat
               /\ owned[o] - OwnedBy(o, D) = OwnedBy(o, K \ D)
               /\ owned[o] - OwnedBy(o, D) <= MaxUserEntries
    <2>1. /\ OwnedBy(o, K) \in Nat /\ OwnedBy(o, K \ D) \in Nat
          /\ OwnedBy(o, K \ D) = OwnedBy(o, K) - OwnedBy(o, D)
          /\ OwnedBy(o, K \ D) <= OwnedBy(o, K)
      BY <1>1, <1>2, DropCounts
    <2> QED BY <2>1, <1>2, <1>3
  <1>6. OwnedAfter(w) = [o \in Owners |-> owned[o] - OwnedBy(o, D)]
    BY DEF OwnedAfter, D
  <1>7. CountsOf(OwnedAfter(w), K \ D)
    BY <1>5, <1>6 DEF CountsOf
  <1>8. Cardinality(K \ D) <= MaxEntries
    BY <1>2, <1>3, <1>4
  <1> QED BY <1>1, <1>4, <1>7, <1>8

(* One more record, of a key that had none, counts for its owner alone.     *)
LEMMA AddCounts ==
  ASSUME NEW K, IsFiniteSet(K), NEW k \in Keys, k \notin K, NEW counts, CountsOf(counts, K),
         counts[OwnerOf[k]] < MaxUserEntries
  PROVE  CountsOf([counts EXCEPT ![OwnerOf[k]] = @ + 1], K \cup {k})
  <1> DEFINE Of(o, ks) == {l \in ks : OwnerOf[l] = o}
  <1>1. /\ OwnerOf[k] \in Owners /\ MaxUserEntries \in Nat
        /\ counts \in [Owners -> Nat]
    BY ScopeAssumption, LimitAssumption DEF CountsOf
  <1>2. ASSUME NEW o \in Owners
        PROVE  OwnedBy(o, K \cup {k}) = IF o = OwnerOf[k] THEN counts[o] + 1 ELSE counts[o]
    <2>1. Of(o, K) \in SUBSET K /\ IsFiniteSet(Of(o, K)) /\ k \notin Of(o, K)
      <3>1. Of(o, K) \in SUBSET K
        OBVIOUS
      <3> QED BY <3>1, FS_Subset
    <2>2. Of(o, K \cup {k}) = IF o = OwnerOf[k] THEN Of(o, K) \cup {k} ELSE Of(o, K)
      OBVIOUS
    <2>3. Cardinality(Of(o, K)) = counts[o]
      BY <1>2 DEF CountsOf, OwnedBy
    <2>4. Cardinality(Of(o, K) \cup {k}) = Cardinality(Of(o, K)) + 1
      BY <2>1, FS_AddElement
    <2>5. OwnedBy(o, K \cup {k}) = Cardinality(Of(o, K \cup {k}))
      BY DEF OwnedBy
    <2> HIDE DEF Of
    <2> QED BY <2>2, <2>3, <2>4, <2>5
  <1> DEFINE after == [counts EXCEPT ![OwnerOf[k]] = @ + 1]
  <1>3. \A o \in Owners : after[o] = IF o = OwnerOf[k] THEN counts[o] + 1 ELSE counts[o]
    BY <1>1
  <1>4. after \in [Owners -> Nat]
    BY <1>1
  <1>5. \A o \in Owners : counts[o] <= MaxUserEntries
    BY DEF CountsOf
  <1>6. \A o \in Owners : after[o] <= MaxUserEntries
    BY <1>1, <1>3, <1>5
  <1> HIDE DEF after
  <1>7. \A o \in Owners : after[o] = OwnedBy(o, K \cup {k})
    BY <1>2, <1>3
  <1>8. CountsOf(after, K \cup {k})
    BY <1>4, <1>6, <1>7 DEF CountsOf
  <1> QED BY <1>8 DEF after

(* A waiter that leaves makes a set of waiters no larger.                   *)
LEMMA FewerWaiters ==
  ASSUME TypeOK, Counted, NEW k \in Keys, NEW c, NEW l \in Keys
  PROVE  LET w == [waiters EXCEPT ![k] = @ \ {c}]
         IN  IsFiniteSet(w[l]) /\ Cardinality(w[l]) <= MaxWaiters
  <1>1. IsFiniteSet(waiters[l]) /\ Cardinality(waiters[l]) <= MaxWaiters
        /\ Cardinality(waiters[l]) \in Nat /\ MaxWaiters \in Nat
    BY FS_CardinalityType, LimitAssumption DEF Counted, RecordsCounted
  <1>2. IsFiniteSet(waiters[l] \ {c}) /\ Cardinality(waiters[l] \ {c}) <= MaxWaiters
    <2>1. waiters[l] \ {c} \in SUBSET waiters[l]
      OBVIOUS
    <2>2. /\ IsFiniteSet(waiters[l] \ {c})
          /\ Cardinality(waiters[l] \ {c}) <= Cardinality(waiters[l])
      BY <1>1, <2>1, FS_Subset
    <2>3. Cardinality(waiters[l] \ {c}) \in Nat
      BY <2>2, FS_CardinalityType
    <2> QED BY <1>1, <2>2, <2>3
  <1>3. waiters \in [Keys -> SUBSET Callers]
    BY DEF TypeOK
  <1> DEFINE w == [waiters EXCEPT ![k] = @ \ {c}]
  <1>4. w[l] = waiters[l] \/ w[l] = waiters[l] \ {c}
    BY <1>3
  <1> QED BY <1>1, <1>2, <1>4

(* A creation adds one record within the limits, and its first waiter.       *)
LEMMA CreateCounted ==
  ASSUME TypeOK, Counted, NEW c \in Callers, Creates(c)
  PROVE  Counted' /\ owned' \in [Owners -> Nat]
  <1> DEFINE l == KeyOf[c]
             K == RecordsOf(KeptAfter(waiters))
  <1>1. l \in Keys
    BY ScopeAssumption
  <1>2. /\ ~KeptAfter(waiters)[l] /\ ~NoRoom(l, KeptAfter(waiters), OwnedAfter(waiters))
        /\ kept' = [KeptAfter(waiters) EXCEPT ![l] = TRUE]
        /\ owned' = [OwnedAfter(waiters) EXCEPT ![OwnerOf[l]] = @ + 1]
        /\ waiters' = [waiters EXCEPT ![l] = {c}]
    BY DEF Creates, Create
  <1>3. IsFiniteSet(K) /\ CountsOf(OwnedAfter(waiters), K) /\ Cardinality(K) \in Nat
    BY PurgeCounts, FS_CardinalityType
  <1>4. Cardinality(K) < MaxEntries /\ OwnedAfter(waiters)[OwnerOf[l]] < MaxUserEntries
    <2>1. /\ ~(Cardinality(K) >= MaxEntries)
          /\ ~(OwnedAfter(waiters)[OwnerOf[l]] >= MaxUserEntries)
      BY <1>2 DEF NoRoom, RecordsOf
    <2>2. OwnedAfter(waiters)[OwnerOf[l]] \in Nat
      BY <1>1, <1>3, ScopeAssumption DEF CountsOf
    <2> QED BY <2>1, <2>2, <1>3, LimitAssumption
  <1>5. Records' = K \cup {l} /\ l \notin K
    <2>1. KeptAfter(waiters) \in [Keys -> BOOLEAN]
      BY DEF KeptAfter, TypeOK
    <2>2. ASSUME NEW k \in Keys PROVE kept'[k] <=> k = l \/ KeptAfter(waiters)[k]
      BY <1>1, <1>2, <2>1
    <2> HIDE DEF l
    <2> QED BY <1>1, <1>2, <2>2 DEF Records, RecordsOf
  <1> HIDE DEF l, K
  <1>6. IsFiniteSet(Records') /\ Cardinality(Records') <= MaxEntries
    <2>1. IsFiniteSet(K \cup {l}) /\ Cardinality(K \cup {l}) = Cardinality(K) + 1
      BY <1>3, <1>5, FS_AddElement
    <2> QED BY <2>1, <1>3, <1>4, <1>5, LimitAssumption
  <1>7. CountsOf(owned', Records')
    BY <1>1, <1>2, <1>3, <1>4, <1>5, AddCounts
  <1>8. \A k \in Keys : IsFiniteSet(waiters'[k]) /\ Cardinality(waiters'[k]) <= MaxWaiters
    <2>1. IsFiniteSet({c}) /\ Cardinality({c}) = 1
      BY FS_Singleton
    <2>2. 1 <= MaxWaiters
      BY LimitAssumption
    <2>3. ASSUME NEW k \in Keys PROVE waiters'[k] = IF k = l THEN {c} ELSE waiters[k]
      BY <1>2 DEF TypeOK
    <2> QED BY <2>1, <2>2, <2>3 DEF Counted, RecordsCounted
  <1> QED BY <1>6, <1>7, <1>8 DEF Counted, RecordsCounted, CountsOf, Records

(* The other steps of a caller purge or not, and let it join or leave.      *)
LEMMA CallerCounted ==
  ASSUME TypeOK, Counted, NEW c \in Callers, CallerStep(c)
  PROVE  Counted' /\ owned' \in [Owners -> Nat]
  <1> DEFINE k == KeyOf[c]
             Fits(w) == \A l \in Keys : IsFiniteSet(w[l]) /\ Cardinality(w[l]) <= MaxWaiters
  <1>1. k \in Keys
    BY ScopeAssumption
  <1>2. Fits(waiters)
    BY DEF Counted, RecordsCounted
  <1>3. Fits([waiters EXCEPT ![k] = @ \ {c}])
    BY <1>1, FewerWaiters
  <1>4. ASSUME Cardinality(waiters[k]) < MaxWaiters
        PROVE  Fits([waiters EXCEPT ![k] = @ \cup {c}])
    <2>1. IsFiniteSet(waiters[k]) /\ Cardinality(waiters[k]) \in Nat /\ MaxWaiters \in Nat
      BY <1>1, FS_CardinalityType, LimitAssumption DEF Counted
    <2>2. IsFiniteSet(waiters[k] \cup {c}) /\ Cardinality(waiters[k] \cup {c}) <= MaxWaiters
      <3>1. /\ IsFiniteSet(waiters[k] \cup {c})
            /\ Cardinality(waiters[k] \cup {c}) =
                 IF c \in waiters[k] THEN Cardinality(waiters[k]) ELSE Cardinality(waiters[k]) + 1
        BY <2>1, FS_AddElement
      <3> QED BY <2>1, <3>1, <1>4
    <2>3. ASSUME NEW l \in Keys
          PROVE  [waiters EXCEPT ![k] = @ \cup {c}][l]
                   = IF l = k THEN waiters[k] \cup {c} ELSE waiters[l]
      BY <1>1 DEF TypeOK
    <2> QED BY <2>2, <2>3, <1>2
  <1>5. \/ Creates(c)
        \/ /\ \/ UNCHANGED <<kept, owned>>
              \/ \E w : kept' = KeptAfter(w) /\ owned' = OwnedAfter(w)
           /\ \/ UNCHANGED waiters
              \/ waiters' = [waiters EXCEPT ![k] = @ \ {c}]
              \/ /\ Cardinality(waiters[k]) < MaxWaiters
                 /\ waiters' = [waiters EXCEPT ![k] = @ \cup {c}]
    BY DEF CallerStep, Arrive, Creates, Turned, Join, Answer, Leave, Settled, Purge
  <1>6. ASSUME \/ UNCHANGED <<kept, owned>>
               \/ \E w : kept' = KeptAfter(w) /\ owned' = OwnedAfter(w),
               \/ UNCHANGED waiters
               \/ waiters' = [waiters EXCEPT ![k] = @ \ {c}]
               \/ /\ Cardinality(waiters[k]) < MaxWaiters
                  /\ waiters' = [waiters EXCEPT ![k] = @ \cup {c}]
        PROVE  Counted' /\ owned' \in [Owners -> Nat]
    <2>1. Fits(waiters')
      BY <1>2, <1>3, <1>4, <1>6
    <2>2. /\ IsFiniteSet(Records') /\ Cardinality(Records') <= MaxEntries
          /\ CountsOf(owned', Records')
      <3>1. CASE UNCHANGED <<kept, owned>>
        <4>1. Records' = Records /\ owned' = owned
          BY <3>1 DEF Records
        <4> QED BY <4>1 DEF Counted, RecordsCounted, CountsOf, Records, TypeOK
      <3>2. CASE \E w : kept' = KeptAfter(w) /\ owned' = OwnedAfter(w)
        <4>1. PICK w : kept' = KeptAfter(w) /\ owned' = OwnedAfter(w)
          BY <3>2
        <4>2. Records' = RecordsOf(KeptAfter(w))
          BY <4>1 DEF Records, RecordsOf
        <4> QED BY <4>1, <4>2, PurgeCounts
      <3> QED BY <1>6, <3>1, <3>2
    <2> QED BY <2>1, <2>2 DEF Counted, RecordsCounted, CountsOf, Records
  <1> QED BY <1>5, <1>6, CreateCounted

(* Nobody else touches the records, their counts or the waiters.            *)
LEMMA OtherCounted ==
  ASSUME TypeOK, Counted,
         \/ \E k \in Keys : CancelDriver(k) \/ Drive(k) \/ Expire(k)
         \/ \E r \in Resources : Finish(r) \/ Delete(r)
  PROVE  Counted' /\ owned' \in [Owners -> Nat]
  <1>1. UNCHANGED <<kept, owned, waiters>>
    BY DEF CancelDriver, Expire, Finish, Delete, untouched,
           Drive, DriverDone, Begin, Make, Return, Refuse, Unwind, Unwound
  <1> QED BY <1>1 DEF TypeOK, Counted, RecordsCounted, Records

-----------------------------------------------------------------------------
(* Who is still there.                                                      *)

Attends(c, k) == KeyOf[c] = k /\ caller[c] = "settling" /\ joined[c] = count[k]

(* A caller of another key, or one whose creation has not settled, is where *)
(* it was; so whoever attended a key with an open outcome still does.       *)
LEMMA CallerSettling ==
  ASSUME TypeOK, Creations, Settling, NEW c \in Callers, CallerStep(c)
  PROVE  Settling'
  <1>1. /\ kept \in [Keys -> BOOLEAN] /\ waiters \in [Keys -> SUBSET Callers]
        /\ count \in [Keys -> Nat] /\ joined \in [Callers -> Int]
        /\ caller \in [Callers -> {"out", "waiting", "settling", "answered"}]
        /\ cancel \in [Keys -> {"no", "scheduled", "requested"}]
        /\ outcome \in [Keys -> {"none", "pending", "value", "refused", "failed", "unknown"}]
        /\ KeyOf[c] \in Keys
    BY ScopeAssumption, LimitAssumption DEF TypeOK
  <1> DEFINE l == KeyOf[c]
  <1>2. CASE Creates(c)
    <2>1. /\ count' = [count EXCEPT ![l] = @ + 1]
          /\ outcome' = [outcome EXCEPT ![l] = "pending"]
          /\ kept' = [KeptAfter(waiters) EXCEPT ![l] = TRUE]
          /\ waiters' = [waiters EXCEPT ![l] = {c}]
          /\ cancel' = [cancel EXCEPT ![l] = "no"]
          /\ caller' = [caller EXCEPT ![c] = "waiting"]
          /\ joined' = [joined EXCEPT ![c] = count[l] + 1]
          /\ caller[c] = "out" /\ ~KeptAfter(waiters)[l]
          /\ KeptAfter(waiters) \in [Keys -> BOOLEAN]
      BY <1>1, <1>2 DEF Creates, Create, KeptAfter
    <2>2. \A k \in Keys : k # l =>
            /\ outcome'[k] = outcome[k] /\ waiters'[k] = waiters[k] /\ cancel'[k] = cancel[k]
            /\ count'[k] = count[k]
            /\ kept'[k] => kept[k]
      BY <1>1, <2>1, PurgeDrops
    <2>3. \A k \in Keys, d \in Callers : k # l /\ Attends(d, k) => Attends(d, k)'
      BY <1>1, <2>1, <2>2 DEF Attends
    <2>4. waiters'[l] # {}
      BY <1>1, <2>1
    <2>5. ASSUME NEW k \in Keys, outcome'[k] = "pending", waiters'[k] = {}
          PROVE  cancel'[k] # "no" /\ \E d \in Callers : Attends(d, k)'
      <3>1. k # l
        BY <2>4, <2>5
      <3> QED BY <3>1, <2>2, <2>3, <2>5 DEF Settling, AbandonedIsCancelled, Attends
    <2>6. ASSUME NEW k \in Keys, kept'[k], outcome'[k] = "failed", waiters'[k] = {}
          PROVE  \E d \in Callers : Attends(d, k)'
      <3>1. k # l
        BY <2>4, <2>6
      <3> QED BY <3>1, <2>2, <2>3, <2>6 DEF Settling, KeyReleased, Attends
    <2>7. ASSUME NEW d \in Callers, caller'[d] = "waiting"
          PROVE  /\ d \in waiters'[KeyOf[d]] /\ kept'[KeyOf[d]]
                 /\ joined'[d] = count'[KeyOf[d]]
      <3>1. CASE d = c
        BY <3>1, <1>1, <2>1
      <3>2. CASE d # c
        <4>1. /\ caller[d] = "waiting" /\ joined'[d] = joined[d] /\ KeyOf[d] \in Keys
              /\ d \in waiters[KeyOf[d]] /\ kept[KeyOf[d]]
              /\ joined[d] = count[KeyOf[d]]
          BY <3>2, <2>7, <1>1, <2>1, ScopeAssumption DEF Settling, Attached
        <4>2. KeptAfter(waiters)[KeyOf[d]]
          BY <4>1 DEF KeptAfter, Purgeable
        <4>3. KeyOf[d] # l
          BY <4>2, <2>1
        <4> QED BY <4>1, <4>2, <4>3, <1>1, <2>1
      <3> QED BY <3>1, <3>2
    <2> QED BY <2>5, <2>6, <2>7
            DEF Settling, Attached, AbandonedIsCancelled, KeyReleased, Attends
  <1>3. CASE Leave(c) /\ waiters[l] \ {c} = {} /\ outcome[l] = "pending"
    <2>1. /\ waiters' = [waiters EXCEPT ![l] = {}]
          /\ cancel'[l] # "no" /\ \A k \in Keys : k # l => cancel'[k] = cancel[k]
          /\ caller[c] = "waiting" /\ caller'[c] = "settling"
          /\ \A d \in Callers : d # c => caller'[d] = caller[d]
          /\ UNCHANGED <<kept, count, outcome, joined>>
      BY <1>1, <1>3 DEF Leave, Cancelled
    <2>2. Attends(c, l)'
      BY <2>1 DEF Settling, Attached, Attends
    <2>3. \A k \in Keys, d \in Callers : k # l /\ Attends(d, k) => Attends(d, k)'
      BY <1>1, <2>1 DEF Attends
    <2>4. \A k \in Keys : k # l => waiters'[k] = waiters[k]
      BY <1>1, <2>1
    <2>5. AbandonedIsCancelled'
      BY <2>1, <2>2, <2>3, <2>4 DEF Settling, AbandonedIsCancelled, Attends
    <2>6. KeyReleased'
      BY <1>3, <2>1, <2>3, <2>4 DEF Settling, KeyReleased, Attends
    <2>7. ASSUME NEW d \in Callers, caller'[d] = "waiting"
          PROVE  /\ d \in waiters'[KeyOf[d]] /\ kept'[KeyOf[d]]
                 /\ joined'[d] = count'[KeyOf[d]]
      <3>1. d # c /\ caller[d] = "waiting"
        BY <2>1, <2>7
      <3>2. d \in waiters[KeyOf[d]] /\ kept[KeyOf[d]] /\ joined[d] = count[KeyOf[d]]
        BY <3>1 DEF Settling, Attached
      <3>3. KeyOf[d] # l /\ KeyOf[d] \in Keys
        BY <3>1, <3>2, <1>3, ScopeAssumption
      <3> QED BY <3>2, <3>3, <2>1, <2>4
    <2> QED BY <2>5, <2>6, <2>7 DEF Settling, Attached
  <1>4. CASE ~Creates(c) /\ ~(Leave(c) /\ waiters[l] \ {c} = {} /\ outcome[l] = "pending")
    <2>1. /\ UNCHANGED <<count, outcome, cancel>>
          /\ \A d \in Callers : d # c => caller'[d] = caller[d] /\ joined'[d] = joined[d]
          /\ \/ kept' = KeptAfter(waiters) /\ waiters' = waiters
             \/ /\ kept' = KeptAfter(waiters)
                /\ waiters' = [waiters EXCEPT ![l] = @ \cup {c}]
             \/ /\ waiters' = [waiters EXCEPT ![l] = @ \ {c}]
                /\ kept' = KeptAfter(waiters')
                /\ outcome[l] # "pending" \/ waiters[l] \ {c} # {}
      BY <1>1, <1>4 DEF CallerStep, Arrive, Creates, Turned, Join, Answer, Leave, Settled,
                        Done, Purge, record
    <2>2. \/ caller[c] # "settling"
          \/ count[l] # joined[c] \/ outcome[l] # "pending"
      BY <1>4 DEF CallerStep, Arrive, Answer, Leave, Settled
    <2>3. \/ caller'[c] # "waiting"
          \/ /\ c \in waiters'[l] /\ kept'[l] /\ joined'[c] = count[l]
      BY <1>1, <1>4 DEF CallerStep, Arrive, Creates, Turned, Join, Answer, Leave, Settled, Done
    <2>4. PICK w \in [Keys -> SUBSET Callers] :
            /\ kept' = KeptAfter(w)
            /\ \A k \in Keys : w[k] \subseteq waiters'[k]
            /\ \A k \in Keys : k # l => waiters'[k] = waiters[k] /\ w[k] = waiters[k]
            /\ waiters[l] \ {c} \subseteq w[l]
      <3>1. CASE kept' = KeptAfter(waiters) /\ waiters' = waiters
        BY <3>1, <1>1
      <3>2. CASE /\ kept' = KeptAfter(waiters)
                 /\ waiters' = [waiters EXCEPT ![l] = @ \cup {c}]
        BY <3>2, <1>1
      <3>3. CASE /\ waiters' = [waiters EXCEPT ![l] = @ \ {c}]
                 /\ kept' = KeptAfter(waiters')
        <4>1. waiters' \in [Keys -> SUBSET Callers]
          BY <3>3, <1>1
        <4>2. /\ \A k \in Keys : k # l => waiters'[k] = waiters[k]
              /\ waiters'[l] = waiters[l] \ {c}
          BY <3>3, <1>1
        <4> QED BY <3>3, <4>1, <4>2
      <3> QED BY <2>1, <3>1, <3>2, <3>3
    <2>5. \/ waiters' = waiters
          \/ waiters'[l] # {}
          \/ outcome[l] # "pending"
      BY <1>1, <2>1
    <2>10. \A k \in Keys, d \in Callers : outcome[k] = "pending" /\ Attends(d, k) => Attends(d, k)'
      BY <1>1, <2>1, <2>2 DEF Attends
    <2>6. AbandonedIsCancelled'
      BY <2>1, <2>4, <2>5, <2>10 DEF Settling, AbandonedIsCancelled, Attends
    <2>7. ASSUME NEW k \in Keys, kept'[k], outcome'[k] = "failed", waiters'[k] = {}
          PROVE  FALSE
      <3>1. w[k] = {} /\ outcome[k] = "failed"
        BY <2>1, <2>4, <2>7
      <3> QED BY <3>1, <2>4, <2>7 DEF KeptAfter, Purgeable
    <2>8. ASSUME NEW d \in Callers, d # c, caller'[d] = "waiting"
          PROVE  /\ d \in waiters'[KeyOf[d]] /\ kept'[KeyOf[d]]
                 /\ joined'[d] = count'[KeyOf[d]]
      <3>1. /\ d \in waiters[KeyOf[d]] /\ kept[KeyOf[d]] /\ joined[d] = count[KeyOf[d]]
            /\ KeyOf[d] \in Keys
        BY <2>1, <2>8, ScopeAssumption DEF Settling, Attached
      <3>2. d \in w[KeyOf[d]]
        BY <3>1, <2>4, <2>8
      <3>3. kept'[KeyOf[d]]
        BY <3>1, <3>2, <2>4 DEF KeptAfter, Purgeable
      <3> QED BY <3>1, <3>2, <3>3, <2>1, <2>4, <2>8
    <2>9. Attached'
      BY <2>1, <2>3, <2>8 DEF Attached
    <2> QED BY <2>6, <2>7, <2>9 DEF Settling, KeyReleased
  <1> QED BY <1>2, <1>3, <1>4

(* The driver answers: an outcome that was open may become a failure, and   *)
(* then whoever attended the open one is still there.                       *)
LEMMA OtherSettling ==
  ASSUME TypeOK, Settling,
         \/ \E k \in Keys : CancelDriver(k) \/ Drive(k) \/ Expire(k)
         \/ \E r \in Resources : Finish(r) \/ Delete(r),
         Creations
  PROVE  Settling'
  <1>1. UNCHANGED <<kept, count, waiters, caller, joined>>
    BY DEF CancelDriver, Expire, Finish, Delete, untouched,
           Drive, DriverDone, Begin, Make, Return, Refuse, Unwind, Unwound
  <1>2. /\ outcome \in [Keys -> {"none", "pending", "value", "refused", "failed", "unknown"}]
        /\ cancel \in [Keys -> {"no", "scheduled", "requested"}]
    BY DEF TypeOK
  <1>3. \A k \in Keys : \/ outcome'[k] = outcome[k]
                        \/ outcome[k] = "pending" /\ outcome'[k] # "pending"
    BY <1>2 DEF CancelDriver, Expire, Finish, Delete, untouched, Creations,
           Drive, DriverDone, Begin, Make, Return, Refuse, Unwind, Unwound, Unexpected
  <1>4. \A k \in Keys : cancel[k] # "no" => cancel'[k] # "no"
    BY <1>2 DEF CancelDriver, Expire, Finish, Delete, untouched,
           Drive, DriverDone, Begin, Make, Return, Refuse, Unwind, Unwound
  <1>5. Attached'
    BY <1>1 DEF Settling, Attached
  <1>6. AbandonedIsCancelled'
    BY <1>1, <1>3, <1>4 DEF Settling, AbandonedIsCancelled
  <1>7. KeyReleased'
    BY <1>1, <1>3 DEF Settling, AbandonedIsCancelled, KeyReleased
  <1> QED BY <1>5, <1>6, <1>7 DEF Settling

-----------------------------------------------------------------------------
(* The theorems.                                                            *)

(* Steps keep the types; that the counts are numbers is part of Counted.     *)
LEMMA TypeStep ==
  ASSUME TypeOK, Creations, Next, owned' \in [Owners -> Nat]
  PROVE  TypeOK'
  <1>1. MaxCreations \in Nat \ {0}
    BY LimitAssumption
  <1>2. ASSUME NEW c \in Callers, CallerStep(c)
        PROVE  TypeOK'
    <2>1. KeyOf[c] \in Keys /\ BodyOf[c] \in Bodies
      BY ScopeAssumption DEF Bodies
    <2>2. CASE Creates(c)
      <3>1. KeptAfter(waiters) \in [Keys -> BOOLEAN] /\ UNCHANGED <<alive, listed, deleted>>
        BY <2>2 DEF KeptAfter, TypeOK, Creates, resources
      <3> QED BY <1>1, <2>1, <2>2, <3>1 DEF TypeOK, Creates, Create, Bodies, Resources
    <2>3. CASE ~Creates(c)
      <3>1. /\ kept' \in [Keys -> BOOLEAN]
            /\ UNCHANGED <<count, body, driver, outcome, old, alive, listed, deleted>>
        BY <1>2, <2>3, CallerKeeps DEF resources
      <3>2. /\ waiters' \in [Keys -> SUBSET Callers]
            /\ cancel' \in [Keys -> {"no", "scheduled", "requested"}]
            /\ caller' \in [Callers -> {"out", "waiting", "settling", "answered"}]
            /\ joined' \in [Callers -> 0..MaxCreations]
        BY <1>1, <1>2, <2>1, <2>3
           DEF TypeOK, CallerStep, Arrive, Creates, Turned, Join, Answer, Leave, Settled,
               Done, Purge, record, Cancelled
      <3> QED BY <3>1, <3>2 DEF TypeOK, Bodies, Resources
    <2> QED BY <2>2, <2>3
  <1>3. ASSUME NEW k \in Keys, Drive(k)
        PROVE  TypeOK'
    <2>1. outcome[k] = "pending" => Resource(k) \in Resources
      BY <1>1 DEF Creations, Resource, Resources, TypeOK
    <2>2. driver[k] # "none"
      BY <1>3 DEF Drive, DriverDone, Begin, Make, Return, Refuse, Unwind, Unwound
    <2>3. Resource(k) \in Resources
      BY <2>1, <2>2 DEF Creations
    <2>4. /\ alive' \subseteq alive \cup {Resource(k)}
          /\ listed' \subseteq listed \cup {Resource(k)}
          /\ deleted' = deleted
      BY <1>3 DEF Drive, DriverDone, Begin, Make, Return, Refuse, Unwind, Unwound, resources
    <2>5. /\ alive' \subseteq Resources /\ listed' \subseteq Resources
          /\ deleted' \subseteq Resources
      BY <2>3, <2>4 DEF TypeOK
    <2>6. /\ UNCHANGED <<untouched, cancel>>
          /\ \E d \in {"none", "new", "starting", "made", "cleaning"} :
                driver' = [driver EXCEPT ![k] = d]
          /\ \/ outcome' = outcome
             \/ \E o \in {"value", "refused", "failed", "unknown"} :
                   outcome' = [outcome EXCEPT ![k] = o]
      BY <1>3 DEF Drive, DriverDone, Begin, Make, Return, Refuse, Unwind, Unwound, Unexpected
    <2>7. /\ driver' \in [Keys -> {"none", "new", "starting", "made", "cleaning"}]
          /\ outcome' \in [Keys -> {"none", "pending", "value", "refused", "failed", "unknown"}]
      BY <2>6 DEF TypeOK
    <2> QED BY <2>5, <2>6, <2>7 DEF TypeOK, untouched, Bodies, Resources
  <1>4. ASSUME NEW k \in Keys, CancelDriver(k) \/ Expire(k)
        PROVE  TypeOK'
    BY <1>4 DEF TypeOK, CancelDriver, Expire, untouched, resources, Bodies, Resources
  <1>5. ASSUME NEW r \in Resources, Finish(r) \/ Delete(r)
        PROVE  TypeOK'
    BY <1>5 DEF TypeOK, Finish, Delete, untouched, Bodies, Resources
  <1> QED BY <1>2, <1>3, <1>4, <1>5 DEF Next, CallerStep

(* The three invariants are kept together.                                   *)
LEMMA RegistryStep == RegistryInv /\ [Next]_vars => RegistryInv'
  <1> SUFFICES ASSUME RegistryInv, [Next]_vars PROVE RegistryInv'
    OBVIOUS
  <1> USE DEF RegistryInv
  <1>1. CASE UNCHANGED vars
    BY <1>1 DEF vars, TypeOK, Bodies, Resources, Creations, Resource, Counted, RecordsCounted,
                Records, Settling, Attached, AbandonedIsCancelled, KeyReleased
  <1>2. CASE Next
    <2>1. \/ \E c \in Callers : CallerStep(c)
          \/ \E k \in Keys : Drive(k)
          \/ \/ \E k \in Keys : CancelDriver(k) \/ Expire(k)
             \/ \E r \in Resources : Finish(r) \/ Delete(r)
      BY <1>2 DEF Next, CallerStep
    <2>2. Creations' /\ Counted' /\ owned' \in [Owners -> Nat] /\ Settling'
      BY <2>1, CallerCreations, DriverCreations, OtherCreations, CallerCounted, OtherCounted,
         CallerSettling, OtherSettling
    <2> QED BY <1>2, <2>2, TypeStep
  <1> QED BY <1>1, <1>2

(* They hold while no request has come.                                      *)
LEMMA RegistryInit == Init => RegistryInv
  <1> SUFFICES ASSUME Init PROVE RegistryInv
    OBVIOUS
  <1>1. {MaxEntries, MaxUserEntries, MaxWaiters, MaxCreations} \subseteq Nat
    BY LimitAssumption
  <1>2. TypeOK
    BY <1>1 DEF Init, TypeOK, Bodies, Resources
  <1>3. Creations
    BY DEF Init, Creations, Resource
  <1>4. Records = {} /\ \A o : {k \in Records : OwnerOf[k] = o} = {}
    BY DEF Init, Records
  <1>5. IsFiniteSet({}) /\ Cardinality({}) = 0
    BY FS_EmptySet
  <1>6. Counted
    <2>1. \A o \in Owners : owned[o] = OwnedBy(o, Records) /\ owned[o] <= MaxUserEntries
      BY <1>1, <1>4, <1>5 DEF OwnedBy, Init
    <2>2. \A k \in Keys : IsFiniteSet(waiters[k]) /\ Cardinality(waiters[k]) <= MaxWaiters
      BY <1>1, <1>5 DEF Init
    <2> QED BY <1>1, <1>4, <1>5, <2>1, <2>2 DEF Counted, RecordsCounted, Records
  <1>7. Settling
    BY DEF Init, Settling, Attached, AbandonedIsCancelled, KeyReleased
  <1> QED BY <1>2, <1>3, <1>6, <1>7 DEF RegistryInv

(* Every variable keeps its type in every reachable state.                  *)
THEOREM RegistryTyped == Spec => []TypeOK
  BY RegistryInit, RegistryStep, PTL DEF Spec, RegistryInv

(* Retries never duplicate: however requests of a key join, leave and are   *)
(* cancelled, it never has two resources that live and were not deleted.    *)
THEOREM NeverTwice == Spec => []NoDuplicate
  <1>1. RegistryInv => NoDuplicate
    <2> SUFFICES ASSUME RegistryInv, NEW r \in alive \ deleted, NEW s \in alive \ deleted,
                        r[1] = s[1]
                 PROVE  r = s
      BY DEF NoDuplicate
    <2>1. r[2] = s[2] /\ r \in Keys \X Nat /\ s \in Keys \X Nat
      BY LimitAssumption DEF RegistryInv, Creations, TypeOK, Resources
    <2> QED BY <2>1
  <1> QED BY <1>1, RegistryInit, RegistryStep, PTL DEF Spec

(* owner_counts is always the number of the owner's records, and the limits *)
(* on records, on records of an owner and on waiters hold.                  *)
THEOREM LimitsHold == Spec => []RecordsCounted
  <1>1. RegistryInv => RecordsCounted
    BY DEF RegistryInv, Counted
  <1> QED BY <1>1, RegistryInit, RegistryStep, PTL DEF Spec

(* A creation that nobody waits for is being cancelled, and the caller who  *)
(* left it last is still there to see it cleaned up.                        *)
THEOREM AbandonedCancelled == Spec => []AbandonedIsCancelled
  <1>1. RegistryInv => AbandonedIsCancelled
    BY DEF RegistryInv, Settling
  <1> QED BY <1>1, RegistryInit, RegistryStep, PTL DEF Spec

(* A failed creation keeps its key only while somebody waits or settles.    *)
THEOREM FailureReleases == Spec => []KeyReleased
  <1>1. RegistryInv => KeyReleased
    BY DEF RegistryInv, Settling
  <1> QED BY <1>1, RegistryInit, RegistryStep, PTL DEF Spec

-----------------------------------------------------------------------------
(* KeyedCreation.                                                           *)

(* What lives is of its key's latest creation.                              *)
LEMMA LiveIsLatest ==
  ASSUME TypeOK, Creations
  PROVE  /\ \A r \in alive \ deleted : r[1] \in Keys /\ r = Resource(r[1])
         /\ \A k \in Keys : Keyed!Lives(k) <=> Resource(k) \in alive \ deleted
  <1>1. \A r \in alive : r \in Keys \X Int
    BY LimitAssumption DEF TypeOK, Resources
  <1>2. \A r \in alive \ deleted : r[1] \in Keys /\ r = <<r[1], count[r[1]]>>
    BY <1>1 DEF Creations
  <1> QED BY <1>2 DEF Keyed!Lives, Resource

(* A purge forgets spent keys, when who is attached is among the waiters.   *)
LEMMA PurgeForgets ==
  ASSUME TypeOK, Creations, NEW w, NEW att,
         \A c \in Callers : att[c] # 0 => c \in w[KeyOf[c]]
  PROVE  /\ Purgeable(w) \in SUBSET Keyed!Spent(att)
         /\ \A k \in Keys : Keyed!Forgotten(Purgeable(w))[k] =
                IF ~KeptAfter(w)[k] THEN "free"
                ELSE IF outcome[k] = "pending" THEN "creating" ELSE "settled"
  <1>1. ASSUME NEW k \in Purgeable(w)
        PROVE  k \in Keyed!Spent(att)
    <2>1. k \in Keys /\ kept[k] /\ outcome[k] # "pending" /\ w[k] = {}
      BY DEF Purgeable
    <2>2. k \in Droppable
      BY DEF Purgeable, Droppable
    <2>3. ~Keyed!Lives(k)
      BY <2>1, <2>2, DroppedEnded, LiveIsLatest
    <2> QED BY <2>1, <2>3 DEF Keyed!Spent, StateOf
  <1>2. ASSUME NEW k \in Keys
        PROVE  Keyed!Forgotten(Purgeable(w))[k] =
                 IF ~KeptAfter(w)[k] THEN "free"
                 ELSE IF outcome[k] = "pending" THEN "creating" ELSE "settled"
    BY DEF Keyed!Forgotten, StateOf, KeptAfter, Purgeable
  <1> QED BY <1>1, <1>2

(* Who waits is attached to the latest creation of its key.                 *)
LEMMA AttachedWait ==
  ASSUME Attached, NEW c \in Callers, AttachedTo[c] # 0
  PROVE  c \in waiters[KeyOf[c]]
  BY DEF Attached, AttachedTo

(* The calls that create.                                                   *)
LEMMA CreateKeyed ==
  ASSUME RegistryInv, NEW c \in Callers, Creates(c)
  PROVE  Keyed!Begin(c)
  <1> DEFINE l == KeyOf[c]
             ks == Purgeable(waiters)
  <1>1. l \in Keys /\ TypeOK /\ Creations /\ Attached
    BY ScopeAssumption DEF RegistryInv, Settling
  <1>2. /\ ~KeptAfter(waiters)[l] /\ caller[c] = "out"
        /\ count' = [count EXCEPT ![l] = @ + 1]
        /\ kept' = [KeptAfter(waiters) EXCEPT ![l] = TRUE]
        /\ outcome' = [outcome EXCEPT ![l] = "pending"]
        /\ caller' = [caller EXCEPT ![c] = "waiting"]
        /\ joined' = [joined EXCEPT ![c] = count[l] + 1]
        /\ UNCHANGED <<alive, deleted>>
    BY DEF Creates, Create, resources
  <1>3. /\ ks \in SUBSET Keyed!Spent(AttachedTo)
        /\ \A k \in Keys : Keyed!Forgotten(ks)[k] =
              IF ~KeptAfter(waiters)[k] THEN "free"
              ELSE IF outcome[k] = "pending" THEN "creating" ELSE "settled"
    BY <1>1, AttachedWait, PurgeForgets
  <1>4. /\ DOMAIN kept = Keys /\ DOMAIN outcome = Keys /\ DOMAIN caller = Callers
        /\ DOMAIN joined = Callers /\ DOMAIN KeptAfter(waiters) = Keys
        /\ kept \in [Keys -> BOOLEAN]
    BY <1>1 DEF TypeOK, KeptAfter
  <1> HIDE DEF l, ks
  <1>5. ~Keyed!Lives(l)
    BY <1>1, <1>2, <1>4, PurgeDrops, DroppedEnded, LiveIsLatest DEF Creations
  <1>6. Keyed!Forgotten(ks)[l] = "free"
    BY <1>1, <1>2, <1>3
  <1>7. StateOf' = [Keyed!Forgotten(ks) EXCEPT ![l] = "creating"]
    <2>1. DOMAIN Keyed!Forgotten(ks) = Keys
      BY DEF Keyed!Forgotten
    <2>2. ASSUME NEW k \in Keys
          PROVE  StateOf'[k] = [Keyed!Forgotten(ks) EXCEPT ![l] = "creating"][k]
      BY <1>2, <1>3, <1>4, <2>1 DEF StateOf
    <2> QED BY <2>1, <2>2 DEF StateOf
  <1>8. AttachedTo' = [AttachedTo EXCEPT ![c] = count[l] + 1] /\ AttachedTo[c] = 0
    BY <1>2, <1>4 DEF AttachedTo
  <1> QED BY <1>2, <1>3, <1>5, <1>6, <1>7, <1>8 DEF Keyed!Begin, l

(* The other steps of a caller attach it, let it depart, or only forget.    *)
LEMMA CallerKeyed ==
  ASSUME RegistryInv, RegistryInv', NEW c \in Callers, CallerStep(c)
  PROVE  Keyed!Begin(c) \/ Keyed!Attach(c) \/ Keyed!Depart(c) \/ Keyed!Forget
  <1> DEFINE l == KeyOf[c]
  <1>1. l \in Keys /\ TypeOK /\ Creations /\ Attached /\ Attached'
    BY ScopeAssumption DEF RegistryInv, Settling
  <1>2. CASE Creates(c)
    BY <1>2, CreateKeyed
  <1>3. ASSUME UNCHANGED <<count, outcome, resources>>,
               NEW w, NEW att, kept' = KeptAfter(w),
               \A d \in Callers : att[d] # 0 => d \in w[KeyOf[d]]
        PROVE  \E ks \in SUBSET Keyed!Spent(att) :
                  /\ StateOf' = Keyed!Forgotten(ks)
                  /\ \A k \in Keys : kept'[k] => Keyed!Forgotten(ks)[k] # "free"
    <2>1. /\ Purgeable(w) \in SUBSET Keyed!Spent(att)
          /\ \A k \in Keys : Keyed!Forgotten(Purgeable(w))[k] =
                IF ~KeptAfter(w)[k] THEN "free"
                ELSE IF outcome[k] = "pending" THEN "creating" ELSE "settled"
      BY <1>1, <1>3, PurgeForgets
    <2>2. StateOf' = Keyed!Forgotten(Purgeable(w))
      <3>1. \A k \in Keys : StateOf'[k] = Keyed!Forgotten(Purgeable(w))[k]
        BY <1>3, <2>1 DEF StateOf
      <3> QED BY <3>1 DEF StateOf, Keyed!Forgotten
    <2> QED BY <1>3, <2>1, <2>2
  <1>4. CASE \/ Turned(c, l, KeptAfter(waiters), OwnedAfter(waiters)) /\ caller[c] = "out"
                                                               /\ UNCHANGED resources
             \/ Settled(c)
    <2>1. /\ UNCHANGED <<count, outcome, resources>> /\ kept' = KeptAfter(waiters)
          /\ AttachedTo' = AttachedTo
      BY <1>1, <1>4 DEF Turned, Settled, Done, Purge, record, AttachedTo, TypeOK
    <2>2. \E ks \in SUBSET Keyed!Spent(AttachedTo) : StateOf' = Keyed!Forgotten(ks)
      BY <1>1, <1>3, <2>1, AttachedWait
    <2> QED BY <2>1, <2>2 DEF Keyed!Forget, resources
  <1>5. CASE /\ Join(c, l, KeptAfter(waiters), OwnedAfter(waiters)) /\ caller[c] = "out"
             /\ UNCHANGED resources
    <2>1. /\ UNCHANGED <<count, outcome, resources>> /\ kept' = KeptAfter(waiters)
          /\ KeptAfter(waiters)[l]
          /\ AttachedTo[c] = 0 /\ AttachedTo' = [AttachedTo EXCEPT ![c] = count[l]]
      BY <1>1, <1>5 DEF Join, record, AttachedTo, TypeOK
    <2>2. PICK ks \in SUBSET Keyed!Spent(AttachedTo) :
            /\ StateOf' = Keyed!Forgotten(ks) /\ Keyed!Forgotten(ks)[l] # "free"
      BY <1>1, <1>3, <2>1, AttachedWait
    <2> QED BY <2>1, <2>2 DEF Keyed!Attach, resources
  <1>6. CASE Answer(c) \/ Leave(c)
    <2>1. /\ UNCHANGED <<count, outcome, resources>>
          /\ kept' = KeptAfter(waiters') \/ UNCHANGED kept
          /\ \E x \in {"answered", "settling"} : caller' = [caller EXCEPT ![c] = x]
          /\ UNCHANGED joined \/ joined' = [joined EXCEPT ![c] = 0]
      BY <1>6 DEF Answer, Leave, Done, Purge, record
    <2>2. AttachedTo' = [AttachedTo EXCEPT ![c] = 0]
      <3>1. DOMAIN caller = Callers /\ DOMAIN joined = Callers
        BY <1>1 DEF TypeOK
      <3>2. ASSUME NEW d \in Callers
            PROVE  AttachedTo'[d] = [AttachedTo EXCEPT ![c] = 0][d]
        BY <2>1, <3>1 DEF AttachedTo
      <3> QED BY <3>2 DEF AttachedTo
    <2>3. \E ks \in SUBSET Keyed!Spent(AttachedTo') : StateOf' = Keyed!Forgotten(ks)
      <3>1. CASE kept' = KeptAfter(waiters')
        <4>1. \A d \in Callers : AttachedTo'[d] # 0 => d \in waiters'[KeyOf[d]]
          BY <1>1 DEF Attached, AttachedTo
        <4> QED BY <1>3, <2>1, <3>1, <4>1
      <3>2. CASE UNCHANGED kept
        <4>1. StateOf' = Keyed!Forgotten({})
          BY <2>1, <3>2 DEF StateOf, Keyed!Forgotten
        <4> QED BY <4>1
      <3> QED BY <2>1, <3>1, <3>2
    <2> QED BY <2>1, <2>2, <2>3 DEF Keyed!Depart, resources
  <1>7. \/ Creates(c) \/ Settled(c) \/ Answer(c) \/ Leave(c)
        \/ /\ caller[c] = "out" /\ UNCHANGED resources
           /\ \/ Turned(c, l, KeptAfter(waiters), OwnedAfter(waiters))
              \/ Join(c, l, KeptAfter(waiters), OwnedAfter(waiters))
    BY DEF CallerStep, Arrive, Creates
  <1> QED BY <1>2, <1>4, <1>5, <1>6, <1>7

(* A driver produces and settles what its key's record stands for.          *)
LEMMA DriverKeyed ==
  ASSUME TypeOK, Creations, NEW k \in Keys, Drive(k)
  PROVE  Keyed!Produce(k) \/ Keyed!Settle(k) \/ UNCHANGED Keyed!vars
  <1>1. /\ kept[k] /\ outcome[k] = "pending" /\ driver[k] # "none"
        /\ kept \in [Keys -> BOOLEAN] /\ DOMAIN outcome = Keys
        /\ Resource(k) = <<k, count[k]>>
    BY DEF Drive, DriverDone, Begin, Make, Return, Refuse, Unwind, Unwound, Creations,
           TypeOK, Resource
  <1>2. StateOf[k] = "creating"
    BY <1>1 DEF StateOf
  <1>3. UNCHANGED <<kept, count, AttachedTo, deleted>>
    BY DEF Drive, DriverDone, Begin, Make, Return, Refuse, Unwind, Unwound, untouched,
           resources, AttachedTo
  <1>4. ASSUME UNCHANGED outcome, UNCHANGED alive
        PROVE  UNCHANGED Keyed!vars
    BY <1>3, <1>4 DEF Keyed!vars, StateOf
  <1>5. ASSUME NEW x \in {"value", "refused", "failed", "unknown"},
               outcome' = [outcome EXCEPT ![k] = x],
               alive' \in {alive, alive \ {Resource(k)}}
        PROVE  Keyed!Settle(k)
    <2>1. StateOf' = [StateOf EXCEPT ![k] = "settled"]
      <3>1. ASSUME NEW l \in Keys
            PROVE  StateOf'[l] = [StateOf EXCEPT ![k] = "settled"][l]
        BY <1>1, <1>3, <1>5 DEF StateOf
      <3> QED BY <3>1 DEF StateOf
    <2>2. (alive \ deleted)' \in {alive \ deleted,
                                   (alive \ deleted) \ {<<k, count[k]>>}}
      BY <1>1, <1>3, <1>5
    <2> QED BY <1>2, <1>3, <2>1, <2>2 DEF Keyed!Settle
  <1>6. CASE Begin(k) \/ Unwind(k)
    BY <1>4, <1>6 DEF Begin, Unwind, resources
  <1>7. CASE DriverDone(k) \/ Return(k) \/ Refuse(k)
    BY <1>5, <1>7 DEF DriverDone, Return, Refuse, resources
  <1>8. CASE Unwound(k)
    BY <1>5, <1>8 DEF Unwound, Unexpected
  <1>9. CASE Make(k)
    <2>1. /\ UNCHANGED outcome /\ alive' = alive \cup {<<k, count[k]>>}
          /\ ~Keyed!Lives(k)
      BY <1>1, <1>9, LiveIsLatest DEF Make, Creations
    <2>2. StateOf' = StateOf
      BY <1>3, <2>1 DEF StateOf
    <2>3. \/ (alive \ deleted)' = alive \ deleted
          \/ (alive \ deleted)' = (alive \ deleted) \cup {<<k, count[k]>>}
      BY <1>3, <2>1
    <2> QED BY <1>2, <1>3, <2>1, <2>2, <2>3 DEF Keyed!Produce, Keyed!vars
  <1> QED BY <1>6, <1>7, <1>8, <1>9 DEF Drive

(* The end of a resource is the end of what it is in the specification, or  *)
(* nothing if it was deleted before.                                        *)
LEMMA OtherKeyed ==
  ASSUME \/ \E k \in Keys : CancelDriver(k) \/ Expire(k)
         \/ \E r \in Resources : Finish(r) \/ Delete(r)
  PROVE  (\E r \in alive \ deleted : Keyed!End(r)) \/ UNCHANGED Keyed!vars
  <1>1. UNCHANGED <<count, StateOf, AttachedTo>>
    BY DEF CancelDriver, Expire, Finish, Delete, untouched, resources, StateOf, AttachedTo
  <1>2. \/ (alive \ deleted)' = alive \ deleted
        \/ \E r \in alive \ deleted : (alive \ deleted)' = (alive \ deleted) \ {r}
    BY DEF CancelDriver, Expire, Finish, Delete, untouched, resources
  <1> QED BY <1>1, <1>2 DEF Keyed!End, Keyed!vars

(* Every step of the registry is one of KeyedCreation, or none.             *)
LEMMA KeyedStep ==
  RegistryInv /\ RegistryInv' /\ [Next]_vars => [Keyed!Next]_(Keyed!vars)
  <1> SUFFICES ASSUME RegistryInv, RegistryInv', [Next]_vars
               PROVE  [Keyed!Next]_(Keyed!vars)
    OBVIOUS
  <1>1. CASE UNCHANGED vars
    BY <1>1 DEF vars, Keyed!vars, StateOf, AttachedTo
  <1>2. CASE \E c \in Callers : CallerStep(c)
    BY <1>2, CallerKeyed DEF Keyed!Next
  <1>3. CASE \E k \in Keys : Drive(k)
    BY <1>3, DriverKeyed DEF Keyed!Next, RegistryInv
  <1>4. CASE \/ \E k \in Keys : CancelDriver(k) \/ Expire(k)
             \/ \E r \in Resources : Finish(r) \/ Delete(r)
    BY <1>4, OtherKeyed DEF Keyed!Next
  <1> QED BY <1>1, <1>2, <1>3, <1>4 DEF Next, CallerStep

(* The registry, with its purges, limits and cancellations, is one creation *)
(* at a time per key, forgotten only when nobody waits for it and nothing   *)
(* that it made lives.                                                      *)
THEOREM KeyedImplemented == Spec => ImplementsKeyed
  <1>1. Init => Keyed!Init
    BY DEF Init, Keyed!Init, StateOf, AttachedTo
  <1> QED BY <1>1, RegistryInit, RegistryStep, KeyedStep, PTL
          DEF Spec, ImplementsKeyed, Keyed!Spec
=============================================================================
