-------------------------- MODULE HelperPoolProofs --------------------------
(***************************************************************************)
(* Proofs about HelperPool, for any pool and any set of callers.           *)
(*                                                                         *)
(* OwnInv ties each call's process to the phases in which the call has its *)
(* slot: nothing is forked before the grant, and the slot is not released  *)
(* from a phase in which a process can exist.  SlotsInv counts the slots:  *)
(* it follows the tickets from the request to the release.                 *)
(***************************************************************************)
EXTENDS HelperPool, TLAPS, FiniteSetTheorems, SequenceTheorems

Phases == {"out", "waiting", "holding", "starting", "using", "reaping", "leaving", "done"}
Spawns == {"none", "pending", "done", "failed"}
Helpers == {"none", "alive", "dead"}

Kinds ==
    /\ phase \in [Clients -> Phases]
    /\ spawn \in [Clients -> Spawns]
    /\ helper \in [Clients -> Helpers]

Serving(c) == phase[c] \in {"holding", "starting", "using", "reaping"}

SlotInPhase ==
    \A c \in Clients :
        /\ Serving(c) => c \in granted \ released
        /\ helper[c] = "alive" \/ spawn[c] = "pending" => Serving(c)
        /\ phase[c] \in {"out", "waiting", "holding"} => spawn[c] = "none" /\ helper[c] = "none"
        /\ phase[c] \in {"out", "waiting"} => c \notin released

OwnInv == Kinds /\ SlotInPhase

(* Before the first call nothing is granted.                                *)
LEMMA InitOwn == Init => OwnInv
  BY DEF Init, OwnInv, Kinds, SlotInPhase, Phases, Spawns, Helpers, Serving

(* A step of one call that neither grants nor releases.                     *)
LEMMA QuietOwn ==
  ASSUME OwnInv, NEW c \in Clients,
         \/ Obtain(c) \/ GiveUp(c) \/ Abandon(c) \/ Launch(c) \/ Fork(c)
         \/ SpawnEnds(c) \/ Enter(c) \/ Finish(c) \/ Exit(c)
         \/ Terminate(c) \/ Kill(c) \/ EndReap(c)
  PROVE  OwnInv'
  <1>1. UNCHANGED <<granted, released>>
    BY DEF Obtain, GiveUp, Abandon, Launch, Fork, SpawnEnds, Enter, Finish, Exit,
           Terminate, Kill, EndReap, pool
  <1>2. CASE Obtain(c)
    BY <1>1, <1>2 DEF Obtain, OwnInv, Kinds, SlotInPhase, Serving, Phases
  <1>3. CASE GiveUp(c) \/ Abandon(c)
    BY <1>1, <1>3 DEF GiveUp, Abandon, OwnInv, Kinds, SlotInPhase, Serving, Phases
  <1>4. CASE Launch(c)
    BY <1>1, <1>4 DEF Launch, OwnInv, Kinds, SlotInPhase, Serving, Phases, Spawns
  <1>5. CASE Fork(c)
    BY <1>1, <1>5 DEF Fork, OwnInv, Kinds, SlotInPhase, Serving, Helpers
  <1>6. CASE SpawnEnds(c)
    BY <1>1, <1>6 DEF SpawnEnds, OwnInv, Kinds, SlotInPhase, Serving, Spawns
  <1>7. CASE Enter(c) \/ Finish(c)
    BY <1>1, <1>7 DEF Enter, Finish, OwnInv, Kinds, SlotInPhase, Serving, Phases
  <1>8. CASE Exit(c)
    BY <1>1, <1>8 DEF Exit, OwnInv, Kinds, SlotInPhase, Serving, Helpers
  <1>9. CASE Terminate(c) \/ Kill(c)
    BY <1>1, <1>9 DEF Terminate, Kill, OwnInv, Kinds, SlotInPhase, Serving
  <1>10. CASE EndReap(c)
    BY <1>1, <1>10 DEF EndReap, Reaped, OwnInv, Kinds, SlotInPhase, Serving, Phases
  <1> QED BY <1>2, <1>3, <1>4, <1>5, <1>6, <1>7, <1>8, <1>9, <1>10

(* A request may be granted at once.                                        *)
LEMMA RequestOwn == ASSUME OwnInv, NEW c \in Clients, Request(c) PROVE OwnInv'
  <1>1. /\ phase[c] = "out" /\ released' = released /\ granted \subseteq granted'
        /\ UNCHANGED <<spawn, helper>>
    BY DEF Request
  <1>2. \/ phase' = [phase EXCEPT ![c] = "holding"] /\ c \in granted'
        \/ phase' = [phase EXCEPT ![c] = "done"]
        \/ phase' = [phase EXCEPT ![c] = "waiting"]
    BY DEF Request
  <1> QED BY <1>1, <1>2 DEF OwnInv, Kinds, SlotInPhase, Serving, Phases

(* A release may grant another ticket; the released one has no process.     *)
LEMMA ReleaseOwn == ASSUME OwnInv, NEW c \in Clients, Release(c) PROVE OwnInv'
  <1>1. /\ phase[c] = "leaving" /\ phase' = [phase EXCEPT ![c] = "done"]
        /\ released' = released \cup {c} /\ granted \subseteq granted'
        /\ UNCHANGED <<spawn, helper>>
    BY DEF Release
  <1> QED BY <1>1 DEF OwnInv, Kinds, SlotInPhase, Serving, Phases

(* Every step keeps the invariant.                                          *)
LEMMA NextOwn == OwnInv /\ [Next]_vars => OwnInv'
  <1> SUFFICES ASSUME OwnInv, [Next]_vars PROVE OwnInv' OBVIOUS
  <1>1. CASE UNCHANGED vars
    BY <1>1 DEF vars, OwnInv, Kinds, SlotInPhase, Serving
  <1>2. CASE Next
    BY <1>2, QuietOwn, RequestOwn, ReleaseOwn DEF Next, Reap
  <1> QED BY <1>1, <1>2

(* A helper process exists only while its call has its slot: cancellations  *)
(* and timeouts leave none behind, so at most as many run as slots are held. *)
THEOREM HelpersOwnSlots == Spec => []HelperOwnsSlot
  <1>1. OwnInv => HelperOwnsSlot
    BY DEF OwnInv, SlotInPhase, HelperOwnsSlot, Holders
  <1> QED BY <1>1, InitOwn, NextOwn, PTL DEF Spec

-----------------------------------------------------------------------------
(* Sequences: what deque.remove and deque.popleft leave.                    *)

(* Removing one element leaves the others, in their order.                  *)
LEMMA RemoveAtLeaves ==
  ASSUME NEW S, NEW s \in Seq(S), NEW i \in DOMAIN s
  PROVE  /\ RemoveAt(s, i) \in Seq(S)
         /\ Len(RemoveAt(s, i)) = Len(s) - 1
         /\ \A j \in 1 .. Len(s) - 1 :
               RemoveAt(s, i)[j] = IF j < i THEN s[j] ELSE s[j + 1]
  <1> DEFINE a == SubSeq(s, 1, i - 1)
             b == SubSeq(s, i + 1, Len(s))
  <1>1. /\ Len(s) \in Nat /\ i \in 1 .. Len(s)
        /\ \A j \in 1 .. Len(s) : s[j] \in S
    BY LenProperties, ElementOfSeq
  <1>2. /\ a \in Seq(S) /\ Len(a) = i - 1
        /\ \A j \in 1 .. i - 1 : a[j] = s[j]
    <2>1. 1 \in Int /\ i - 1 \in Int /\ \A j \in 1 .. i - 1 : s[j] \in S
      BY <1>1
    <2> QED BY <1>1, <2>1, SubSeqProperties
  <1>3. /\ b \in Seq(S) /\ Len(b) = Len(s) - i
        /\ \A j \in 1 .. Len(s) - i : b[j] = s[i + j]
    <2>1. i + 1 \in Int /\ Len(s) \in Int /\ \A j \in i + 1 .. Len(s) : s[j] \in S
      BY <1>1
    <2> QED BY <1>1, <2>1, SubSeqProperties
  <1> HIDE DEF a, b
  <1> DEFINE c == a \o b
  <1>4. /\ c \in Seq(S) /\ Len(c) = Len(a) + Len(b)
        /\ \A j \in 1 .. Len(a) + Len(b) :
              c[j] = IF j <= Len(a) THEN a[j] ELSE b[j - Len(a)]
    BY <1>2, <1>3, ConcatProperties
  <1> HIDE DEF c
  <1>5. Len(a) + Len(b) = Len(s) - 1
    BY <1>1, <1>2, <1>3
  <1>6. ASSUME NEW j \in 1 .. Len(s) - 1
        PROVE  c[j] = IF j < i THEN s[j] ELSE s[j + 1]
    <2>1. c[j] = IF j <= Len(a) THEN a[j] ELSE b[j - Len(a)]
      BY <1>4, <1>5
    <2>2. CASE j < i
      BY <2>1, <2>2, <1>1, <1>2
    <2>3. CASE ~(j < i)
      <3>1. j - Len(a) \in 1 .. Len(s) - i /\ i + (j - Len(a)) = j + 1
        BY <2>3, <1>1, <1>2
      <3>2. c[j] = b[j - Len(a)]
        BY <2>1, <2>3, <1>1, <1>2
      <3> QED BY <2>3, <3>1, <3>2, <1>3
    <2> QED BY <2>2, <2>3
  <1> QED BY <1>4, <1>5, <1>6 DEF RemoveAt, a, b, c

(* Taking one element out of a sequence without repetitions leaves the      *)
(* other elements, still without repetitions.                               *)
LEMMA RemoveAtRange ==
  ASSUME NEW S, NEW s \in Seq(S), NEW i \in DOMAIN s, IsInjective(s)
  PROVE  /\ IsInjective(RemoveAt(s, i))
         /\ Range(RemoveAt(s, i)) = Range(s) \ {s[i]}
  <1> DEFINE t == RemoveAt(s, i)
             Old(j) == IF j < i THEN j ELSE j + 1
             New(k) == IF k < i THEN k ELSE k - 1
  <1>1. /\ Len(s) \in Nat /\ DOMAIN s = 1 .. Len(s) /\ i \in 1 .. Len(s)
        /\ DOMAIN t = 1 .. Len(s) - 1
        /\ \A j \in 1 .. Len(s) - 1 : t[j] = s[Old(j)]
    <2>1. /\ t \in Seq(S) /\ Len(t) = Len(s) - 1
          /\ \A j \in 1 .. Len(s) - 1 : t[j] = IF j < i THEN s[j] ELSE s[j + 1]
      BY RemoveAtLeaves
    <2> HIDE DEF t
    <2>2. /\ Len(s) \in Nat /\ DOMAIN s = 1 .. Len(s) /\ i \in 1 .. Len(s)
          /\ DOMAIN t = 1 .. Len(s) - 1
      BY <2>1, LenProperties
    <2> QED BY <2>1, <2>2
  <1> HIDE DEF t
  <1>2. \A j \in 1 .. Len(s) - 1 : Old(j) \in (1 .. Len(s)) \ {i} /\ New(Old(j)) = j
    BY <1>1
  <1>3. \A k \in (1 .. Len(s)) \ {i} : New(k) \in 1 .. Len(s) - 1 /\ Old(New(k)) = k
    BY <1>1
  <1> HIDE DEF Old, New
  <1>4. IsInjective(t)
    BY <1>1, <1>2 DEF IsInjective
  <1>5. Range(t) = Range(s) \ {s[i]}
    <2>1. ASSUME NEW e \in Range(t) PROVE e \in Range(s) \ {s[i]}
      <3>1. PICK j \in 1 .. Len(s) - 1 : e = s[Old(j)]
        BY <1>1 DEF Range
      <3> QED BY <3>1, <1>1, <1>2 DEF Range, IsInjective
    <2>2. ASSUME NEW e \in Range(s) \ {s[i]} PROVE e \in Range(t)
      <3>1. PICK k \in (1 .. Len(s)) \ {i} : e = s[k]
        BY <1>1 DEF Range
      <3>2. New(k) \in DOMAIN t /\ t[New(k)] = e
        BY <3>1, <1>1, <1>3
      <3> QED BY <3>2 DEF Range
    <2> QED BY <2>1, <2>2
  <1> QED BY <1>4, <1>5 DEF t

(* A ticket appended, or the oldest one taken.                              *)
LEMMA AppendRange ==
  ASSUME NEW S, NEW s \in Seq(S), NEW e \in S
  PROVE  /\ Range(Append(s, e)) = Range(s) \cup {e}
         /\ IsInjective(s) /\ e \notin Range(s) => IsInjective(Append(s, e))
  <1> DEFINE t == Append(s, e)
  <1>1. /\ Len(s) \in Nat /\ DOMAIN s = 1 .. Len(s) /\ DOMAIN t = 1 .. Len(s) + 1
        /\ \A j \in 1 .. Len(s) : t[j] = s[j]
        /\ t[Len(s) + 1] = e
    <2>1. t \in Seq(S) /\ Len(t) = Len(s) + 1
      BY AppendProperties
    <2> QED BY <2>1, LenProperties, AppendProperties
  <1> HIDE DEF t
  <1>2. Range(t) = Range(s) \cup {e}
    <2>1. Range(t) \subseteq Range(s) \cup {e}
      BY <1>1 DEF Range
    <2>2. \A j \in DOMAIN s : j \in DOMAIN t /\ t[j] = s[j]
      BY <1>1
    <2>3. Len(s) + 1 \in DOMAIN t
      BY <1>1
    <2> QED BY <2>1, <2>2, <2>3, <1>1 DEF Range
  <1>3. ASSUME IsInjective(s), e \notin Range(s) PROVE IsInjective(t)
    <2>1. \A j \in 1 .. Len(s) : t[j] # e
      BY <1>1, <1>3 DEF Range
    <2> QED BY <1>1, <1>3, <2>1 DEF IsInjective
  <1> QED BY <1>2, <1>3 DEF t

(* Taking the oldest ticket is taking the one at the first place.           *)
LEMMA TailIsRemoveAt ==
  ASSUME NEW S, NEW s \in Seq(S), s # <<>>
  PROVE  /\ 1 \in DOMAIN s /\ Head(s) = s[1]
         /\ Tail(s) = RemoveAt(s, 1)
  <1>1. Len(s) \in Nat \ {0} /\ DOMAIN s = 1 .. Len(s)
    BY EmptySeq, LenProperties
  <1>2. 1 \in DOMAIN s
    BY <1>1
  <1>3. Tail(s) \in Seq(S) /\ Len(Tail(s)) = Len(s) - 1
        /\ \A j \in 1 .. Len(s) - 1 : Tail(s)[j] = s[j + 1]
    BY HeadTailProperties
  <1>4. RemoveAt(s, 1) \in Seq(S) /\ Len(RemoveAt(s, 1)) = Len(s) - 1
        /\ \A j \in 1 .. Len(s) - 1 : RemoveAt(s, 1)[j] = s[j + 1]
    <2>1. /\ RemoveAt(s, 1) \in Seq(S) /\ Len(RemoveAt(s, 1)) = Len(s) - 1
          /\ \A j \in 1 .. Len(s) - 1 :
                RemoveAt(s, 1)[j] = IF j < 1 THEN s[j] ELSE s[j + 1]
      BY <1>2, RemoveAtLeaves
    <2>2. \A j \in 1 .. Len(s) - 1 : ~(j < 1)
      BY <1>1
    <2> QED BY <2>1, <2>2
  <1>5. Tail(s) = RemoveAt(s, 1)
    BY <1>3, <1>4, SeqEqual
  <1>6. Head(s) = s[1]
    BY <1>1
  <1> QED BY <1>2, <1>5, <1>6

-----------------------------------------------------------------------------
(***************************************************************************)
(* The count of slots.  SlotsCounted is not inductive alone: that a call   *)
(* which asks for a slot has no ticket yet, that only a call that left was *)
(* released, and that a ticket in the queue belongs to a call that waits   *)
(* or gave up is what Tickets adds.                                        *)
(***************************************************************************)
Tickets ==
    /\ \A c \in Clients : phase[c] = "out" => c \notin granted
    /\ \A c \in Clients : phase[c] # "done" => c \notin released
    /\ \A c \in Range(waiting) : phase[c] \in {"waiting", "leaving"}

SlotsInv == TypeOK /\ SlotsCounted /\ Tickets

(* Tickets are of known calls, so the holders can be counted.               *)
LEMMA HoldersFinite ==
  ASSUME granted \subseteq Clients
  PROVE  IsFiniteSet(Holders) /\ Cardinality(Holders) \in Nat
  <1>1. Holders \in SUBSET Clients
    BY DEF Holders
  <1> QED BY <1>1, PoolAssumption, FS_Subset, FS_CardinalityType

(* A step of one call that neither grants nor releases: its call was not    *)
(* out, and it leaves the queue's phases only when its ticket is granted.   *)
LEMMA QuietSlots ==
  ASSUME SlotsInv, NEW c \in Clients,
         \/ Obtain(c) \/ GiveUp(c) \/ Abandon(c) \/ Launch(c) \/ Fork(c)
         \/ SpawnEnds(c) \/ Enter(c) \/ Finish(c) \/ Exit(c)
         \/ Terminate(c) \/ Kill(c) \/ EndReap(c)
  PROVE  SlotsInv'
  <1>1. UNCHANGED pool
    BY DEF Obtain, GiveUp, Abandon, Launch, Fork, SpawnEnds, Enter, Finish, Exit,
           Terminate, Kill, EndReap
  <1>2. SlotsCounted'
    BY <1>1 DEF pool, SlotsInv, SlotsCounted, Holders
  <1>3. TypeOK'
    BY <1>1 DEF pool, SlotsInv, TypeOK, Obtain, GiveUp, Abandon, Launch, Fork,
                SpawnEnds, Enter, Finish, Exit, Terminate, Kill, LastSignal, EndReap
  <1>4. Tickets'
    <2>1. \/ UNCHANGED phase
          \/ \E p \in {"holding", "starting", "using", "reaping", "leaving"} :
                /\ phase' = [phase EXCEPT ![c] = p]
                /\ phase[c] \notin {"out", "done"}
                /\ c \in Range(waiting) => p = "leaving"
      BY DEF SlotsInv, Tickets, SlotsCounted, Obtain, GiveUp, Abandon, Launch, Fork,
             SpawnEnds, Enter, Finish, Exit, Terminate, Kill, EndReap
    <2>2. /\ phase \in [Clients -> Phases] /\ Range(waiting) \subseteq Clients
          /\ Tickets /\ UNCHANGED <<waiting, granted, released>>
      BY <1>1, RangeOfSeq DEF pool, SlotsInv, TypeOK, Phases
    <2>3. CASE UNCHANGED phase
      BY <2>2, <2>3 DEF Tickets
    <2>4. CASE ~ UNCHANGED phase
      <3>1. PICK p \in {"holding", "starting", "using", "reaping", "leaving"} :
              /\ phase' = [phase EXCEPT ![c] = p]
              /\ phase[c] \notin {"out", "done"}
              /\ c \in Range(waiting) => p = "leaving"
        BY <2>1, <2>4
      <3>2. \A d \in Clients : phase'[d] = IF d = c THEN p ELSE phase[d]
        BY <2>2, <3>1
      <3>3. \A d \in Range(waiting) : phase'[d] \in {"waiting", "leaving"}
        BY <2>2, <3>1, <3>2 DEF Tickets
      <3> QED BY <2>2, <3>1, <3>2, <3>3 DEF Tickets
    <2> QED BY <2>3, <2>4
  <1> QED BY <1>2, <1>3, <1>4 DEF SlotsInv

(* A request takes a free slot, is refused, or queues when none is free.    *)
LEMMA RequestSlots == ASSUME SlotsInv, NEW c \in Clients, Request(c) PROVE SlotsInv'
  <1> USE DEF SlotsInv
  <1>1. /\ c \notin granted \cup released /\ c \notin Range(waiting)
        /\ waiting \in Seq(Clients) /\ granted \subseteq Clients
        /\ phase \in [Clients -> Phases] /\ active \in Nat /\ Slots \in Nat
    BY PoolAssumption DEF Request, Tickets, TypeOK, Phases
  <1>2. IsFiniteSet(Holders) /\ Cardinality(Holders) \in Nat
    BY <1>1, HoldersFinite
  <1>3. CASE /\ Free /\ active' = active + 1 /\ granted' = granted \cup {c}
             /\ phase' = [phase EXCEPT ![c] = "holding"] /\ UNCHANGED waiting
    <2>1. Holders' = Holders \cup {c}
      BY <1>1, <1>3 DEF Holders, Request
    <2>2. Cardinality(Holders') = Cardinality(Holders) + 1
      BY <2>1, <1>1, <1>2, FS_AddElement DEF Holders
    <2>3. SlotsCounted'
      BY <2>2, <1>1, <1>3 DEF SlotsCounted, Free, Request, TypeOK
    <2>4. TypeOK'
      BY <1>1, <1>3 DEF TypeOK, Free, Request
    <2> QED BY <1>1, <1>3, <2>3, <2>4 DEF Tickets, Request
  <1>4. CASE /\ phase' = [phase EXCEPT ![c] = "done"]
             /\ UNCHANGED <<active, waiting, granted>>
    <2>1. SlotsCounted' /\ TypeOK'
      BY <1>4 DEF SlotsCounted, Holders, Request, TypeOK
    <2> QED BY <1>1, <1>4, <2>1 DEF Tickets, Request
  <1>5. CASE /\ ~Free /\ Len(waiting) < MaxWaiting /\ waiting' = Append(waiting, c)
             /\ phase' = [phase EXCEPT ![c] = "waiting"] /\ UNCHANGED <<active, granted>>
    <2>1. /\ Range(waiting') = Range(waiting) \cup {c} /\ IsInjective(waiting')
          /\ waiting' \in Seq(Clients) /\ Len(waiting') = Len(waiting) + 1
      BY <1>1, <1>5, AppendRange, AppendProperties DEF SlotsCounted
    <2>2. SlotsCounted'
      BY <2>1, <1>1, <1>5 DEF SlotsCounted, Holders, Free, Request, TypeOK
    <2>3. TypeOK'
      <3>1. Len(waiting') <= MaxWaiting
        BY <2>1, <1>5, <1>1, LenProperties, PoolAssumption
      <3> QED BY <2>1, <3>1, <1>5 DEF TypeOK, Request
    <2>4. Tickets'
      BY <2>1, <1>1, <1>5 DEF Tickets, Request
    <2> QED BY <2>2, <2>3, <2>4
  <1> QED BY <1>3, <1>4, <1>5 DEF Request

(* A release ends one call's claim: its ticket leaves the queue, or its     *)
(* slot goes to the oldest ticket, or the slot is free again.               *)
LEMMA ReleaseSlots == ASSUME SlotsInv, NEW c \in Clients, Release(c) PROVE SlotsInv'
  <1> USE DEF SlotsInv
  <1>1. /\ phase[c] = "leaving" /\ phase' = [phase EXCEPT ![c] = "done"]
        /\ c \notin released /\ released' = released \cup {c}
        /\ waiting \in Seq(Clients) /\ granted \subseteq Clients
        /\ phase \in [Clients -> Phases] /\ active \in Nat /\ Slots \in Nat
        /\ UNCHANGED <<spawn, helper, signal>>
        /\ Len(waiting) \in Nat /\ MaxWaiting \in Nat
    BY PoolAssumption, LenProperties DEF Release, Tickets, TypeOK, Phases
  <1>2. IsFiniteSet(Holders) /\ Cardinality(Holders) \in Nat
    BY <1>1, HoldersFinite
  <1>3. CASE c \notin granted
    <2>1. PICK i \in DOMAIN waiting : waiting[i] = c /\ waiting' = RemoveAt(waiting, i)
      BY <1>3 DEF Release
    <2>2. UNCHANGED <<active, granted>>
      BY <1>3 DEF Release
    <2>3. /\ waiting' \in Seq(Clients) /\ Len(waiting') = Len(waiting) - 1
          /\ IsInjective(waiting') /\ Range(waiting') = Range(waiting) \ {c}
      BY <2>1, <1>1, RemoveAtLeaves, RemoveAtRange DEF SlotsCounted
    <2>4. waiting # <<>>
      BY <2>1, <1>1, EmptySeq, LenProperties
    <2>5. Holders' = Holders
      BY <1>1, <1>3, <2>2 DEF Holders
    <2>6. SlotsCounted'
      BY <2>2, <2>3, <2>4, <2>5, <1>1 DEF SlotsCounted
    <2>7. TypeOK'
      BY <2>2, <2>3, <1>1 DEF TypeOK
    <2>8. Tickets'
      BY <2>2, <2>3, <1>1 DEF Tickets
    <2> QED BY <2>6, <2>7, <2>8
  <1>4. CASE c \in granted /\ waiting # <<>>
    <2> DEFINE d == Head(waiting)
    <2>1. granted' = granted \cup {d} /\ waiting' = Tail(waiting) /\ UNCHANGED active
      BY <1>4 DEF Release, Waiters
    <2>2. /\ 1 \in DOMAIN waiting /\ d = waiting[1] /\ Tail(waiting) = RemoveAt(waiting, 1)
      BY <1>1, <1>4, TailIsRemoveAt
    <2> HIDE DEF d
    <2>3. d \in Range(waiting) /\ d \in Clients
      BY <2>2, <1>1, ElementOfSeq, LenProperties DEF Range
    <2>4. /\ waiting' \in Seq(Clients) /\ Len(waiting') = Len(waiting) - 1
          /\ IsInjective(waiting') /\ Range(waiting') = Range(waiting) \ {d}
      <3>1. IsInjective(waiting) /\ waiting' = RemoveAt(waiting, 1)
        BY <2>1, <2>2 DEF SlotsCounted
      <3>2. 1 \in DOMAIN waiting /\ waiting \in Seq(Clients)
        BY <2>2, <1>1
      <3> QED BY <3>1, <3>2, <2>2, RemoveAtLeaves, RemoveAtRange
    <2>5. d \notin granted \cup released /\ c \in Holders /\ c # d
      BY <2>3, <1>1, <1>4 DEF SlotsCounted, Holders
    <2>6. Holders' = (Holders \ {c}) \cup {d}
      BY <2>1, <2>5, <1>1 DEF Holders
    <2>7. Cardinality(Holders') = Cardinality(Holders)
      <3>1. /\ IsFiniteSet(Holders \ {c})
            /\ Cardinality(Holders \ {c}) = Cardinality(Holders) - 1
        BY <2>5, <1>2, FS_RemoveElement
      <3>2. d \notin Holders \ {c}
        BY <2>5 DEF Holders
      <3> QED BY <3>1, <3>2, <2>6, <1>2, FS_AddElement
    <2>8. SlotsCounted'
      BY <2>1, <2>4, <2>5, <2>7, <1>1, <1>4 DEF SlotsCounted
    <2>9. TypeOK'
      BY <2>1, <2>3, <2>4, <1>1 DEF TypeOK
    <2>10. Tickets'
      BY <2>1, <2>3, <2>4, <1>1, <1>4 DEF Tickets, SlotsCounted
    <2> QED BY <2>8, <2>9, <2>10
  <1>5. CASE c \in granted /\ waiting = <<>>
    <2>1. active' = active - 1 /\ UNCHANGED <<waiting, granted>>
      BY <1>5 DEF Release, Waiters
    <2>2. Holders' = Holders \ {c} /\ c \in Holders
      BY <2>1, <1>1, <1>5 DEF Holders
    <2>3. Cardinality(Holders') = Cardinality(Holders) - 1 /\ Cardinality(Holders') \in Nat
      BY <2>2, <1>2, FS_RemoveElement, FS_CardinalityType
    <2>4. Range(waiting) = {}
      BY <1>5, <1>1, EmptySeq, LenProperties DEF Range
    <2>5. SlotsCounted'
      BY <2>1, <2>3, <2>4, <1>1, <1>5 DEF SlotsCounted
    <2>6. TypeOK'
      BY <2>1, <2>3, <1>1 DEF TypeOK, SlotsCounted
    <2>7. Tickets'
      BY <2>1, <2>4, <1>1 DEF Tickets
    <2> QED BY <2>5, <2>6, <2>7
  <1> QED BY <1>3, <1>4, <1>5

(* Every step keeps the invariant.                                          *)
LEMMA NextSlots == SlotsInv /\ [Next]_vars => SlotsInv'
  <1> SUFFICES ASSUME SlotsInv, [Next]_vars PROVE SlotsInv' OBVIOUS
  <1>1. CASE UNCHANGED vars
    BY <1>1 DEF vars, SlotsInv, TypeOK, SlotsCounted, Tickets, Holders
  <1>2. CASE Next
    BY <1>2, QuietSlots, RequestSlots, ReleaseSlots DEF Next, Reap
  <1> QED BY <1>1, <1>2

(* An empty pool has no holders and no queue.                               *)
LEMMA InitSlots == Init => SlotsInv
  <1> SUFFICES ASSUME Init PROVE SlotsInv OBVIOUS
  <1>1. waiting \in Seq(Clients) /\ Len(waiting) = 0 /\ DOMAIN waiting = {}
    BY EmptySeq, LenProperties DEF Init
  <1>2. TypeOK
    BY <1>1, PoolAssumption DEF Init, TypeOK
  <1>3. Holders = {} /\ Cardinality(Holders) = 0
    BY FS_EmptySet DEF Init, Holders
  <1>4. SlotsCounted
    BY <1>1, <1>3 DEF Init, SlotsCounted, IsInjective, Range
  <1>5. Tickets
    BY <1>1 DEF Init, Tickets, Range
  <1> QED BY <1>2, <1>4, <1>5 DEF SlotsInv

(* Every variable keeps its type: the pool never hands out more slots than  *)
(* it has, and never queues more callers than it may.                       *)
THEOREM PoolTyped == Spec => []TypeOK
  BY InitSlots, NextSlots, PTL DEF Spec, SlotsInv

(* No slot is lost or handed out twice, however grants, timeouts and        *)
(* cancellations of any number of callers meet; and nobody waits while a    *)
(* slot is free.                                                            *)
THEOREM SlotsAddUp == Spec => []SlotsCounted
  <1>1. SlotsInv => SlotsCounted
    BY DEF SlotsInv
  <1> QED BY <1>1, InitSlots, NextSlots, PTL DEF Spec
=============================================================================
