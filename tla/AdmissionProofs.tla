--------------------------- MODULE AdmissionProofs ---------------------------
(***************************************************************************)
(* Theorems about Admission for every set of requests, owners and budgets. *)
(*                                                                         *)
(* Three invariants, each on top of the one before it: BudgetInv, from     *)
(* which the refinement of ComputeBudget follows as well; QueueInv, that   *)
(* the parts of the queue agree, from which the order of grants follows;   *)
(* WakeInv, that the worker does not sleep while somebody could be served. *)
(***************************************************************************)
EXTENDS Admission, TLAPS, FiniteSetTheorems, SequenceTheorems

-----------------------------------------------------------------------------
(* Sequences: what the operations of a deque return.                        *)

(* Removing one element shifts the later ones down by one.                  *)
LEMMA RemoveAtProperties ==
    ASSUME NEW S, NEW s \in Seq(S), NEW i \in DOMAIN s
    PROVE  /\ RemoveAt(s, i) \in Seq(S)
           /\ Len(RemoveAt(s, i)) = Len(s) - 1
           /\ \A j \in DOMAIN RemoveAt(s, i) :
                 RemoveAt(s, i)[j] = IF j < i THEN s[j] ELSE s[j + 1]
<1>0. /\ Len(s) \in Nat /\ DOMAIN s = 1 .. Len(s) /\ i \in 1 .. Len(s)
      /\ \A j \in 1 .. Len(s) : s[j] \in S
  BY LenProperties, ElementOfSeq
<1> DEFINE a == SubSeq(s, 1, i - 1)
           b == SubSeq(s, i + 1, Len(s))
<1>1. /\ a \in Seq(S) /\ Len(a) = i - 1
      /\ \A j \in 1 .. i - 1 : a[j] = s[j]
  <2>1. \A j \in 1 .. i - 1 : s[j] \in S
    BY <1>0
  <2> QED BY <1>0, <2>1, SubSeqProperties
<1>2. /\ b \in Seq(S) /\ Len(b) = Len(s) - i
      /\ \A j \in 1 .. Len(s) - i : b[j] = s[j + i]
  <2>1. \A j \in i + 1 .. Len(s) : s[j] \in S
    BY <1>0
  <2> QED BY <1>0, <2>1, SubSeqProperties
<1> DEFINE c == a \o b
<1>3. RemoveAt(s, i) = c
  BY DEF RemoveAt
<1> HIDE DEF a, b
<1>4. /\ c \in Seq(S) /\ Len(c) = Len(a) + Len(b)
      /\ \A j \in 1 .. Len(a) + Len(b) :
            c[j] = IF j <= Len(a) THEN a[j] ELSE b[j - Len(a)]
  BY <1>1, <1>2, ConcatProperties
<1> HIDE DEF c
<1>5. Len(c) = Len(s) - 1
  BY <1>0, <1>1, <1>2, <1>4
<1>6. DOMAIN c = 1 .. Len(c)
  BY <1>4, LenProperties
<1>7. ASSUME NEW j \in 1 .. Len(s) - 1
      PROVE  c[j] = IF j < i THEN s[j] ELSE s[j + 1]
  <2>0. c[j] = IF j <= Len(a) THEN a[j] ELSE b[j - Len(a)]
    BY <1>0, <1>1, <1>2, <1>4
  <2>1. CASE j < i
    BY <2>0, <2>1, <1>0, <1>1
  <2>2. CASE ~(j < i)
    <3>1. j - Len(a) \in 1 .. Len(s) - i /\ j - Len(a) + i = j + 1
      BY <2>2, <1>0, <1>1
    <3>2. c[j] = b[j - Len(a)]
      BY <2>0, <2>2, <1>0, <1>1
    <3> QED BY <2>2, <3>1, <3>2, <1>2
  <2> QED BY <2>1, <2>2
<1> QED BY <1>3, <1>4, <1>5, <1>6, <1>7

(* A sequence with an element inserted before its last is a sequence.       *)
LEMMA InsertAtType ==
    ASSUME NEW S, NEW s \in Seq(S), s # <<>>, NEW e \in S
    PROVE  InsertAt(s, Len(s), e) \in Seq(S)
<1>1. Len(s) \in Nat /\ \A j \in 1 .. Len(s) : s[j] \in S
  BY LenProperties, ElementOfSeq
<1>2. Len(s) >= 1
  BY EmptySeq, <1>1
<1>3. SubSeq(s, 1, Len(s) - 1) \in Seq(S)
  BY <1>1, SubSeqProperties
<1>4. SubSeq(s, Len(s), Len(s)) \in Seq(S)
  BY <1>1, <1>2, SubSeqProperties
<1>5. <<e>> \in Seq(S)
  OBVIOUS
<1> QED BY <1>3, <1>4, <1>5, ConcatProperties DEF InsertAt

(* Rotating the ring yields a ring.                                         *)
LEMMA RotatedType ==
    ASSUME ring \in Seq(Owners), NEW i \in DOMAIN ring
    PROVE  Rotated(i) \in Seq(Owners)
<1>1. /\ Len(ring) \in Nat /\ i \in 1 .. Len(ring)
      /\ \A j \in 1 .. Len(ring) : ring[j] \in Owners
  BY LenProperties, ElementOfSeq
<1>2. SubSeq(ring, i + 1, Len(ring)) \in Seq(Owners)
  BY <1>1, SubSeqProperties
<1>3. SubSeq(ring, 1, i) \in Seq(Owners)
  BY <1>1, SubSeqProperties
<1> QED BY <1>2, <1>3, ConcatProperties DEF Rotated

(* An element between the others and the last of a sequence shifts the last *)
(* one, as EnterRing does for the owner served last.                        *)
LEMMA InsertAtIs ==
    ASSUME NEW S, NEW s \in Seq(S), s # <<>>, NEW e \in S
    PROVE  LET t == InsertAt(s, Len(s), e) IN
           /\ DOMAIN s = 1 .. Len(s) /\ Len(s) \in Nat \ {0}
           /\ DOMAIN t = 1 .. Len(s) + 1
           /\ \A j \in 1 .. Len(s) - 1 : t[j] = s[j]
           /\ t[Len(s)] = e /\ t[Len(s) + 1] = s[Len(s)]
<1> DEFINE n == Len(s)
           a == SubSeq(s, 1, n - 1)
           b == SubSeq(s, n, n)
           c == a \o <<e>>
           t == InsertAt(s, n, e)
<1>1. n \in Nat \ {0} /\ DOMAIN s = 1 .. n /\ \A j \in 1 .. n : s[j] \in S
  BY LenProperties, ElementOfSeq, EmptySeq
<1>2. a \in Seq(S) /\ Len(a) = n - 1 /\ \A j \in 1 .. n - 1 : a[j] = s[j]
  BY <1>1, SubSeqProperties
<1>3. b \in Seq(S) /\ Len(b) = 1 /\ b[1] = s[n]
  BY <1>1, SubSeqProperties
<1>4. t = c \o b
  BY DEF InsertAt
<1> HIDE DEF n, a, b, t
<1>5. /\ c \in Seq(S) /\ Len(c) = n
      /\ \A j \in 1 .. n - 1 : c[j] = s[j]
      /\ c[n] = e
  <2>1. <<e>> \in Seq(S) /\ Len(<<e>>) = 1 /\ <<e>>[1] = e
    OBVIOUS
  <2>2. /\ c \in Seq(S) /\ Len(c) = Len(a) + 1
        /\ \A j \in 1 .. Len(a) + 1 : c[j] = IF j <= Len(a) THEN a[j] ELSE <<e>>[j - Len(a)]
    BY <1>2, <2>1, ConcatProperties
  <2> HIDE DEF c
  <2>3. c[n] = <<e>>[1]
    BY <1>1, <1>2, <2>2
  <2> QED BY <1>1, <1>2, <2>1, <2>2, <2>3
<1> HIDE DEF c
<1>6. /\ t \in Seq(S) /\ Len(t) = n + 1
      /\ \A j \in 1 .. n + 1 : t[j] = IF j <= n THEN c[j] ELSE b[j - n]
  <2>1. /\ c \o b \in Seq(S) /\ Len(c \o b) = Len(c) + Len(b)
        /\ \A j \in 1 .. Len(c) + Len(b) :
              (c \o b)[j] = IF j <= Len(c) THEN c[j] ELSE b[j - Len(c)]
    BY <1>3, <1>5, ConcatProperties
  <2> QED BY <1>3, <1>4, <1>5, <2>1
<1>7. t[n + 1] = b[1] /\ t[n] = c[n] /\ \A j \in 1 .. n - 1 : t[j] = c[j]
  BY <1>1, <1>6
<1>8. DOMAIN t = 1 .. n + 1
  BY <1>6, LenProperties
<1> QED BY <1>1, <1>3, <1>5, <1>7, <1>8 DEF n, t

(* Where the owners of the ring go in a rotation.                           *)
LEMMA RotatedIs ==
    ASSUME ring \in Seq(Owners), NEW i \in DOMAIN ring
    PROVE  /\ DOMAIN ring = 1 .. Len(ring) /\ Len(ring) \in Nat /\ i \in 1 .. Len(ring)
           /\ Len(Rotated(i)) = Len(ring)
           /\ DOMAIN Rotated(i) = 1 .. Len(ring)
           /\ \A j \in 1 .. Len(ring) :
                 Rotated(i)[j] = IF j <= Len(ring) - i THEN ring[j + i]
                                 ELSE ring[j - (Len(ring) - i)]
<1> DEFINE n == Len(ring)
           a == SubSeq(ring, i + 1, n)
           b == SubSeq(ring, 1, i)
<1>1. n \in Nat /\ DOMAIN ring = 1 .. n /\ i \in 1 .. n /\ \A j \in 1 .. n : ring[j] \in Owners
  BY LenProperties, ElementOfSeq
<1>2. a \in Seq(Owners) /\ Len(a) = n - i /\ \A j \in 1 .. n - i : a[j] = ring[j + i]
  <2>1. \A j \in i + 1 .. n : ring[j] \in Owners
    BY <1>1
  <2> QED BY <1>1, <2>1, SubSeqProperties
<1>3. b \in Seq(Owners) /\ Len(b) = i /\ \A j \in 1 .. i : b[j] = ring[j]
  <2>1. \A j \in 1 .. i : ring[j] \in Owners
    BY <1>1
  <2> QED BY <1>1, <2>1, SubSeqProperties
<1>4. Rotated(i) = a \o b
  BY DEF Rotated
<1> HIDE DEF n, a, b
<1>5. /\ Rotated(i) \in Seq(Owners) /\ Len(Rotated(i)) = Len(a) + Len(b)
      /\ \A j \in 1 .. Len(a) + Len(b) :
            Rotated(i)[j] = IF j <= Len(a) THEN a[j] ELSE b[j - Len(a)]
  <2>1. /\ a \o b \in Seq(Owners) /\ Len(a \o b) = Len(a) + Len(b)
        /\ \A j \in 1 .. Len(a) + Len(b) :
              (a \o b)[j] = IF j <= Len(a) THEN a[j] ELSE b[j - Len(a)]
    BY <1>2, <1>3, ConcatProperties
  <2> QED BY <1>4, <2>1
<1>6. Len(Rotated(i)) = n /\ DOMAIN Rotated(i) = 1 .. n
  BY <1>1, <1>2, <1>3, <1>5, LenProperties
<1>7. ASSUME NEW j \in 1 .. n
      PROVE  Rotated(i)[j] = IF j <= n - i THEN ring[j + i] ELSE ring[j - (n - i)]
  <2>1. Rotated(i)[j] = IF j <= n - i THEN a[j] ELSE b[j - (n - i)]
    BY <1>1, <1>2, <1>3, <1>5
  <2>2. CASE j <= n - i
    BY <1>1, <1>2, <2>1, <2>2
  <2>3. CASE ~(j <= n - i)
    <3>1. j - (n - i) \in 1 .. i
      BY <1>1, <2>3
    <3> QED BY <1>3, <2>1, <2>3, <3>1
  <2> QED BY <2>2, <2>3
<1> QED BY <1>1, <1>6, <1>7 DEF n


(* What a deque without duplicates holds after each of these operations:    *)
(* one element less ...                                                     *)
LEMMA RemoveAtUnique ==
    ASSUME NEW S, NEW s \in Seq(S), NEW i \in DOMAIN s, IsInjective(s)
    PROVE  /\ IsInjective(RemoveAt(s, i))
           /\ Range(RemoveAt(s, i)) = Range(s) \ {s[i]}
<1> DEFINE t == RemoveAt(s, i)
           old(j) == IF j < i THEN j ELSE j + 1
           new(k) == IF k < i THEN k ELSE k - 1
<1>1. /\ Len(s) \in Nat /\ DOMAIN s = 1 .. Len(s) /\ i \in 1 .. Len(s)
      /\ t \in Seq(S) /\ Len(t) = Len(s) - 1
      /\ \A j \in DOMAIN t : t[j] = IF j < i THEN s[j] ELSE s[j + 1]
  BY RemoveAtProperties, LenProperties
<1> HIDE DEF t
<1>2. DOMAIN t = 1 .. Len(s) - 1 /\ \A j \in 1 .. Len(s) - 1 : t[j] = s[old(j)]
  <2>1. DOMAIN t = 1 .. Len(s) - 1
    BY <1>1, LenProperties
  <2> QED BY <1>1, <2>1
<1>3. \A j \in 1 .. Len(s) - 1 : old(j) \in (1 .. Len(s)) \ {i} /\ new(old(j)) = j
  BY <1>1
<1>4. \A k \in (1 .. Len(s)) \ {i} : new(k) \in 1 .. Len(s) - 1 /\ old(new(k)) = k
  BY <1>1
<1> HIDE DEF old, new
<1>5. IsInjective(t)
  BY <1>1, <1>2, <1>3 DEF IsInjective
<1>6. Range(t) \subseteq Range(s) \ {s[i]}
  BY <1>1, <1>2, <1>3 DEF Range, IsInjective
<1>7. ASSUME NEW k \in (1 .. Len(s)) \ {i} PROVE s[k] \in Range(t)
  <2>1. new(k) \in DOMAIN t /\ t[new(k)] = s[k]
    BY <1>2, <1>4
  <2> QED BY <2>1 DEF Range
<1>8. Range(s) \ {s[i]} \subseteq Range(t)
  BY <1>1, <1>7 DEF Range
<1> QED BY <1>5, <1>6, <1>8 DEF t

(* ... one more at its end ...                                              *)
LEMMA AppendUnique ==
    ASSUME NEW S, NEW s \in Seq(S), NEW e \in S, IsInjective(s), e \notin Range(s)
    PROVE  /\ IsInjective(Append(s, e)) /\ Range(Append(s, e)) = Range(s) \cup {e}
           /\ Len(Append(s, e)) = Len(s) + 1
<1> DEFINE t == Append(s, e)
<1>1. /\ Len(s) \in Nat /\ DOMAIN s = 1 .. Len(s) /\ Len(t) = Len(s) + 1
      /\ DOMAIN t = 1 .. Len(s) + 1
      /\ \A j \in 1 .. Len(s) : t[j] = s[j]
      /\ t[Len(s) + 1] = e
  <2>1. t \in Seq(S) /\ Len(t) = Len(s) + 1
    BY AppendProperties
  <2> QED BY <2>1, LenProperties, AppendProperties
<1> HIDE DEF t
<1>2. \A j \in 1 .. Len(s) : s[j] # e
  BY <1>1 DEF Range
<1>3. IsInjective(t)
  BY <1>1, <1>2 DEF IsInjective
<1>4. Range(t) \subseteq Range(s) \cup {e}
  BY <1>1 DEF Range
<1>5. /\ Len(s) + 1 \in DOMAIN t
      /\ \A j \in DOMAIN s : j \in DOMAIN t /\ t[j] = s[j]
  BY <1>1
<1>6. Range(s) \cup {e} \subseteq Range(t)
  BY <1>1, <1>5 DEF Range
<1> QED BY <1>1, <1>3, <1>4, <1>6 DEF t

(* ... one more before its last ...                                         *)
LEMMA InsertUnique ==
    ASSUME NEW S, NEW s \in Seq(S), s # <<>>, NEW e \in S,
           IsInjective(s), e \notin Range(s)
    PROVE  /\ IsInjective(InsertAt(s, Len(s), e))
           /\ Range(InsertAt(s, Len(s), e)) = Range(s) \cup {e}
<1> DEFINE t == InsertAt(s, Len(s), e)
           n == Len(s)
<1>1. /\ DOMAIN s = 1 .. n /\ n \in Nat \ {0} /\ DOMAIN t = 1 .. n + 1
      /\ \A j \in 1 .. n - 1 : t[j] = s[j]
      /\ t[n] = e /\ t[n + 1] = s[n]
  BY InsertAtIs
<1> HIDE DEF t, n
<1>2. \A j \in 1 .. n : s[j] # e
  BY <1>1 DEF Range
<1>3. \A j \in DOMAIN t : j \in 1 .. n - 1 \/ j = n \/ j = n + 1
  BY <1>1
<1>4. n \in 1 .. n /\ \A j \in 1 .. n - 1 : j \in 1 .. n /\ j # n
  BY <1>1
<1>5. IsInjective(t)
  BY <1>1, <1>2, <1>3, <1>4 DEF IsInjective
<1>6. Range(t) \subseteq Range(s) \cup {e}
  BY <1>1, <1>3, <1>4 DEF Range
<1>7. ASSUME NEW j \in 1 .. n PROVE s[j] \in Range(t)
  <2>1. CASE j = n
    <3>1. n + 1 \in DOMAIN t
      BY <1>1
    <3> QED BY <1>1, <2>1, <3>1 DEF Range
  <2>2. CASE j # n
    <3>1. j \in 1 .. n - 1 /\ j \in DOMAIN t
      BY <1>1, <2>2
    <3> QED BY <1>1, <3>1 DEF Range
  <2> QED BY <2>1, <2>2
<1>8. e \in Range(t)
  <2>1. n \in DOMAIN t
    BY <1>1
  <2> QED BY <1>1, <2>1 DEF Range
<1> QED BY <1>1, <1>5, <1>6, <1>7, <1>8 DEF t, n, Range

(* ... or the same ones in another order.                                   *)
LEMMA RotatedUnique ==
    ASSUME ring \in Seq(Owners), NEW i \in DOMAIN ring, IsInjective(ring)
    PROVE  IsInjective(Rotated(i)) /\ Range(Rotated(i)) = Range(ring)
<1> DEFINE n == Len(ring)
           old(j) == IF j <= n - i THEN j + i ELSE j - (n - i)
           new(k) == IF k <= i THEN k + (n - i) ELSE k - i
<1>1. /\ DOMAIN ring = 1 .. n /\ n \in Nat /\ i \in 1 .. n
      /\ DOMAIN Rotated(i) = 1 .. n
      /\ \A j \in 1 .. n : Rotated(i)[j] = ring[old(j)]
  <2>1. \A j \in 1 .. n : Rotated(i)[j] = IF j <= n - i THEN ring[j + i]
                                           ELSE ring[j - (n - i)]
    BY RotatedIs
  <2> QED BY <2>1, RotatedIs
<1> HIDE DEF n
<1>2. /\ \A j \in 1 .. n : old(j) \in 1 .. n /\ new(old(j)) = j
      /\ \A k \in 1 .. n : new(k) \in 1 .. n /\ old(new(k)) = k
  BY <1>1
<1> HIDE DEF old, new
<1>3. IsInjective(Rotated(i))
  BY <1>1, <1>2 DEF IsInjective
<1>4. Range(Rotated(i)) \subseteq Range(ring)
  BY <1>1, <1>2 DEF Range
<1>5. ASSUME NEW k \in 1 .. n PROVE ring[k] \in Range(Rotated(i))
  <2>1. new(k) \in DOMAIN Rotated(i) /\ Rotated(i)[new(k)] = ring[k]
    BY <1>1, <1>2
  <2> QED BY <2>1 DEF Range
<1> QED BY <1>1, <1>3, <1>4, <1>5 DEF Range

-----------------------------------------------------------------------------
(* Type correctness, one lemma per shared step and one step per action.     *)

LEMMA RemoveFromType ==
    ASSUME TypeOK, NEW base \in Seq(Owners), NEW r \in Requests,
           RemoveFrom(base, r)
    PROVE  /\ ring' \in Seq(Owners)
           /\ waiting' \in [Owners -> Seq(Requests)]
           /\ count' \in Int
           /\ expired' \subseteq Requests
<1> DEFINE o == OwnerOf[r]
<1>1. o \in Owners
  BY RequestAssumption
<1>2. PICK i \in DOMAIN waiting[o] :
        /\ waiting' = [waiting EXCEPT ![o] = RemoveAt(@, i)]
        /\ IF Len(waiting[o]) = 1
             THEN \E j \in DOMAIN base : base[j] = o /\ ring' = RemoveAt(base, j)
             ELSE ring' = base
  BY DEF RemoveFrom
<1>3. waiting' \in [Owners -> Seq(Requests)]
  <2>1. RemoveAt(waiting[o], i) \in Seq(Requests)
    BY <1>1, <1>2, RemoveAtProperties DEF TypeOK
  <2> QED BY <1>1, <1>2, <2>1 DEF TypeOK
<1>4. ring' \in Seq(Owners)
  BY <1>2, RemoveAtProperties
<1> QED BY <1>3, <1>4 DEF RemoveFrom, TypeOK

LEMMA BindType ==
    ASSUME TypeOK, NEW r \in Requests, Bind(r)
    PROVE  uidOwners' \in [Uids -> Owners \cup {NoOwner}]
<1>1. UidOf[r] \in Uids /\ OwnerOf[r] \in Owners \cup {NoOwner}
  BY RequestAssumption
<1> QED BY <1>1 DEF TypeOK, Bind

LEMMA RefuseType ==
    ASSUME TypeOK, NEW r \in Requests, Refuse(r)
    PROVE  ticket' \in [Requests -> TicketStates]
BY DEF TypeOK, Refuse, TicketStates

LEMMA NotifyType ==
    ASSUME TypeOK, Notify
    PROVE  worker' \in WorkerStates
BY DEF TypeOK, Notify, WorkerStates

LEMMA PrepareType ==
    ASSUME TypeOK, NEW r \in Requests, NEW f, Prepare(r, f)
    PROVE  /\ tasks' \subseteq Requests
           /\ owners' \in [Owners -> SUBSET Requests]
           /\ ticket' \in [Requests -> TicketStates]
           /\ worker' \in WorkerStates
<1>1. ticket' \in [Requests -> TicketStates]
  <2> DEFINE t == CASE f = "ok" -> "granted"
                    [] f = "retained" -> "retained"
                    [] OTHER -> "failed"
  <2>1. t \in TicketStates
    BY DEF TicketStates
  <2>2. ticket' = [ticket EXCEPT ![r] = t]
    BY DEF Prepare
  <2> HIDE DEF t
  <2> QED BY <2>1, <2>2 DEF TypeOK
<1>2. /\ tasks' \subseteq Requests
      /\ owners' \in [Owners -> SUBSET Requests]
  <2>1. CASE /\ tasks' = tasks \cup {r}
             /\ owners' = [owners EXCEPT ![OwnerOf[r]] = @ \cup {r}]
    <3>1. OwnerOf[r] \in Owners
      BY RequestAssumption
    <3>2. owners[OwnerOf[r]] \cup {r} \in SUBSET Requests
      BY <3>1 DEF TypeOK
    <3> QED BY <2>1, <3>1, <3>2 DEF TypeOK
  <2>2. CASE UNCHANGED <<tasks, owners>>
    BY <2>2 DEF TypeOK
  <2> QED BY <2>1, <2>2 DEF Prepare
<1>3. worker' \in WorkerStates
  BY NotifyType DEF Prepare, TypeOK
<1> QED BY <1>1, <1>2, <1>3

LEMMA GrantType ==
    ASSUME TypeOK, NEW r \in Requests, Grant(r)
    PROVE  /\ tasks' \subseteq Requests
           /\ owners' \in [Owners -> SUBSET Requests]
           /\ uidOwners' \in [Uids -> Owners \cup {NoOwner}]
           /\ lastOwner' \in Owners \cup {NoOwner}
           /\ ticket' \in [Requests -> TicketStates]
           /\ worker' \in WorkerStates
<1>1. OwnerOf[r] \in Owners
  BY RequestAssumption
<1>2. ASSUME NEW f \in Outcomes, Prepare(r, f), Bind(r),
             lastOwner' = IF f = "ok" THEN OwnerOf[r] ELSE lastOwner
      PROVE  /\ tasks' \subseteq Requests
             /\ owners' \in [Owners -> SUBSET Requests]
             /\ uidOwners' \in [Uids -> Owners \cup {NoOwner}]
             /\ lastOwner' \in Owners \cup {NoOwner}
             /\ ticket' \in [Requests -> TicketStates]
             /\ worker' \in WorkerStates
  BY <1>1, <1>2, PrepareType, BindType DEF TypeOK
<1>3. CASE Refuse(r) /\ UNCHANGED <<ledgerVars, lastOwner, worker>>
  BY <1>3, RefuseType DEF ledgerVars, TypeOK
<1> QED BY <1>2, <1>3 DEF Grant

LEMMA TypeStep ==
    ASSUME TypeOK, [Next]_vars
    PROVE  TypeOK'
<1>1. ASSUME NEW r \in Requests, SubmitRefused(r)
      PROVE  TypeOK'
  BY <1>1 DEF TypeOK, SubmitRefused, Refuse, ledgerVars, queueVars, TicketStates
<1>2. ASSUME NEW r \in Requests, SubmitGranted(r)
      PROVE  TypeOK'
  BY <1>2, GrantType DEF TypeOK, SubmitGranted, queueVars
<1>3. ASSUME NEW r \in Requests, SubmitFull(r)
      PROVE  TypeOK'
  BY <1>3, RequestAssumption
     DEF TypeOK, SubmitFull, Refuse, Bind, queueVars, TicketStates
<1>4. ASSUME NEW r \in Requests, SubmitQueued(r)
      PROVE  TypeOK'
  <2> DEFINE o == OwnerOf[r]
  <2>1. o \in Owners
    BY RequestAssumption
  <2>2. ring' \in Seq(Owners)
    <3>1. Append(ring, o) \in Seq(Owners)
      BY <2>1 DEF TypeOK
    <3>2. ring # <<>> => InsertAt(ring, Len(ring), o) \in Seq(Owners)
      BY <2>1, InsertAtType DEF TypeOK
    <3> QED BY <1>4, <3>1, <3>2 DEF SubmitQueued, Enqueue, EnterRing, TypeOK
  <2>3. waiting' \in [Owners -> Seq(Requests)]
    BY <1>4, <2>1 DEF SubmitQueued, Enqueue, TypeOK
  <2>4. worker' \in WorkerStates /\ count' \in Int
        /\ ticket' \in [Requests -> TicketStates]
        /\ uidOwners' \in [Uids -> Owners \cup {NoOwner}]
    <3>1. worker' \in WorkerStates
      BY <1>4, NotifyType DEF SubmitQueued, Enqueue, TypeOK, WorkerStates
    <3>2. uidOwners' \in [Uids -> Owners \cup {NoOwner}]
      BY <1>4, BindType DEF SubmitQueued
    <3>3. count' \in Int /\ ticket' \in [Requests -> TicketStates]
      BY <1>4 DEF SubmitQueued, Enqueue, TypeOK, TicketStates
    <3> QED BY <3>1, <3>2, <3>3
  <2> QED BY <1>4, <2>2, <2>3, <2>4 DEF TypeOK, SubmitQueued
<1>5. ASSUME NEW r \in Requests, PrepareDirect(r)
      PROVE  TypeOK'
  <2>1. ASSUME NEW f \in Outcomes, Prepare(r, f),
               IF f = "create" THEN UNCHANGED uidOwners ELSE Bind(r)
        PROVE  TypeOK'
    BY <1>5, <2>1, PrepareType, BindType
       DEF TypeOK, PrepareDirect, queueVars
  <2>2. CASE Refuse(r) /\ UNCHANGED <<ledgerVars, worker>>
    BY <1>5, <2>2, RefuseType DEF TypeOK, PrepareDirect, ledgerVars, queueVars
  <2> QED BY <1>5, <2>1, <2>2 DEF PrepareDirect
<1>6. ASSUME NEW r \in Requests, Cancel(r)
      PROVE  TypeOK'
  BY <1>6, RemoveFromType
     DEF TypeOK, Cancel, Notify, ledgerVars, TicketStates, WorkerStates
<1>7. ASSUME NEW r \in Requests, Release(r)
      PROVE  TypeOK'
  BY <1>7, RequestAssumption
     DEF TypeOK, Release, Notify, queueVars, TicketStates, WorkerStates
<1>8. CASE Shutdown
  BY <1>8 DEF TypeOK, Shutdown, Notify, ledgerVars, TicketStates, WorkerStates
<1>9. CASE Time
  BY <1>9 DEF TypeOK, Time, Expire, WakeTimeout, ledgerVars, queueVars, WorkerStates
<1>10. CASE WorkerResume \/ DropDone \/ Sleep
  BY <1>10 DEF TypeOK, WorkerResume, DropDone, Sleep, ledgerVars, queueVars, WorkerStates
<1>11. CASE DropExpired
  BY <1>11, RemoveFromType
     DEF TypeOK, DropExpired, Refuse, ledgerVars, TicketStates
<1>12. CASE Serve
  <2>1. PICK i \in DOMAIN ring :
          /\ waiting[ring[i]] # <<>>
          /\ RemoveFrom(Rotated(i), Head(waiting[ring[i]]))
          /\ IF Head(waiting[ring[i]]) \in expired
               THEN Refuse(Head(waiting[ring[i]])) /\ UNCHANGED <<ledgerVars, lastOwner>>
               ELSE Grant(Head(waiting[ring[i]]))
    BY <1>12 DEF Serve
  <2> DEFINE r == Head(waiting[ring[i]])
  <2>2. ring[i] \in Owners
    BY ElementOfSeq, LenProperties DEF TypeOK
  <2>3. r \in Requests
    BY <2>1, <2>2, HeadTailProperties DEF TypeOK
  <2>4. Rotated(i) \in Seq(Owners)
    BY RotatedType DEF TypeOK
  <2> HIDE DEF r
  <2>5. /\ ring' \in Seq(Owners) /\ waiting' \in [Owners -> Seq(Requests)]
        /\ count' \in Int /\ expired' \subseteq Requests
    BY <2>1, <2>3, <2>4, RemoveFromType DEF r
  <2>6. /\ tasks' \subseteq Requests
        /\ owners' \in [Owners -> SUBSET Requests]
        /\ uidOwners' \in [Uids -> Owners \cup {NoOwner}]
        /\ lastOwner' \in Owners \cup {NoOwner}
        /\ ticket' \in [Requests -> TicketStates]
    <3>1. CASE Grant(r)
      BY <2>3, <3>1, GrantType
    <3>2. CASE Refuse(r) /\ UNCHANGED <<ledgerVars, lastOwner>>
      BY <2>3, <3>2 DEF Refuse, ledgerVars, TypeOK, TicketStates
    <3> QED BY <2>1, <3>1, <3>2 DEF r
  <2> QED BY <1>12, <2>5, <2>6 DEF TypeOK, Serve
<1>13. CASE UNCHANGED vars
  BY <1>13 DEF TypeOK, vars
<1> QED
  BY <1>1, <1>2, <1>3, <1>4, <1>5, <1>6, <1>7, <1>8, <1>9, <1>10, <1>11, <1>12, <1>13
     DEF Next, Handlers, Worker, Submit

LEMMA TypeInit == Init => TypeOK
<1> SUFFICES ASSUME Init PROVE TypeOK
  OBVIOUS
<1>1. /\ ring \in Seq(Owners)
      /\ waiting \in [Owners -> Seq(Requests)]
  BY EmptySeq DEF Init
<1>2. /\ owners \in [Owners -> SUBSET Requests]
      /\ uidOwners \in [Uids -> Owners \cup {NoOwner}]
      /\ ticket \in [Requests -> TicketStates]
  BY DEF Init, TicketStates
<1>3. stopping \in BOOLEAN /\ worker \in WorkerStates
  BY Zenon DEF Init, WorkerStates
<1>4. tasks \subseteq Requests /\ expired \subseteq Requests /\ count \in Int
      /\ lastOwner \in Owners \cup {NoOwner}
  BY DEF Init
<1> QED BY <1>1, <1>2, <1>3, <1>4 DEF TypeOK

(* Every variable keeps its type in every reachable state.                  *)
THEOREM TypeCorrect == Spec => []TypeOK
<1>1. TypeOK /\ [Next]_vars => TypeOK'
  BY TypeStep
<1> QED BY TypeInit, <1>1, PTL DEF Spec

-----------------------------------------------------------------------------
(***************************************************************************)
(* Budgets.  BudgetHeld is not inductive alone: that a ticket served from  *)
(* the queue holds no reservation yet is what Queued adds.                 *)
(***************************************************************************)
Holding == {"granted", "retained"}

Queued ==
    \A o \in Owners : \A i \in DOMAIN waiting[o] :
        /\ ticket[waiting[o][i]] = "pending"
        /\ OwnerOf[waiting[o][i]] = o
        /\ \A j \in DOMAIN waiting[o] : waiting[o][j] = waiting[o][i] => j = i

BudgetInv == TypeOK /\ BudgetHeld /\ Queued

(* The active owners are the owners of the reservations, so finitely many.  *)
LEMMA ActiveFinite ==
    ASSUME TypeOK, BudgetHeld
    PROVE  IsFiniteSet(tasks) /\ IsFiniteSet(Active)
<1>1. IsFiniteSet(tasks)
  BY RequestAssumption, FS_Subset DEF TypeOK
<1> DEFINE f == [r \in tasks |-> OwnerOf[r]]
<1>2. f \in [tasks -> Active]
  <2>1. ASSUME NEW r \in tasks PROVE OwnerOf[r] \in Active
    <3>1. r \in Requests /\ OwnerOf[r] \in Owners
      BY RequestAssumption DEF TypeOK
    <3>2. r \in owners[OwnerOf[r]]
      BY <3>1 DEF BudgetHeld
    <3> QED BY <3>1, <3>2 DEF Active
  <2> QED BY <2>1
<1>3. \A o \in Active : \E r \in tasks : f[r] = o
  BY DEF Active, BudgetHeld
<1>4. f \in Surjection(tasks, Active)
  BY <1>2, <1>3 DEF Surjection
<1> QED BY <1>1, <1>4, FS_Surjection

(* Fewer users fit where more do.                                           *)
LEMMA UsersFitMonotonic ==
    ASSUME NEW m \in Nat, NEW n \in Nat, m <= n, UsersFit(n)
    PROVE  UsersFit(m)
<1> SUFFICES ASSUME NEW x \in Resources PROVE UserLimit[x] * m <= ComputeLimit[x]
  BY DEF UsersFit
<1>1. UserLimit[x] \in Nat /\ ComputeLimit[x] \in Nat
  BY PolicyAssumption
<1>2. UserLimit[x] * n <= ComputeLimit[x]
  BY DEF UsersFit
<1>3. \A a, b, c \in Nat : b <= c => a * b <= a * c
  OBVIOUS
<1>4. UserLimit[x] * m <= UserLimit[x] * n
  BY <1>1, <1>3
<1>5. UserLimit[x] * m \in Int /\ UserLimit[x] * n \in Int
  BY <1>1
<1> QED BY <1>1, <1>2, <1>4, <1>5

(* A step that moves no reservation keeps the budgets.                      *)
LEMMA BudgetUnmoved ==
    ASSUME TypeOK, BudgetHeld, UNCHANGED <<tasks, owners>>,
           \A q \in Requests : ticket'[q] \in Holding <=> ticket[q] \in Holding
    PROVE  BudgetHeld'
BY DEF BudgetHeld, UsersFit, Active, Holding

(* A reservation made after the capacity check keeps the budgets.           *)
LEMMA BudgetReserved ==
    ASSUME TypeOK, BudgetHeld, NEW r \in Requests, r \notin tasks,
           HasCapacity(OwnerOf[r]),
           tasks' = tasks \cup {r},
           owners' = [owners EXCEPT ![OwnerOf[r]] = @ \cup {r}],
           NEW t \in Holding, ticket' = [ticket EXCEPT ![r] = t]
    PROVE  BudgetHeld'
<1> DEFINE o == OwnerOf[r]
<1>1. o \in Owners
  BY RequestAssumption
<1>2. IsFiniteSet(tasks) /\ IsFiniteSet(Active)
  BY ActiveFinite
<1>3. \A p \in Owners : owners'[p] = IF p = o THEN owners[o] \cup {r} ELSE owners[p]
  BY <1>1 DEF TypeOK
<1>4. Cardinality(tasks') <= MaxTasks
  <2>1. Cardinality(tasks') = Cardinality(tasks) + 1
    BY <1>2, FS_AddElement
  <2> QED BY <1>2, <2>1, FS_CardinalityType, PolicyAssumption DEF HasCapacity
<1>5. \A p \in Owners : Cardinality(owners'[p]) <= MaxUserTasks
  <2>1. \A p \in Owners : IsFiniteSet(owners[p])
    BY <1>2, FS_Subset DEF BudgetHeld
  <2>2. r \notin owners[o]
    BY <1>1 DEF BudgetHeld
  <2>3. Cardinality(owners[o] \cup {r}) = Cardinality(owners[o]) + 1
    BY <1>1, <2>1, <2>2, FS_AddElement
  <2>4. Cardinality(owners[o] \cup {r}) <= MaxUserTasks
    BY <1>1, <2>1, <2>3, FS_CardinalityType, PolicyAssumption DEF HasCapacity
  <2> QED BY <1>3, <2>4 DEF BudgetHeld
<1>6. Active' = Active \cup {o}
  BY <1>1, <1>3 DEF Active
<1>7. UsersFit(Cardinality(Active'))
  <2>1. CASE o \in Active
    <3>1. Active' = Active
      BY <1>6, <2>1
    <3> QED BY <3>1 DEF BudgetHeld
  <2>2. CASE o \notin Active
    <3>1. Cardinality(Active') = Cardinality(Active) + 1
      BY <1>2, <1>6, <2>2, FS_AddElement
    <3>2. UsersFit(Cardinality(Active) + 1)
      BY <2>2 DEF HasCapacity, AnotherUserFits
    <3> QED BY <3>1, <3>2
  <2> QED BY <2>1, <2>2
<1>8. \A p \in Owners : owners'[p] = {q \in tasks' : OwnerOf[q] = p}
  BY <1>3 DEF BudgetHeld
<1>9. tasks' = {q \in Requests : ticket'[q] \in {"granted", "retained"}}
  BY DEF BudgetHeld, TypeOK, Holding
<1>10. UsersFit(Cardinality(Active))' 
  BY <1>7 DEF UsersFit
<1> QED BY <1>4, <1>5, <1>8, <1>9, <1>10 DEF BudgetHeld

(* Both outcomes of prepare keep the budgets.                               *)
LEMMA BudgetPrepare ==
    ASSUME TypeOK, BudgetHeld, NEW r \in Requests, ticket[r] \notin Holding,
           HasCapacity(OwnerOf[r]), NEW f, Prepare(r, f)
    PROVE  BudgetHeld'
<1>1. r \notin tasks
  BY DEF BudgetHeld, Holding
<1> DEFINE t == CASE f = "ok" -> "granted"
                  [] f = "retained" -> "retained"
                  [] OTHER -> "failed"
<1>2. CASE f \in {"ok", "retained"}
  <2>1. t \in Holding
    BY <1>2 DEF Holding
  <2>2. ticket' = [ticket EXCEPT ![r] = t]
    BY DEF Prepare
  <2>3. /\ tasks' = tasks \cup {r}
        /\ owners' = [owners EXCEPT ![OwnerOf[r]] = @ \cup {r}]
    BY <1>2 DEF Prepare
  <2> HIDE DEF t
  <2> QED BY <1>1, <2>1, <2>2, <2>3, BudgetReserved
<1>3. CASE f \notin {"ok", "retained"}
  <2>1. ticket' = [ticket EXCEPT ![r] = "failed"]
    BY <1>3 DEF Prepare
  <2>2. UNCHANGED <<tasks, owners>>
    BY <1>3 DEF Prepare
  <2>3. \A q \in Requests : ticket'[q] \in Holding <=> ticket[q] \in Holding
    BY <2>1 DEF TypeOK, Holding
  <2> QED BY <2>2, <2>3, BudgetUnmoved
<1> QED BY <1>2, <1>3

LEMMA BudgetRefuse ==
    ASSUME TypeOK, BudgetHeld, NEW r \in Requests, ticket[r] \notin Holding,
           Refuse(r), UNCHANGED <<tasks, owners>>
    PROVE  BudgetHeld'
<1>1. \A q \in Requests : ticket'[q] \in Holding <=> ticket[q] \in Holding
  BY DEF TypeOK, Holding, Refuse
<1> QED BY <1>1, BudgetUnmoved

LEMMA BudgetGrant ==
    ASSUME TypeOK, BudgetHeld, NEW r \in Requests, ticket[r] \notin Holding,
           Grant(r)
    PROVE  BudgetHeld'
BY BudgetPrepare, BudgetRefuse DEF Grant, ledgerVars

(* Giving a reservation back keeps the budgets.                             *)
LEMMA BudgetRelease ==
    ASSUME TypeOK, BudgetHeld, NEW r \in Requests, Release(r)
    PROVE  BudgetHeld'
<1> DEFINE o == OwnerOf[r]
<1>1. o \in Owners
  BY RequestAssumption
<1>2. IsFiniteSet(tasks) /\ IsFiniteSet(Active)
  BY ActiveFinite
<1>3. \A p \in Owners : owners'[p] = IF p = o THEN owners[o] \ {r} ELSE owners[p]
  BY <1>1 DEF TypeOK, Release
<1>4. Cardinality(tasks') <= MaxTasks
  <2>1. tasks' \subseteq tasks
    BY DEF Release
  <2>2. Cardinality(tasks') <= Cardinality(tasks) /\ IsFiniteSet(tasks')
    BY <1>2, <2>1, FS_Subset
  <2> QED BY <1>2, <2>2, FS_CardinalityType, PolicyAssumption DEF BudgetHeld
<1>5. \A p \in Owners : Cardinality(owners'[p]) <= MaxUserTasks
  <2> SUFFICES ASSUME NEW p \in Owners PROVE Cardinality(owners'[p]) <= MaxUserTasks
    OBVIOUS
  <2>1. IsFiniteSet(owners[p]) /\ owners'[p] \subseteq owners[p]
    BY <1>2, <1>3, FS_Subset DEF BudgetHeld
  <2>2. Cardinality(owners'[p]) <= Cardinality(owners[p]) /\ IsFiniteSet(owners'[p])
    BY <2>1, FS_Subset
  <2>3. MaxUserTasks \in Nat
    BY PolicyAssumption
  <2> QED BY <2>1, <2>2, <2>3, FS_CardinalityType DEF BudgetHeld
<1>6. UsersFit(Cardinality(Active'))
  <2>1. Active' \subseteq Active
    BY <1>3 DEF Active
  <2>2. Cardinality(Active') <= Cardinality(Active) /\ IsFiniteSet(Active')
    BY <1>2, <2>1, FS_Subset
  <2>3. Cardinality(Active') \in Nat /\ Cardinality(Active) \in Nat
    BY <1>2, <2>2, FS_CardinalityType
  <2> QED BY <2>2, <2>3, UsersFitMonotonic DEF BudgetHeld
<1>7. \A p \in Owners : owners'[p] = {q \in tasks' : OwnerOf[q] = p}
  BY <1>3 DEF BudgetHeld, Release
<1>8. tasks' = {q \in Requests : ticket'[q] \in {"granted", "retained"}}
  BY DEF BudgetHeld, TypeOK, Release
<1>9. UsersFit(Cardinality(Active))'
  BY <1>6 DEF UsersFit
<1> QED BY <1>4, <1>5, <1>7, <1>8, <1>9 DEF BudgetHeld

-----------------------------------------------------------------------------
(* Queued tickets wait for what they say they wait for.                     *)

(* A request outside the queue may change state.                            *)
LEMMA QueuedUnmoved ==
    ASSUME TypeOK, Queued, waiting' = waiting,
           \A q \in Requests : ticket[q] = "pending" => ticket'[q] = "pending"
    PROVE  Queued'
<1> SUFFICES ASSUME NEW o \in Owners, NEW i \in DOMAIN waiting[o]
             PROVE  /\ ticket'[waiting[o][i]] = "pending"
                    /\ OwnerOf[waiting[o][i]] = o
                    /\ \A j \in DOMAIN waiting[o] :
                          waiting[o][j] = waiting[o][i] => j = i
  BY DEF Queued
<1>1. waiting[o][i] \in Requests
  BY LenProperties, ElementOfSeq DEF TypeOK
<1> QED BY <1>1 DEF Queued

(* A ticket that leaves its queue leaves no copy behind.                    *)
LEMMA QueuedRemove ==
    ASSUME TypeOK, Queued, NEW base, NEW r \in Requests, RemoveFrom(base, r),
           \A q \in Requests : q # r => ticket'[q] = ticket[q]
    PROVE  Queued'
<1> DEFINE p == OwnerOf[r]
<1>1. p \in Owners
  BY RequestAssumption
<1>2. PICK k \in DOMAIN waiting[p] :
        /\ waiting[p][k] = r
        /\ waiting' = [waiting EXCEPT ![p] = RemoveAt(@, k)]
  BY DEF RemoveFrom
<1>3. /\ waiting'[p] = RemoveAt(waiting[p], k)
      /\ \A o \in Owners : o # p => waiting'[o] = waiting[o]
  BY <1>1, <1>2 DEF TypeOK
<1>4. /\ waiting[p] \in Seq(Requests) /\ Len(waiting[p]) \in Nat
      /\ DOMAIN waiting[p] = 1 .. Len(waiting[p])
  BY <1>1, LenProperties DEF TypeOK
<1> DEFINE w == waiting[p]
           v == RemoveAt(w, k)
           old(j) == IF j < k THEN j ELSE j + 1
<1>5. /\ v \in Seq(Requests) /\ Len(v) = Len(w) - 1
      /\ \A j \in DOMAIN v : v[j] = IF j < k THEN w[j] ELSE w[j + 1]
  BY <1>2, <1>4, RemoveAtProperties
<1>6. DOMAIN v = 1 .. Len(w) - 1
  BY <1>5, LenProperties
<1>7. \A j \in DOMAIN v : old(j) \in DOMAIN w /\ old(j) # k /\ v[j] = w[old(j)]
  <2> HIDE DEF v, w
  <2>1. DOMAIN w = 1 .. Len(w) /\ Len(w) \in Nat /\ k \in 1 .. Len(w)
    BY <1>2, <1>4 DEF w
  <2> QED BY <2>1, <1>5, <1>6
<1>8. \A i, j \in DOMAIN v : old(i) = old(j) => i = j
  BY <1>2, <1>4, <1>6
<1>9. ASSUME NEW i \in DOMAIN v
      PROVE  /\ ticket'[v[i]] = "pending"
             /\ OwnerOf[v[i]] = p
             /\ \A j \in DOMAIN v : v[j] = v[i] => j = i
  <2> HIDE DEF v, old
  <2>1. /\ ticket[w[old(i)]] = "pending" /\ OwnerOf[w[old(i)]] = p
        /\ \A j \in DOMAIN w : w[j] = w[old(i)] => j = old(i)
    BY <1>1, <1>7 DEF Queued
  <2>2. v[i] = w[old(i)] /\ v[i] # r
    BY <1>2, <1>7, <2>1
  <2>3. v[i] \in Requests
    BY <1>4, <1>7, <2>2, ElementOfSeq
  <2>4. ticket'[v[i]] = ticket[v[i]]
    BY <2>2, <2>3
  <2>5. ASSUME NEW j \in DOMAIN v, v[j] = v[i] PROVE j = i
    BY <2>1, <2>5, <1>7, <1>8
  <2> QED BY <2>1, <2>2, <2>4, <2>5
<1>10. ASSUME NEW o \in Owners, o # p, NEW i \in DOMAIN waiting[o]
       PROVE  /\ ticket'[waiting[o][i]] = "pending"
              /\ OwnerOf[waiting[o][i]] = o
              /\ \A j \in DOMAIN waiting[o] : waiting[o][j] = waiting[o][i] => j = i
  <2>1. waiting[o][i] \in Requests
    BY LenProperties, ElementOfSeq DEF TypeOK
  <2>2. OwnerOf[waiting[o][i]] = o /\ ticket[waiting[o][i]] = "pending"
    BY DEF Queued
  <2>3. waiting[o][i] # r
    BY <2>2, <1>10
  <2>4. ticket'[waiting[o][i]] = "pending"
    BY <2>1, <2>2, <2>3
  <2> QED BY <2>2, <2>4 DEF Queued
<1> HIDE DEF v
<1> QED BY <1>3, <1>9, <1>10 DEF Queued, v

LEMMA QueuedEnqueue ==
    ASSUME TypeOK, Queued, NEW r \in Requests, ticket[r] # "pending", Enqueue(r)
    PROVE  Queued'
<1> DEFINE p == OwnerOf[r]
           w == waiting[p]
           v == Append(w, r)
<1>1. p \in Owners /\ w \in Seq(Requests)
  BY RequestAssumption DEF TypeOK
<1>2. Len(w) \in Nat /\ DOMAIN w = 1 .. Len(w)
  BY <1>1, LenProperties
<1>3. /\ DOMAIN v = 1 .. Len(w) + 1 /\ v[Len(w) + 1] = r
      /\ \A j \in DOMAIN w : v[j] = w[j]
  BY <1>1, <1>2
<1>4. /\ waiting'[p] = v
      /\ \A o \in Owners : o # p => waiting'[o] = waiting[o]
  BY <1>1 DEF TypeOK, Enqueue
<1>5. ticket'[r] = "pending" /\ \A q \in Requests : q # r => ticket'[q] = ticket[q]
  BY DEF TypeOK, Enqueue
<1>6. ASSUME NEW o \in Owners, NEW i \in DOMAIN waiting[o]
      PROVE  /\ ticket'[waiting[o][i]] = "pending" /\ waiting[o][i] # r
             /\ OwnerOf[waiting[o][i]] = o
             /\ \A j \in DOMAIN waiting[o] : waiting[o][j] = waiting[o][i] => j = i
  <2>1. waiting[o][i] \in Requests
    BY LenProperties, ElementOfSeq DEF TypeOK
  <2>2. ticket[waiting[o][i]] = "pending"
    BY DEF Queued
  <2> QED BY <2>1, <2>2, <1>5 DEF Queued
<1> HIDE DEF v
<1>7. ASSUME NEW i \in DOMAIN v
      PROVE  /\ ticket'[v[i]] = "pending" /\ OwnerOf[v[i]] = p
             /\ \A j \in DOMAIN v : v[j] = v[i] => j = i
  <2>1. CASE i = Len(w) + 1
    BY <2>1, <1>1, <1>2, <1>3, <1>5, <1>6
  <2>2. CASE i \in DOMAIN w
    BY <2>2, <1>1, <1>2, <1>3, <1>6
  <2> QED BY <2>1, <2>2, <1>2, <1>3
<1> QED BY <1>4, <1>6, <1>7 DEF Queued

-----------------------------------------------------------------------------
LEMMA BudgetStep ==
    ASSUME BudgetInv, [Next]_vars
    PROVE  BudgetInv'
<1> USE DEF BudgetInv
<1>0. TypeOK'
  BY TypeStep
<1>1. ASSUME NEW r \in Requests, Fresh(r), SubmitRefused(r) \/ SubmitFull(r)
      PROVE  BudgetHeld' /\ Queued'
  <2>1. Refuse(r) /\ UNCHANGED <<tasks, owners, waiting>>
    BY <1>1 DEF SubmitRefused, SubmitFull, ledgerVars, queueVars
  <2>2. ticket[r] \notin Holding /\ ticket[r] # "pending"
    BY <1>1 DEF Fresh, Holding
  <2>3. \A q \in Requests : ticket[q] = "pending" => ticket'[q] = "pending"
    BY <2>1, <2>2 DEF Refuse, TypeOK
  <2> QED BY <2>1, <2>2, <2>3, BudgetRefuse, QueuedUnmoved
<1>2. ASSUME NEW r \in Requests, Fresh(r), SubmitGranted(r)
      PROVE  BudgetHeld' /\ Queued'
  <2>1. Grant(r) /\ waiting' = waiting
    BY <1>2 DEF SubmitGranted, queueVars
  <2>2. ticket[r] \notin Holding /\ ticket[r] # "pending"
    BY <1>2 DEF Fresh, Holding
  <2>3. \A q \in Requests : ticket[q] = "pending" => ticket'[q] = "pending"
    BY <2>1, <2>2 DEF Grant, Prepare, Refuse, TypeOK
  <2> QED BY <2>1, <2>2, <2>3, BudgetGrant, QueuedUnmoved
<1>3. ASSUME NEW r \in Requests, Fresh(r), SubmitQueued(r)
      PROVE  BudgetHeld' /\ Queued'
  <2>1. Enqueue(r) /\ UNCHANGED <<tasks, owners>>
    BY <1>3 DEF SubmitQueued
  <2>2. ticket[r] \notin Holding /\ ticket[r] # "pending"
    BY <1>3 DEF Fresh, Holding
  <2>3. \A q \in Requests : ticket'[q] \in Holding <=> ticket[q] \in Holding
    BY <2>1, <2>2 DEF Enqueue, TypeOK, Holding
  <2> QED BY <2>1, <2>2, <2>3, BudgetUnmoved, QueuedEnqueue
<1>4. ASSUME NEW r \in Requests, PrepareDirect(r)
      PROVE  BudgetHeld' /\ Queued'
  <2>1. ticket[r] \notin Holding /\ ticket[r] # "pending"
    BY <1>4 DEF PrepareDirect, Fresh, Holding
  <2>2. waiting' = waiting
    BY <1>4 DEF PrepareDirect, queueVars
  <2>3. \A q \in Requests : ticket[q] = "pending" => ticket'[q] = "pending"
    BY <1>4, <2>1 DEF PrepareDirect, Prepare, Refuse, TypeOK
  <2>4. BudgetHeld'
    BY <1>4, <2>1, BudgetPrepare, BudgetRefuse DEF PrepareDirect, ledgerVars
  <2> QED BY <2>2, <2>3, <2>4, QueuedUnmoved
<1>5. ASSUME NEW r \in Requests, Cancel(r)
      PROVE  BudgetHeld' /\ Queued'
  <2>1. /\ ticket[r] = "pending" /\ ticket' = [ticket EXCEPT ![r] = "none"]
        /\ RemoveFrom(ring, r) /\ UNCHANGED <<tasks, owners>>
    BY <1>5 DEF Cancel, ledgerVars
  <2>2. \A q \in Requests : ticket'[q] \in Holding <=> ticket[q] \in Holding
    BY <2>1 DEF TypeOK, Holding
  <2>3. \A q \in Requests : q # r => ticket'[q] = ticket[q]
    BY <2>1 DEF TypeOK
  <2> QED BY <2>1, <2>2, <2>3, BudgetUnmoved, QueuedRemove
<1>6. ASSUME NEW r \in Requests, Release(r)
      PROVE  BudgetHeld' /\ Queued'
  <2>1. waiting' = waiting
    BY <1>6 DEF Release, queueVars
  <2>2. \A q \in Requests : ticket[q] = "pending" => ticket'[q] = "pending"
    BY <1>6 DEF Release, TypeOK
  <2> QED BY <1>6, <2>1, <2>2, BudgetRelease, QueuedUnmoved
<1>7. CASE Shutdown
  <2>1. \A q \in Requests : ticket'[q] \in Holding <=> ticket[q] \in Holding
    BY <1>7 DEF Shutdown, Holding
  <2>2. UNCHANGED <<tasks, owners>>
    BY <1>7 DEF Shutdown, ledgerVars
  <2>3. \A o \in Owners : DOMAIN waiting'[o] = {}
    BY <1>7 DEF Shutdown
  <2>4. BudgetHeld'
    BY <2>1, <2>2, BudgetUnmoved
  <2>5. Queued'
    BY <2>3 DEF Queued
  <2> QED BY <1>0, <2>4, <2>5
<1>8. CASE Time \/ WorkerResume \/ DropDone \/ Sleep \/ UNCHANGED vars
  <2>1. UNCHANGED <<tasks, owners, waiting, ticket>>
    BY <1>8 DEF Time, Expire, WakeTimeout, WorkerResume, DropDone, Sleep, vars,
                ledgerVars, queueVars
  <2>2. BudgetHeld'
    BY <2>1, BudgetUnmoved
  <2>3. Queued'
    BY <2>1, QueuedUnmoved
  <2> QED BY <1>0, <2>2, <2>3
<1>9. CASE DropExpired
  <2>1. PICK r \in expired : RemoveFrom(ring, r) /\ Refuse(r)
    BY <1>9 DEF DropExpired
  <2>2. r \in Requests /\ OwnerOf[r] \in Owners
    BY RequestAssumption DEF TypeOK
  <2>3. ticket[r] = "pending"
    BY <2>1, <2>2 DEF RemoveFrom, Queued
  <2>4. UNCHANGED <<tasks, owners>>
    BY <1>9 DEF DropExpired, ledgerVars
  <2>5. \A q \in Requests : q # r => ticket'[q] = ticket[q]
    BY <2>1 DEF Refuse, TypeOK
  <2>6. ticket[r] \notin Holding
    BY <2>3 DEF Holding
  <2>7. BudgetHeld'
    BY <2>1, <2>2, <2>4, <2>6, BudgetRefuse
  <2>8. Queued'
    BY <2>1, <2>2, <2>5, QueuedRemove
  <2> QED BY <1>0, <2>7, <2>8
<1>10. CASE Serve
  <2>1. PICK i \in DOMAIN ring :
          /\ waiting[ring[i]] # <<>>
          /\ RemoveFrom(Rotated(i), Head(waiting[ring[i]]))
          /\ IF Head(waiting[ring[i]]) \in expired
               THEN Refuse(Head(waiting[ring[i]])) /\ UNCHANGED <<ledgerVars, lastOwner>>
               ELSE Grant(Head(waiting[ring[i]]))
    BY <1>10 DEF Serve
  <2> DEFINE r == Head(waiting[ring[i]])
  <2>2. ring[i] \in Owners /\ r \in Requests
    BY <2>1, ElementOfSeq, LenProperties, HeadTailProperties DEF TypeOK
  <2>3. OwnerOf[r] \in Owners
    BY <2>2, RequestAssumption
  <2> HIDE DEF r
  <2>4. RemoveFrom(Rotated(i), r)
    BY <2>1 DEF r
  <2>5. ticket[r] = "pending"
    BY <2>3, <2>4 DEF RemoveFrom, Queued
  <2>6. ticket[r] \notin Holding
    BY <2>5 DEF Holding
  <2>7. CASE Grant(r)
    <3>1. \A q \in Requests : q # r => ticket'[q] = ticket[q]
      BY <2>7 DEF Grant, Prepare, Refuse, TypeOK
    <3>2. BudgetHeld'
      BY <2>2, <2>6, <2>7, BudgetGrant
    <3>3. Queued'
      BY <2>2, <2>4, <3>1, QueuedRemove
    <3> QED BY <1>0, <3>2, <3>3
  <2>8. CASE Refuse(r) /\ UNCHANGED <<ledgerVars, lastOwner>>
    <3>1. \A q \in Requests : q # r => ticket'[q] = ticket[q]
      BY <2>8 DEF Refuse, TypeOK
    <3>2. UNCHANGED <<tasks, owners>>
      BY <2>8 DEF ledgerVars
    <3>3. BudgetHeld'
      BY <2>2, <2>6, <2>8, <3>2, BudgetRefuse
    <3>4. Queued'
      BY <2>2, <2>4, <3>1, QueuedRemove
    <3> QED BY <1>0, <3>3, <3>4
  <2> QED BY <2>1, <2>7, <2>8 DEF r
<1> QED
  BY <1>0, <1>1, <1>2, <1>3, <1>4, <1>5, <1>6, <1>7, <1>8, <1>9, <1>10
     DEF Next, Handlers, Worker, Submit

LEMMA BudgetInit == Init => BudgetInv
<1> SUFFICES ASSUME Init PROVE BudgetInv
  OBVIOUS
<1>1. TypeOK
  BY TypeInit
<1>2. Active = {} /\ Cardinality(Active) = 0 /\ Cardinality({}) = 0
  BY FS_EmptySet DEF Init, Active
<1>3. UsersFit(0)
  BY PolicyAssumption DEF UsersFit
<1>4. BudgetHeld
  <2>1. Cardinality(tasks) <= MaxTasks /\ 0 <= MaxUserTasks
    BY <1>2, PolicyAssumption DEF Init
  <2>2. \A o \in Owners : owners[o] = {}
    BY DEF Init
  <2>3. UsersFit(Cardinality(Active))
    BY <1>2, <1>3
  <2>4. \A o \in Owners : owners[o] = {r \in tasks : OwnerOf[r] = o}
    BY <2>2 DEF Init
  <2>5. tasks = {r \in Requests : ticket[r] \in {"granted", "retained"}}
    BY DEF Init
  <2> QED BY <1>2, <2>1, <2>2, <2>3, <2>4, <2>5 DEF BudgetHeld
<1>5. Queued
  BY DEF Init, Queued
<1> QED BY <1>1, <1>4, <1>5 DEF BudgetInv

(* Reservations never exceed the deployment's budgets, for any budgets and  *)
(* any number of requests.                                                  *)
THEOREM BudgetInvariant == Spec => []BudgetHeld
<1>1. BudgetInv /\ [Next]_vars => BudgetInv'
  BY BudgetStep
<1>2. BudgetInv => BudgetHeld
  BY DEF BudgetInv
<1> QED BY BudgetInit, <1>1, <1>2, PTL DEF Spec

-----------------------------------------------------------------------------
(* Refinement: each step of Admission is a step of ComputeBudget or leaves  *)
(* its variables alone.                                                     *)

(* Both modules count with the Cardinality of FiniteSets.                   *)
LEMMA SameCardinality == \A S : Budget!Cardinality(S) = Cardinality(S)
BY DEF Cardinality, Budget!Cardinality

LEMMA MappedUsers ==
    ASSUME BudgetHeld
    PROVE  /\ \A o \in Owners : Budget!HeldBy(o) = owners[o]
           /\ Budget!Users = Active
<1>1. \A o \in Owners : Budget!HeldBy(o) = owners[o]
  BY DEF BudgetHeld, Budget!HeldBy
<1> QED BY <1>1 DEF Budget!Users, Active

(* A reservation is an acquisition that fits.                               *)
LEMMA ReserveImplements ==
    ASSUME BudgetInv, NEW r \in Requests, ticket[r] \notin Holding,
           ~stopping, UidFree(r), HasCapacity(OwnerOf[r]),
           tasks' = tasks \cup {r}, Bind(r), stopping' = stopping
    PROVE  Budget!Next
<1>1. OwnerOf[r] \in Owners
  BY RequestAssumption
<1>2. r \notin tasks
  BY DEF BudgetInv, BudgetHeld, Holding
<1>3. Cardinality(Budget!HeldBy(OwnerOf[r])) < MaxUserTasks
  BY <1>1, MappedUsers DEF BudgetInv, HasCapacity
<1>4. OwnerOf[r] \in Budget!Users \/ Budget!Fits(Cardinality(Budget!Users) + 1)
  BY MappedUsers DEF BudgetInv, HasCapacity, AnotherUserFits, UsersFit, Budget!Fits
<1>5. Budget!Acquire(r)
  <2>1. Cardinality(tasks) < MaxTasks
    BY DEF HasCapacity
  <2>2. /\ uidOwners[UidOf[r]] \in {NoOwner, OwnerOf[r]}
        /\ uidOwners' = [uidOwners EXCEPT ![UidOf[r]] = OwnerOf[r]]
    BY DEF UidFree, Bind
  <2> QED BY <1>2, <1>3, <1>4, <2>1, <2>2, SameCardinality DEF Budget!Acquire
<1> QED BY <1>5 DEF Budget!Next

(* Binding a uid without reserving is allowed, once.                        *)
LEMMA BindImplements ==
    ASSUME TypeOK, NEW r \in Requests, ~stopping, UidFree(r), Bind(r),
           UNCHANGED <<tasks, stopping>>
    PROVE  [Budget!Next]_(Budget!vars)
<1>1. UidOf[r] \in Uids
  BY RequestAssumption
<1>2. CASE uidOwners[UidOf[r]] = NoOwner
  <2>1. Budget!Bind(r)
    BY <1>2 DEF Budget!Bind, Bind
  <2> QED BY <2>1 DEF Budget!Next
<1>3. CASE uidOwners[UidOf[r]] = OwnerOf[r]
  <2>1. uidOwners' = uidOwners
    BY <1>1, <1>3 DEF Bind, TypeOK
  <2> QED BY <2>1 DEF Budget!vars
<1> QED BY <1>2, <1>3 DEF UidFree

LEMMA PrepareImplements ==
    ASSUME BudgetInv, NEW r \in Requests, ticket[r] \notin Holding,
           ~stopping, UidFree(r), HasCapacity(OwnerOf[r]),
           NEW f, Prepare(r, f), Bind(r), stopping' = stopping
    PROVE  [Budget!Next]_(Budget!vars)
<1>1. CASE tasks' = tasks \cup {r}
  BY <1>1, ReserveImplements
<1>2. CASE tasks' = tasks
  BY <1>2, BindImplements DEF BudgetInv
<1> QED BY <1>1, <1>2 DEF Prepare

LEMMA GrantImplements ==
    ASSUME BudgetInv, NEW r \in Requests, ticket[r] \notin Holding, Grant(r),
           stopping' = stopping
    PROVE  [Budget!Next]_(Budget!vars)
<1>1. CASE UNCHANGED ledgerVars
  BY <1>1 DEF ledgerVars, Budget!vars
<1> QED BY <1>1, PrepareImplements DEF Grant

LEMMA ImplementationStep ==
    ASSUME BudgetInv, [Next]_vars
    PROVE  [Budget!Next]_(Budget!vars)
<1>1. ASSUME NEW r \in Requests, Fresh(r), SubmitGranted(r)
      PROVE  [Budget!Next]_(Budget!vars)
  <2>1. ticket[r] \notin Holding
    BY <1>1 DEF Fresh, Holding
  <2> QED BY <1>1, <2>1, GrantImplements DEF SubmitGranted
<1>2. ASSUME NEW r \in Requests, SubmitFull(r) \/ SubmitQueued(r)
      PROVE  [Budget!Next]_(Budget!vars)
  BY <1>2, BindImplements DEF SubmitFull, SubmitQueued, BudgetInv
<1>3. ASSUME NEW r \in Requests, PrepareDirect(r)
      PROVE  [Budget!Next]_(Budget!vars)
  <2>1. ticket[r] \notin Holding /\ stopping' = stopping
    BY <1>3 DEF PrepareDirect, Fresh, Holding
  <2>2. CASE UNCHANGED ledgerVars
    BY <2>1, <2>2 DEF ledgerVars, Budget!vars
  <2>3. ASSUME ~stopping, UidFree(r), HasCapacity(OwnerOf[r]),
               NEW f \in Outcomes, Prepare(r, f),
               IF f = "create" THEN UNCHANGED uidOwners ELSE Bind(r)
        PROVE  [Budget!Next]_(Budget!vars)
    <3>1. CASE f = "create"
      <4>1. UNCHANGED <<tasks, uidOwners>>
        BY <2>3, <3>1 DEF Prepare
      <4> QED BY <2>1, <4>1 DEF Budget!vars
    <3>2. CASE f # "create"
      BY <2>1, <2>3, <3>2, PrepareImplements
    <3> QED BY <3>1, <3>2
  <2> QED BY <1>3, <2>2, <2>3 DEF PrepareDirect
<1>4. ASSUME NEW r \in Requests, Release(r)
      PROVE  [Budget!Next]_(Budget!vars)
  <2>1. r \in tasks
    BY <1>4 DEF Release, BudgetInv, BudgetHeld
  <2>2. Budget!Release(r)
    BY <1>4, <2>1 DEF Release, Budget!Release
  <2> QED BY <2>2 DEF Budget!Next
<1>5. CASE Shutdown
  <2>1. Budget!Stop
    BY <1>5 DEF Shutdown, Budget!Stop, ledgerVars
  <2> QED BY <2>1 DEF Budget!Next
<1>6. CASE Serve
  <2>1. PICK i \in DOMAIN ring :
          /\ waiting[ring[i]] # <<>>
          /\ RemoveFrom(Rotated(i), Head(waiting[ring[i]]))
          /\ IF Head(waiting[ring[i]]) \in expired
               THEN Refuse(Head(waiting[ring[i]])) /\ UNCHANGED <<ledgerVars, lastOwner>>
               ELSE Grant(Head(waiting[ring[i]]))
    BY <1>6 DEF Serve
  <2> DEFINE r == Head(waiting[ring[i]])
  <2>2. ring[i] \in Owners /\ r \in Requests
    BY <2>1, ElementOfSeq, LenProperties, HeadTailProperties DEF BudgetInv, TypeOK
  <2>3. OwnerOf[r] \in Owners
    BY <2>2, RequestAssumption
  <2>4. ticket[r] \notin Holding
    BY <2>1, <2>3 DEF RemoveFrom, BudgetInv, Queued, Holding
  <2>5. stopping' = stopping
    BY <1>6 DEF Serve
  <2>6. CASE UNCHANGED ledgerVars
    BY <2>5, <2>6 DEF ledgerVars, Budget!vars
  <2> HIDE DEF r
  <2>7. CASE Grant(r)
    BY <2>2, <2>4, <2>5, <2>7, GrantImplements
  <2> QED BY <2>1, <2>6, <2>7 DEF r
<1>7. ASSUME NEW r \in Requests, SubmitRefused(r) \/ Cancel(r)
      PROVE  [Budget!Next]_(Budget!vars)
  BY <1>7 DEF SubmitRefused, Cancel, ledgerVars, Budget!vars
<1>8. CASE Time \/ WorkerResume \/ DropExpired \/ DropDone \/ Sleep \/ UNCHANGED vars
  BY <1>8 DEF Time, Expire, WakeTimeout, WorkerResume, DropExpired, DropDone, Sleep,
              vars, ledgerVars, Budget!vars
<1> QED BY <1>1, <1>2, <1>3, <1>4, <1>5, <1>6, <1>7, <1>8
        DEF Next, Handlers, Worker, Submit

(* The admission controller keeps the manager's promise: each reservation   *)
(* it makes fits the budgets at that moment, is made for the owner its uid  *)
(* is bound to, and is never made once the manager is stopping.             *)
THEOREM BudgetImplemented == Spec => ImplementsBudget
<1>1. Init => Budget!Init
  BY DEF Init, Budget!Init
<1>2. BudgetInv /\ [Next]_vars => BudgetInv'
  BY BudgetStep
<1>3. BudgetInv /\ [Next]_vars => [Budget!Next]_(Budget!vars)
  BY ImplementationStep
<1> QED BY BudgetInit, <1>1, <1>2, <1>3, PTL DEF Spec, ImplementsBudget, Budget!Spec

-----------------------------------------------------------------------------
(***************************************************************************)
(* The queue: ring, waiting, count, expired and the tickets describe the   *)
(* same waiters after every handler and every step of the worker's pass.   *)
(***************************************************************************)
QueueInv == BudgetInv /\ QueueConsistent

LEMMA PendingFinite == IsFiniteSet(Pending) /\ Pending \subseteq Requests
BY RequestAssumption, FS_Subset DEF Pending

(* A step beside the queue.                                                 *)
LEMMA QueueUnmoved ==
    ASSUME QueueConsistent, UNCHANGED queueVars, Pending' = Pending
    PROVE  QueueConsistent'
BY DEF QueueConsistent, queueVars

(* A ticket leaves, while the ring may have been rotated.                   *)
LEMMA QueueRemove ==
    ASSUME QueueInv, NEW base \in Seq(Owners), IsInjective(base),
           Range(base) = Range(ring), NEW r \in Pending, RemoveFrom(base, r),
           Pending' = Pending \ {r}
    PROVE  QueueConsistent'
<1> DEFINE p == OwnerOf[r]
           w == waiting[p]
<1>1. r \in Requests /\ p \in Owners /\ TypeOK /\ w \in Seq(Requests)
  BY RequestAssumption DEF Pending, QueueInv, BudgetInv, TypeOK
<1>2. PICK k \in DOMAIN w :
        /\ w[k] = r
        /\ waiting' = [waiting EXCEPT ![p] = RemoveAt(@, k)]
        /\ IF Len(w) = 1
             THEN \E j \in DOMAIN base : base[j] = p /\ ring' = RemoveAt(base, j)
             ELSE ring' = base
  BY DEF RemoveFrom
<1>3. /\ waiting'[p] = RemoveAt(w, k)
      /\ \A o \in Owners \ {p} : waiting'[o] = waiting[o]
  BY <1>1, <1>2 DEF TypeOK
<1>4. /\ IsInjective(w) /\ Range(w) = {q \in Pending : OwnerOf[q] = p}
      /\ Len(w) <= MaxUserQueue /\ Len(w) \in Nat /\ DOMAIN w = 1 .. Len(w)
  BY <1>1, LenProperties DEF QueueInv, QueueConsistent
<1> HIDE DEF w
<1> DEFINE v == RemoveAt(w, k)
<1>5. /\ IsInjective(v) /\ Range(v) = Range(w) \ {r}
      /\ v \in Seq(Requests) /\ Len(v) = Len(w) - 1
  <2>1. IsInjective(v) /\ Range(v) = Range(w) \ {w[k]}
    BY <1>1, <1>4, RemoveAtUnique
  <2>2. v \in Seq(Requests) /\ Len(v) = Len(w) - 1
    BY <1>1, RemoveAtProperties
  <2> QED BY <1>2, <2>1, <2>2
<1> HIDE DEF v
<1>6. ASSUME NEW o \in Owners
      PROVE  /\ IsInjective(waiting'[o])
             /\ Range(waiting'[o]) = {q \in Pending \ {r} : OwnerOf[q] = o}
             /\ Len(waiting'[o]) <= MaxUserQueue
  <2>1. CASE o = p
    <3>1. waiting'[o] = v
      BY <1>3, <2>1 DEF v
    <3>2. Len(v) <= MaxUserQueue
      BY <1>4, <1>5, PolicyAssumption
    <3> QED BY <1>4, <1>5, <2>1, <3>1, <3>2
  <2>2. CASE o # p
    <3>1. waiting'[o] = waiting[o]
      BY <1>3, <2>2
    <3>2. {q \in Pending \ {r} : OwnerOf[q] = o} = {q \in Pending : OwnerOf[q] = o}
      BY <2>2
    <3> QED BY <3>1, <3>2 DEF QueueInv, QueueConsistent
  <2> QED BY <2>1, <2>2
<1>7. p \in Range(ring) /\ w # <<>>
  <2>1. w # <<>>
    BY <1>1, <1>2, <1>4, EmptySeq
  <2> QED BY <1>1, <2>1 DEF QueueInv, QueueConsistent, w
<1>8. IsInjective(ring') /\ Range(ring') = {o \in Owners : waiting'[o] # <<>>}
  <2>1. \A o \in Owners \ {p} : waiting'[o] # <<>> <=> o \in Range(ring)
    BY <1>3 DEF QueueInv, QueueConsistent
  <2>2. CASE Len(w) = 1
    <3>1. waiting'[p] = <<>>
      BY <1>3, <1>5, <2>2, EmptySeq DEF v
    <3>2. PICK j \in DOMAIN base : base[j] = p /\ ring' = RemoveAt(base, j)
      BY <1>2, <2>2 DEF w
    <3>3. IsInjective(ring') /\ Range(ring') = Range(ring) \ {p}
      BY <3>2, RemoveAtUnique
    <3>4. Range(ring) \subseteq Owners
      BY DEF QueueInv, QueueConsistent
    <3> QED BY <2>1, <3>1, <3>3, <3>4
  <2>3. CASE Len(w) # 1
    <3>1. waiting'[p] # <<>>
      BY <1>2, <1>3, <1>4, <1>5, <2>3, EmptySeq DEF v
    <3>2. ring' = base
      BY <1>2, <2>3 DEF w
    <3>3. Range(ring) \subseteq Owners
      BY DEF QueueInv, QueueConsistent
    <3> QED BY <1>1, <1>7, <2>1, <3>1, <3>2, <3>3
  <2> QED BY <2>2, <2>3
<1>9. count' = Cardinality(Pending') /\ count' <= MaxQueue
  <2>1. Cardinality(Pending \ {r}) = Cardinality(Pending) - 1
    BY PendingFinite, FS_RemoveElement
  <2>2. count = Cardinality(Pending) /\ count <= MaxQueue /\ count' = count - 1
    BY DEF QueueInv, QueueConsistent, RemoveFrom
  <2>3. Cardinality(Pending) \in Nat
    BY PendingFinite, FS_CardinalityType
  <2> QED BY <2>1, <2>2, <2>3, PolicyAssumption
<1>10. expired' \subseteq Pending'
  BY DEF QueueInv, QueueConsistent, RemoveFrom
<1> QED BY <1>6, <1>8, <1>9, <1>10 DEF QueueConsistent

(* A ticket enters, and its owner with it if it has none there.             *)
LEMMA QueueEnqueue ==
    ASSUME QueueInv, NEW r \in Requests, ticket[r] # "pending", Enqueue(r),
           ~QueueFull(OwnerOf[r]), expired' = expired
    PROVE  QueueConsistent'
<1> DEFINE p == OwnerOf[r]
           w == waiting[p]
           v == Append(w, r)
<1>1. p \in Owners /\ TypeOK /\ w \in Seq(Requests) /\ ring \in Seq(Owners)
  BY RequestAssumption DEF QueueInv, BudgetInv, TypeOK
<1>2. Pending' = Pending \cup {r} /\ r \notin Pending
  BY <1>1 DEF Pending, Enqueue, TypeOK
<1>3. waiting'[p] = v /\ \A o \in Owners \ {p} : waiting'[o] = waiting[o]
  BY <1>1 DEF TypeOK, Enqueue
<1>4. IsInjective(w) /\ Range(w) = {q \in Pending : OwnerOf[q] = p} /\ Len(w) \in Nat
  BY <1>1, LenProperties DEF QueueInv, QueueConsistent
<1>5. IsInjective(v) /\ Range(v) = Range(w) \cup {r} /\ Len(v) = Len(w) + 1
  BY <1>1, <1>2, <1>4, AppendUnique
<1>6. Len(w) < MaxUserQueue /\ count < MaxQueue
  BY <1>1, <1>4, PolicyAssumption DEF QueueFull, TypeOK
<1>7. v # <<>>
  <2>1. v \in Seq(Requests)
    BY <1>1
  <2> QED BY <2>1, <1>4, <1>5, EmptySeq
<1> HIDE DEF v, w
<1>8. ASSUME NEW o \in Owners
      PROVE  /\ IsInjective(waiting'[o])
             /\ Range(waiting'[o]) = {q \in Pending \cup {r} : OwnerOf[q] = o}
             /\ Len(waiting'[o]) <= MaxUserQueue
  <2>1. CASE o = p
    <3>1. Len(v) <= MaxUserQueue
      BY <1>4, <1>5, <1>6, PolicyAssumption
    <3> QED BY <1>3, <1>4, <1>5, <2>1, <3>1
  <2>2. CASE o # p
    <3>1. waiting'[o] = waiting[o]
      BY <1>3, <2>2
    <3>2. {q \in Pending \cup {r} : OwnerOf[q] = o} = {q \in Pending : OwnerOf[q] = o}
      BY <2>2
    <3> QED BY <3>1, <3>2 DEF QueueInv, QueueConsistent
  <2> QED BY <2>1, <2>2
<1>9. IsInjective(ring) /\ Range(ring) = {o \in Owners : waiting[o] # <<>>}
  BY DEF QueueInv, QueueConsistent
<1>10. IsInjective(ring') /\ Range(ring') = Range(ring) \cup {p}
  <2>1. CASE w # <<>>
    <3>1. ring' = ring
      BY <2>1 DEF Enqueue, w
    <3> QED BY <1>1, <1>9, <2>1, <3>1 DEF w
  <2>2. CASE w = <<>>
    <3>1. p \notin Range(ring) /\ ring' = EnterRing(p)
      BY <1>9, <2>2 DEF Enqueue, w
    <3> QED BY <1>1, <1>9, <3>1, AppendUnique, InsertUnique DEF EnterRing
  <2> QED BY <2>1, <2>2
<1>11. Range(ring') = {o \in Owners : waiting'[o] # <<>>}
  <2>1. \A o \in Owners : waiting'[o] # <<>> <=> o \in Range(ring) \cup {p}
    BY <1>3, <1>7, <1>9
  <2> QED BY <1>1, <1>9, <1>10, <2>1
<1>12. count' = Cardinality(Pending') /\ count' <= MaxQueue
  <2>1. Cardinality(Pending \cup {r}) = Cardinality(Pending) + 1
    BY <1>2, PendingFinite, FS_AddElement
  <2>2. count = Cardinality(Pending) /\ count' = count + 1 /\ count \in Int
    BY <1>1 DEF QueueInv, QueueConsistent, Enqueue, TypeOK
  <2> QED BY <1>2, <1>6, <2>1, <2>2, PolicyAssumption
<1>13. expired' \subseteq Pending'
  BY <1>2 DEF QueueInv, QueueConsistent
<1> QED BY <1>2, <1>8, <1>10, <1>11, <1>12, <1>13 DEF QueueConsistent

(* What a served ticket is: the oldest one of an owner in the ring.         *)
LEMMA Served ==
    ASSUME QueueInv, Serve
    PROVE  \E i \in DOMAIN ring, r \in Pending :
              /\ ring[i] \in Owners /\ OwnerOf[r] = ring[i] /\ Eligible(ring[i])
              /\ FirstEligible(i)
              /\ waiting[ring[i]] # <<>> /\ r = Head(waiting[ring[i]])
              /\ RemoveFrom(Rotated(i), r)
              /\ \/ Refuse(r) /\ UNCHANGED <<ledgerVars, lastOwner>>
                 \/ Grant(r)
              /\ worker = "granting" /\ UNCHANGED <<stopping, worker>>
<1>1. PICK i \in DOMAIN ring :
        /\ FirstEligible(i)
        /\ waiting[ring[i]] # <<>>
        /\ RemoveFrom(Rotated(i), Head(waiting[ring[i]]))
        /\ IF Head(waiting[ring[i]]) \in expired
             THEN Refuse(Head(waiting[ring[i]])) /\ UNCHANGED <<ledgerVars, lastOwner>>
             ELSE Grant(Head(waiting[ring[i]]))
  BY DEF Serve
<1> DEFINE r == Head(waiting[ring[i]])
           o == ring[i]
<1>2. o \in Owners /\ waiting[o] \in Seq(Requests)
  BY ElementOfSeq, LenProperties DEF QueueInv, BudgetInv, TypeOK
<1>3. waiting[o] # <<>>
  BY <1>1
<1>4. r \in Range(waiting[o])
  <2>1. Len(waiting[o]) \in Nat /\ DOMAIN waiting[o] = 1 .. Len(waiting[o])
        /\ Len(waiting[o]) # 0
    BY <1>2, <1>3, LenProperties, EmptySeq
  <2>2. 1 \in DOMAIN waiting[o] /\ r = waiting[o][1]
    BY <1>2, <1>3, <2>1
  <2> QED BY <2>2 DEF Range
<1>5. r \in Pending /\ OwnerOf[r] = o
  BY <1>2, <1>4 DEF QueueInv, QueueConsistent
<1>6. worker = "granting" /\ UNCHANGED <<stopping, worker>>
  BY DEF Serve
<1>7. Eligible(o)
  BY <1>1 DEF FirstEligible
<1> HIDE DEF r, o
<1> QED BY <1>1, <1>2, <1>5, <1>6, <1>7 DEF r, o

(* Every step keeps the queue consistent.                                   *)
LEMMA QueueStep == ASSUME QueueInv, [Next]_vars PROVE QueueInv'
<1>0. BudgetInv' /\ TypeOK
  BY BudgetStep DEF QueueInv, BudgetInv
<1> SUFFICES QueueConsistent'
  BY <1>0 DEF QueueInv
<1>1. QueueConsistent
  BY DEF QueueInv
<1>2. ASSUME NEW r \in Requests, ticket[r] # "pending", NEW t \in TicketStates \ {"pending"},
             ticket' = [ticket EXCEPT ![r] = t], UNCHANGED queueVars
      PROVE  QueueConsistent'
  <2>1. Pending' = Pending
    BY <1>0, <1>2 DEF Pending, TypeOK
  <2> QED BY <1>1, <1>2, <2>1, QueueUnmoved
<1>3. ASSUME NEW r \in Requests, NEW f, Prepare(r, f)
      PROVE  \E t \in TicketStates \ {"pending"} : ticket' = [ticket EXCEPT ![r] = t]
  BY <1>3 DEF Prepare, TicketStates
<1>4. ASSUME NEW r \in Requests, Refuse(r) \/ Grant(r)
      PROVE  \E t \in TicketStates \ {"pending"} : ticket' = [ticket EXCEPT ![r] = t]
  BY <1>3, <1>4 DEF Grant, Refuse, TicketStates
<1>5. ASSUME NEW r \in Requests, LockFree, Fresh(r),
             SubmitRefused(r) \/ SubmitGranted(r) \/ SubmitFull(r) \/ PrepareDirect(r)
      PROVE  QueueConsistent'
  <2>1. UNCHANGED queueVars /\ ticket[r] # "pending"
    BY <1>5 DEF SubmitRefused, SubmitGranted, SubmitFull, PrepareDirect, queueVars, Fresh
  <2>2. \E t \in TicketStates \ {"pending"} : ticket' = [ticket EXCEPT ![r] = t]
    BY <1>3, <1>4, <1>5 DEF SubmitRefused, SubmitGranted, SubmitFull, PrepareDirect
  <2> QED BY <1>2, <2>1, <2>2
<1>6. ASSUME NEW r \in Requests, Fresh(r), SubmitQueued(r)
      PROVE  QueueConsistent'
  BY <1>6, QueueEnqueue DEF SubmitQueued, Fresh
<1>7. ASSUME NEW r \in Requests, Cancel(r)
      PROVE  QueueConsistent'
  <2>1. r \in Pending /\ Pending' = Pending \ {r} /\ RemoveFrom(ring, r)
    BY <1>0, <1>7 DEF Cancel, Pending, TypeOK
  <2>2. ring \in Seq(Owners) /\ IsInjective(ring)
    BY <1>0, <1>1 DEF TypeOK, QueueConsistent
  <2> QED BY <2>1, <2>2, QueueRemove
<1>8. ASSUME NEW r \in Requests, Release(r)
      PROVE  QueueConsistent'
  <2>1. UNCHANGED queueVars /\ ticket[r] # "pending" /\ ticket' = [ticket EXCEPT ![r] = "none"]
    BY <1>8 DEF Release, queueVars
  <2>2. "none" \in TicketStates \ {"pending"}
    BY DEF TicketStates
  <2> QED BY <1>2, <2>1, <2>2
<1>9. CASE Shutdown
  <2>1. /\ ring' = <<>> /\ waiting' = [o \in Owners |-> <<>>] /\ count' = 0 /\ expired' = {}
        /\ Pending' = {}
    BY <1>9 DEF Shutdown, Pending
  <2>2. Cardinality({}) = 0 /\ Len(<<>>) = 0 /\ DOMAIN <<>> = {}
    BY FS_EmptySet
  <2>3. IsInjective(<<>>) /\ Range(<<>>) = {}
    BY <2>2 DEF IsInjective, Range
  <2>4. \A o \in Owners : waiting'[o] = <<>>
    BY <2>1
  <2>5. 0 <= MaxUserQueue /\ 0 <= MaxQueue
    BY PolicyAssumption
  <2> QED BY <2>1, <2>2, <2>3, <2>4, <2>5 DEF QueueConsistent
<1>10. ASSUME NEW r \in Requests, Expire(r)
       PROVE  QueueConsistent'
  <2>1. /\ UNCHANGED <<ring, waiting, count, ticket>> /\ expired' = expired \cup {r}
        /\ Pending' = Pending /\ r \in Pending
    BY <1>10 DEF Expire, Pending
  <2> QED BY <1>1, <2>1 DEF QueueConsistent
<1>11. CASE WakeTimeout \/ WorkerResume \/ DropDone \/ Sleep \/ UNCHANGED vars
  <2>1. UNCHANGED queueVars /\ Pending' = Pending
    BY <1>11 DEF WakeTimeout, WorkerResume, DropDone, Sleep, vars, queueVars, Pending
  <2> QED BY <1>1, <2>1, QueueUnmoved
<1>12. CASE DropExpired
  <2>1. PICK r \in expired : RemoveFrom(ring, r) /\ Refuse(r)
    BY <1>12 DEF DropExpired
  <2>2. r \in Pending /\ Pending' = Pending \ {r}
    BY <1>0, <1>1, <2>1 DEF QueueConsistent, Refuse, Pending, TypeOK
  <2>3. ring \in Seq(Owners) /\ IsInjective(ring)
    BY <1>0, <1>1 DEF TypeOK, QueueConsistent
  <2> QED BY <2>1, <2>2, <2>3, QueueRemove
<1>13. CASE Serve
  <2>1. PICK i \in DOMAIN ring, r \in Pending :
          /\ RemoveFrom(Rotated(i), r)
          /\ Refuse(r) \/ Grant(r)
    BY <1>13, Served
  <2>2. r \in Requests
    BY DEF Pending
  <2>3. Pending' = Pending \ {r}
    <3>1. PICK t \in TicketStates \ {"pending"} : ticket' = [ticket EXCEPT ![r] = t]
      BY <1>4, <2>1, <2>2
    <3> QED BY <1>0, <2>2, <3>1 DEF Pending, TypeOK
  <2>4. /\ Rotated(i) \in Seq(Owners) /\ IsInjective(Rotated(i))
        /\ Range(Rotated(i)) = Range(ring)
    BY <1>0, <1>1, RotatedType, RotatedUnique DEF TypeOK, QueueConsistent
  <2> QED BY <2>1, <2>3, <2>4, QueueRemove
<1> QED
  BY <1>5, <1>6, <1>7, <1>8, <1>9, <1>10, <1>11, <1>12, <1>13
     DEF Next, Handlers, Worker, Time, Submit, PrepareDirect

LEMMA QueueInit == Init => QueueInv
<1> SUFFICES ASSUME Init PROVE QueueConsistent
  BY BudgetInit DEF QueueInv
<1>1. Pending = {} /\ Cardinality({}) = 0 /\ Len(<<>>) = 0 /\ DOMAIN <<>> = {}
  BY FS_EmptySet DEF Init, Pending
<1>2. IsInjective(<<>>) /\ Range(<<>>) = {}
  BY <1>1 DEF IsInjective, Range
<1>3. ring = <<>> /\ count = 0 /\ expired = {} /\ \A o \in Owners : waiting[o] = <<>>
  BY DEF Init
<1>4. 0 <= MaxUserQueue /\ 0 <= MaxQueue
  BY PolicyAssumption
<1> QED BY <1>1, <1>2, <1>3, <1>4 DEF QueueConsistent

LEMMA QueueInvariant == Spec => []QueueInv
<1>1. QueueInv /\ [Next]_vars => QueueInv'
  BY QueueStep
<1> QED BY QueueInit, <1>1, PTL DEF Spec

(* The five representations of the queue agree, and its limits hold.        *)
THEOREM QueueAgrees == Spec => []QueueConsistent
<1>1. QueueInv => QueueConsistent
  BY DEF QueueInv
<1> QED BY QueueInvariant, <1>1, PTL

-----------------------------------------------------------------------------
(***************************************************************************)
(* Wake-ups: once stopping the queue stays empty, and while the worker     *)
(* sleeps every step that could make an owner eligible notifies it.        *)
(***************************************************************************)
WakeInv ==
    /\ QueueInv
    /\ NoLostWakeup
    /\ stopping => count = 0
    /\ worker = "done" => stopping

(* Nobody waits when the count is zero.                                     *)
LEMMA EmptyQueue ==
    ASSUME QueueInv, count = 0
    PROVE  /\ Pending = {} /\ Range(ring) = {}
           /\ \A o \in Owners : waiting[o] = <<>>
<1>1. Pending = {}
  BY PendingFinite, FS_EmptySet DEF QueueInv, QueueConsistent
<1>2. ASSUME NEW o \in Owners PROVE waiting[o] = <<>>
  <2>1. waiting[o] \in Seq(Requests) /\ Range(waiting[o]) = {}
    BY <1>1 DEF QueueInv, BudgetInv, TypeOK, QueueConsistent
  <2>2. Len(waiting[o]) \in Nat /\ DOMAIN waiting[o] = 1 .. Len(waiting[o])
    BY <2>1, LenProperties
  <2>3. Len(waiting[o]) = 0
    <3>1. Len(waiting[o]) # 0 => 1 \in DOMAIN waiting[o]
      BY <2>2
    <3> QED BY <2>1, <3>1 DEF Range
  <2> QED BY <2>1, <2>3, EmptySeq
<1> QED BY <1>1, <1>2 DEF QueueInv, QueueConsistent

(* A step that the worker sleeps through, or that notifies it.              *)
LEMMA WakeKept ==
    ASSUME WakeInv, UNCHANGED <<count, stopping>>,
           \/ worker' = worker
           \/ Notify
           \/ worker = "off" /\ worker' = "ready",
           \/ worker' # "waiting"
           \/ Range(ring') = {}
           \/ UNCHANGED <<tasks, owners, waiting, ring>>
    PROVE  NoLostWakeup' /\ (stopping => count = 0)' /\ (worker = "done" => stopping)'
<1>1. worker' \in {"off", "done"} => worker' = worker
  BY DEF Notify
<1>2. worker' = "waiting" => worker = "waiting"
  BY DEF Notify
<1>3. CASE UNCHANGED <<tasks, owners, waiting, ring>>
  <2>1. \A o : Eligible(o)' <=> Eligible(o)
    BY <1>3 DEF Eligible, HasCapacity, Active, AnotherUserFits, UsersFit, NewUserWaiting
  <2> QED BY <1>1, <1>2, <1>3, <2>1 DEF WakeInv, NoLostWakeup
<1> QED BY <1>1, <1>2, <1>3 DEF WakeInv, NoLostWakeup

LEMMA WakeStep == ASSUME WakeInv, [Next]_vars PROVE WakeInv'
<1>0. QueueInv /\ QueueInv' /\ TypeOK
  BY QueueStep DEF WakeInv, QueueInv, BudgetInv
<1> DEFINE Rest == NoLostWakeup /\ (stopping => count = 0) /\ (worker = "done" => stopping)
<1> SUFFICES Rest'
  BY <1>0 DEF WakeInv
<1>1. ASSUME NEW r \in Requests, NEW f, Prepare(r, f)
      PROVE  worker' = worker \/ Notify
  BY <1>1 DEF Prepare
<1>2. ASSUME NEW r \in Requests,
             \/ SubmitRefused(r) \/ SubmitFull(r)
             \/ PrepareDirect(r) /\ Refuse(r) /\ UNCHANGED <<ledgerVars, worker>>
      PROVE  Rest'
  <2>1. UNCHANGED <<count, stopping, worker, tasks, owners, waiting, ring>>
    BY <1>2 DEF SubmitRefused, SubmitFull, PrepareDirect, ledgerVars, queueVars
  <2> QED BY <2>1, WakeKept
<1>3. ASSUME NEW r \in Requests, count = 0, UNCHANGED <<queueVars, stopping>>,
             worker' = worker \/ Notify
      PROVE  Rest'
  <2>1. Range(ring') = {} /\ count' = count
    BY <1>0, <1>3, EmptyQueue DEF queueVars
  <2> QED BY <1>3, <2>1, WakeKept
<1>4. ASSUME NEW r \in Requests, SubmitGranted(r)
      PROVE  Rest'
  <2>1. count = 0 /\ UNCHANGED <<queueVars, stopping>> /\ Grant(r)
    BY <1>4 DEF SubmitGranted
  <2> QED BY <1>1, <1>3, <2>1 DEF Grant
<1>5. ASSUME NEW r \in Requests, PrepareDirect(r)
      PROVE  Rest'
  <2>1. UNCHANGED <<queueVars, stopping>>
    BY <1>5 DEF PrepareDirect
  <2> QED BY <1>1, <1>2, <1>3, <1>5, <2>1 DEF PrepareDirect
<1>6. ASSUME NEW r \in Requests, SubmitQueued(r)
      PROVE  Rest'
  <2>1. /\ ~stopping /\ stopping' = stopping
        /\ worker' = IF worker \in {"off", "waiting"} THEN "ready" ELSE worker
    BY <1>6 DEF SubmitQueued, Enqueue, Notify
  <2> QED BY <2>1 DEF NoLostWakeup, WakeInv
<1>7. ASSUME NEW r \in Requests, Cancel(r)
      PROVE  Rest'
  <2>1. count # 0
    BY <1>0, <1>7, EmptyQueue DEF Cancel, Pending
  <2>2. Notify /\ stopping' = stopping
    BY <1>7 DEF Cancel
  <2> QED BY <2>1, <2>2 DEF Notify, NoLostWakeup, WakeInv
<1>8. ASSUME NEW r \in Requests, Release(r)
      PROVE  Rest'
  <2>1. Notify /\ UNCHANGED <<count, stopping>>
    BY <1>8 DEF Release, queueVars
  <2>2. worker' # "waiting"
    BY <2>1 DEF Notify
  <2> QED BY <2>1, <2>2, WakeKept
<1>9. CASE Shutdown
  BY <1>9 DEF Shutdown, Notify, NoLostWakeup, WakeInv
<1>10. CASE (\E r \in Requests : Expire(r)) \/ UNCHANGED vars
  <2>1. UNCHANGED <<count, stopping, worker, tasks, owners, waiting, ring>>
    BY <1>10 DEF Expire, ledgerVars, vars
  <2> QED BY <2>1, WakeKept
<1>11. CASE WakeTimeout \/ WorkerResume \/ DropDone
  BY <1>11
  DEF WakeTimeout, WorkerResume, DropDone, queueVars, NoLostWakeup, WakeInv
<1>12. CASE DropExpired \/ Serve
  <2>1. worker' \in {"dropping", "granting"} /\ stopping' = stopping
    BY <1>12 DEF DropExpired, Serve
  <2>2. count # 0
    <3>1. Pending # {}
      BY <1>0, <1>12, Served DEF DropExpired, QueueInv, QueueConsistent
    <3> QED BY <1>0, <3>1, EmptyQueue
  <2> QED BY <2>1, <2>2 DEF NoLostWakeup, WakeInv
<1>13. CASE Sleep
  <2>1. /\ worker' = "waiting" /\ UNCHANGED <<tasks, owners, waiting, ring, count, stopping>>
        /\ \A i \in DOMAIN ring : ~Eligible(ring[i])
    BY <1>13 DEF Sleep, ledgerVars, queueVars
  <2>2. \A o : Eligible(o)' <=> Eligible(o)
    BY <2>1 DEF Eligible, HasCapacity, Active, AnotherUserFits, UsersFit, NewUserWaiting
  <2>3. \A o \in Range(ring) : ~Eligible(o)
    BY <2>1 DEF Range
  <2> QED BY <2>1, <2>2, <2>3 DEF NoLostWakeup, WakeInv
<1> QED
  BY <1>2, <1>4, <1>5, <1>6, <1>7, <1>8, <1>9, <1>10, <1>11, <1>12, <1>13
     DEF Next, Handlers, Worker, Time, Submit

(* No wake-up is lost: a sleeping worker has nobody it could serve, and     *)
(* without a worker nobody waits.                                           *)
THEOREM WakeUpsArrive == Spec => []NoLostWakeup
<1>1. Init => WakeInv
  BY QueueInit DEF Init, WakeInv, NoLostWakeup
<1>2. WakeInv /\ [Next]_vars => WakeInv'
  BY WakeStep
<1>3. WakeInv => NoLostWakeup
  BY DEF WakeInv
<1> QED BY <1>1, <1>2, <1>3, PTL DEF Spec

-----------------------------------------------------------------------------
(* Who is granted: a newcomer while nobody waits, or the ticket served.     *)
LEMMA WhoIsGranted ==
    ASSUME QueueInv, Next, NEW r \in Requests, Granted(r)
    PROVE  \/ count = 0
           \/ Serve /\ \E i \in DOMAIN ring :
                 /\ ring[i] \in Owners /\ OwnerOf[r] = ring[i] /\ Eligible(ring[i])
                 /\ r \in Pending /\ r = Head(waiting[ring[i]])
<1>0. TypeOK
  BY DEF QueueInv, BudgetInv
<1>1. ASSUME NEW q \in Requests, Refuse(q)
      PROVE  FALSE
  BY <1>0, <1>1 DEF Refuse, Granted, TypeOK
<1>2. CASE Serve
  <2>1. PICK i \in DOMAIN ring, q \in Pending :
          /\ ring[i] \in Owners /\ OwnerOf[q] = ring[i] /\ Eligible(ring[i])
          /\ q = Head(waiting[ring[i]])
          /\ Refuse(q) \/ Grant(q)
    BY <1>2, Served
  <2>2. r = q
    BY <1>0, <2>1 DEF Pending, Granted, Refuse, Grant, Prepare, TypeOK
  <2> QED BY <1>2, <2>1, <2>2
<1>3. ASSUME NEW q \in Requests, Submit(q) \/ PrepareDirect(q)
      PROVE  count = 0
  <2>1. CASE SubmitQueued(q)
    BY <1>0, <2>1 DEF SubmitQueued, Enqueue, Granted, TypeOK
  <2> QED BY <1>1, <1>3, <2>1
          DEF Submit, SubmitRefused, SubmitGranted, SubmitFull, PrepareDirect
<1>4. CASE \/ \E q \in Requests : Cancel(q) \/ Release(q) \/ Expire(q)
           \/ Shutdown \/ WakeTimeout \/ WorkerResume \/ DropDone \/ Sleep
  BY <1>0, <1>4 DEF Cancel, Release, Expire, Shutdown, WakeTimeout, WorkerResume,
                    DropDone, Sleep, Granted, TypeOK
<1>5. CASE DropExpired
  BY <1>0, <1>1, <1>5 DEF DropExpired, TypeOK
<1> QED BY <1>2, <1>3, <1>4, <1>5 DEF Next, Handlers, Worker, Time

(* No caller jumps the queue, neither a submitter nor a direct prepare.     *)
THEOREM QueueRespected == Spec => GrantRespectsQueue
<1>1. ASSUME QueueInv, Next, NEW r \in Requests, Granted(r)
      PROVE  IF r \in Pending THEN Head(waiting[OwnerOf[r]]) = r ELSE Pending = {}
  BY <1>1, WhoIsGranted, EmptyQueue
<1>2. QueueInv /\ [Next]_vars
        => [\A r \in Requests : Granted(r) =>
              IF r \in Pending THEN Head(waiting[OwnerOf[r]]) = r ELSE Pending = {}]_vars
  BY <1>1
<1> QED BY QueueInvariant, <1>2, PTL DEF Spec, GrantRespectsQueue

(* An owner with a task never renews ahead of a new user who waits and does *)
(* not fit beside the active ones.                                          *)
THEOREM NewUsersFirst == Spec => NewUserFirst
<1>1. ASSUME QueueInv, Next, NEW r \in Requests, Granted(r), OwnerOf[r] \in Active
      PROVE  ~NewUserWaiting \/ AnotherUserFits
  <2>1. CASE count = 0
    BY <1>1, <2>1, EmptyQueue DEF NewUserWaiting
  <2>2. CASE Eligible(OwnerOf[r])
    BY <1>1, <2>2 DEF Eligible
  <2> QED BY <1>1, <2>1, <2>2, WhoIsGranted
<1>2. QueueInv /\ [Next]_vars
        => [\A r \in Requests : Granted(r) /\ OwnerOf[r] \in Active =>
              ~NewUserWaiting \/ AnotherUserFits]_vars
  BY <1>1
<1> QED BY QueueInvariant, <1>2, PTL DEF Spec, NewUserFirst

-----------------------------------------------------------------------------
(* Turns: who is ahead of whom in the ring.                                 *)

LEMMA AheadIs ==
    ASSUME NEW s, NEW p, NEW e
    PROVE  e \in Ahead(s, p) <=> \E j, k \in DOMAIN s : j < k /\ s[k] = p /\ s[j] = e
BY DEF Ahead

(* Nobody gets ahead of an owner by another one's leaving.                  *)
LEMMA AheadRemove ==
    ASSUME NEW S, NEW s \in Seq(S), NEW i \in DOMAIN s, NEW p
    PROVE  Ahead(RemoveAt(s, i), p) \subseteq Ahead(s, p)
<1> DEFINE t == RemoveAt(s, i)
           old(j) == IF j < i THEN j ELSE j + 1
<1>1. /\ Len(s) \in Nat /\ DOMAIN s = 1 .. Len(s) /\ i \in 1 .. Len(s)
      /\ t \in Seq(S) /\ Len(t) = Len(s) - 1
      /\ \A j \in DOMAIN t : t[j] = IF j < i THEN s[j] ELSE s[j + 1]
  BY RemoveAtProperties, LenProperties
<1> HIDE DEF t
<1>2. DOMAIN t = 1 .. Len(s) - 1
  BY <1>1, LenProperties
<1>3. \A j \in DOMAIN t : old(j) \in DOMAIN s /\ t[j] = s[old(j)]
  BY <1>1, <1>2
<1>4. \A j, k \in DOMAIN t : j < k => old(j) < old(k)
  BY <1>1, <1>2
<1> HIDE DEF old
<1>5. ASSUME NEW e \in Ahead(t, p) PROVE e \in Ahead(s, p)
  <2>1. PICK j, k \in DOMAIN t : j < k /\ t[k] = p /\ t[j] = e
    BY AheadIs
  <2> QED BY <1>3, <1>4, <2>1, AheadIs
<1> QED BY <1>5 DEF t

(* Nor by a new owner's entering, unless it is the owner served last.       *)
LEMMA AheadEnter ==
    ASSUME ring \in Seq(Owners), NEW o \in Owners, o \notin Range(ring),
           NEW p \in Range(ring), p # lastOwner
    PROVE  Ahead(EnterRing(o), p) \subseteq Ahead(ring, p)
<1> DEFINE n == Len(ring)
<1>1. n \in Nat /\ DOMAIN ring = 1 .. n /\ \A j \in 1 .. n : ring[j] # o
  BY LenProperties DEF Range
<1>2. p # o
  OBVIOUS
<1>3. CASE ring # <<>> /\ Last(ring) = lastOwner
  <2> DEFINE t == InsertAt(ring, n, o)
  <2>1. EnterRing(o) = t /\ ring[n] = lastOwner
    BY <1>3 DEF EnterRing, Last
  <2>2. /\ n \in Nat \ {0} /\ DOMAIN t = 1 .. n + 1
        /\ \A j \in 1 .. n - 1 : t[j] = ring[j]
        /\ t[n] = o /\ t[n + 1] = ring[n]
    BY <1>3, InsertAtIs
  <2> HIDE DEF t, n
  <2>3. ASSUME NEW e \in Ahead(t, p) PROVE e \in Ahead(ring, p)
    <3>1. PICK j, k \in DOMAIN t : j < k /\ t[k] = p /\ t[j] = e
      BY AheadIs
    <3>2. k \in 1 .. n - 1
      BY <1>2, <2>1, <2>2, <3>1
    <3>3. j \in 1 .. n - 1
      BY <2>2, <3>1, <3>2
    <3>4. j \in DOMAIN ring /\ k \in DOMAIN ring
      BY <1>1, <2>2, <3>2, <3>3
    <3> QED BY <2>2, <3>1, <3>2, <3>3, <3>4, AheadIs
  <2> QED BY <2>1, <2>3
<1>4. CASE ~(ring # <<>> /\ Last(ring) = lastOwner)
  <2> DEFINE t == Append(ring, o)
  <2>1. EnterRing(o) = t
    BY <1>4 DEF EnterRing
  <2>2. /\ DOMAIN t = 1 .. n + 1 /\ t[n + 1] = o
        /\ \A j \in 1 .. n : t[j] = ring[j]
    <3>1. t \in Seq(Owners) /\ Len(t) = n + 1
      BY AppendProperties
    <3> QED BY <3>1, LenProperties, AppendProperties
  <2> HIDE DEF t, n
  <2>3. ASSUME NEW e \in Ahead(t, p) PROVE e \in Ahead(ring, p)
    <3>1. PICK j, k \in DOMAIN t : j < k /\ t[k] = p /\ t[j] = e
      BY AheadIs
    <3>2. k \in 1 .. n
      BY <1>1, <1>2, <2>2, <3>1
    <3>3. j \in 1 .. n
      BY <1>1, <2>2, <3>1, <3>2
    <3> QED BY <1>1, <2>2, <3>1, <3>2, <3>3, AheadIs
  <2> QED BY <2>1, <2>3
<1> QED BY <1>3, <1>4

(* The rotation past the owners that cannot be served keeps the order of    *)
(* those behind the served one, and puts the served one behind them.        *)
LEMMA AheadRotated ==
    ASSUME ring \in Seq(Owners), IsInjective(ring), NEW i \in DOMAIN ring,
           NEW p \in Range(ring), p # ring[i],
           \A j \in 1 .. i - 1 : ring[j] # p
    PROVE  Ahead(Rotated(i), p) \subseteq Ahead(ring, p) \ {ring[i]}
<1> DEFINE n == Len(ring)
           t == Rotated(i)
<1>1. /\ DOMAIN ring = 1 .. n /\ n \in Nat /\ i \in 1 .. n /\ DOMAIN t = 1 .. n
      /\ \A j \in 1 .. n : t[j] = IF j <= n - i THEN ring[j + i] ELSE ring[j - (n - i)]
  BY RotatedIs
<1> HIDE DEF n, t
<1> SUFFICES ASSUME NEW e \in Ahead(t, p) PROVE e \in Ahead(ring, p) \ {ring[i]}
  BY DEF t
<1>2. PICK j, k \in DOMAIN t : j < k /\ t[k] = p /\ t[j] = e
  BY AheadIs
<1>3. k <= n - i
  <2> SUFFICES ASSUME ~(k <= n - i) PROVE FALSE
    BY <1>1
  <2>1. k - (n - i) \in 1 .. i /\ t[k] = ring[k - (n - i)]
    BY <1>1
  <2>2. \A m \in 1 .. i : ring[m] # p
    <3>1. \A m \in 1 .. i : m \in 1 .. i - 1 \/ m = i
      BY <1>1
    <3> QED BY <3>1
  <2> QED BY <1>2, <2>1, <2>2
<1>4. /\ j <= n - i /\ t[k] = ring[k + i] /\ t[j] = ring[j + i]
      /\ j + i \in DOMAIN ring /\ k + i \in DOMAIN ring /\ j + i < k + i /\ j + i # i
  BY <1>1, <1>2, <1>3
<1>5. e \in Ahead(ring, p)
  BY <1>2, <1>4, AheadIs
<1>6. e # ring[i]
  BY <1>1, <1>2, <1>4 DEF IsInjective
<1> QED BY <1>5, <1>6

(* Taking a ticket out moves nobody ahead of anybody in the ring.           *)
LEMMA RemoveFromKeepsOrder ==
    ASSUME NEW base \in Seq(Owners), NEW r, RemoveFrom(base, r), NEW p
    PROVE  Ahead(ring', p) \subseteq Ahead(base, p)
<1>1. CASE ring' = base
  BY <1>1
<1>2. CASE \E j \in DOMAIN base : ring' = RemoveAt(base, j)
  BY <1>2, AheadRemove
<1> QED BY <1>1, <1>2 DEF RemoveFrom

(* The owner served is shortened, and it is the only one.                   *)
LEMMA OneServed ==
    ASSUME TypeOK, NEW base, NEW r \in Requests, RemoveFrom(base, r), NEW q \in Owners
    PROVE  Len(waiting'[q]) < Len(waiting[q]) <=> q = OwnerOf[r]
<1> DEFINE w == waiting[OwnerOf[r]]
<1>1. OwnerOf[r] \in Owners /\ w \in Seq(Requests) /\ waiting[q] \in Seq(Requests)
  BY RequestAssumption DEF TypeOK
<1>2. PICK k \in DOMAIN w : waiting' = [waiting EXCEPT ![OwnerOf[r]] = RemoveAt(@, k)]
  BY DEF RemoveFrom
<1>3. CASE q = OwnerOf[r]
  <2>1. waiting'[q] = RemoveAt(w, k)
    BY <1>1, <1>2, <1>3 DEF TypeOK
  <2>2. Len(RemoveAt(w, k)) = Len(w) - 1 /\ Len(w) \in Nat
    BY <1>1, RemoveAtProperties, LenProperties
  <2> QED BY <1>3, <2>1, <2>2
<1>4. CASE q # OwnerOf[r]
  <2>1. waiting'[q] = waiting[q] /\ Len(waiting[q]) \in Nat
    BY <1>1, <1>2, <1>4, LenProperties DEF TypeOK
  <2> QED BY <1>4, <2>1
<1> QED BY <1>3, <1>4

(* The step of the rotation: those passed over could not be served, the     *)
(* served one goes behind all the others.                                   *)
LEMMA ServeKeepsTurns ==
    ASSUME QueueInv, Serve, NEW p \in Range(ring), Eligible(p),
           NEW served, served = {q \in Owners : Len(waiting'[q]) < Len(waiting[q])},
           p \notin served
    PROVE  Ahead(ring', p) \subseteq Ahead(ring, p) \ served
<1>1. /\ ring \in Seq(Owners) /\ IsInjective(ring) /\ TypeOK
      /\ p \in Owners
  BY DEF QueueInv, BudgetInv, QueueConsistent, TypeOK
<1>2. PICK i \in DOMAIN ring, r \in Pending :
        /\ OwnerOf[r] = ring[i] /\ ring[i] \in Owners
        /\ FirstEligible(i) /\ RemoveFrom(Rotated(i), r)
  BY Served
<1>3. r \in Requests
  BY DEF Pending
<1>4. served = {ring[i]}
  BY <1>1, <1>2, <1>3, OneServed
<1>5. p # ring[i] /\ \A j \in 1 .. i - 1 : ring[j] # p
  BY <1>2, <1>4 DEF FirstEligible
<1>6. Ahead(Rotated(i), p) \subseteq Ahead(ring, p) \ {ring[i]}
  BY <1>1, <1>5, AheadRotated
<1>7. Rotated(i) \in Seq(Owners)
  BY <1>1, RotatedType
<1>8. Ahead(ring', p) \subseteq Ahead(Rotated(i), p)
  BY <1>2, <1>7, RemoveFromKeepsOrder
<1> QED BY <1>4, <1>6, <1>8

(* While an owner waits and could be served, nobody moves ahead of it.      *)
THEOREM TurnsAreKept == Spec => TurnsKept
<1>1. ASSUME QueueInv, Next, NEW p \in Range(ring) \cap Range(ring'),
             NEW served, served = {q \in Owners : worker = "granting"
                                     /\ Len(waiting'[q]) < Len(waiting[q])},
             Eligible(p), p \notin served, p # lastOwner
      PROVE  Ahead(ring', p) \subseteq Ahead(ring, p) \ served
  <2>0. ring \in Seq(Owners) /\ TypeOK
    BY <1>1 DEF QueueInv, BudgetInv, TypeOK
  <2>1. CASE Serve
    <3>1. served = {q \in Owners : Len(waiting'[q]) < Len(waiting[q])}
      BY <1>1, <2>1 DEF Serve
    <3> QED BY <1>1, <2>1, <3>1, ServeKeepsTurns
  <2>2. ASSUME worker # "granting" \/ waiting' = waiting
        PROVE  served = {}
    <3>1. \A q \in Owners : ~(Len(waiting[q]) < Len(waiting[q]))
      BY <2>0, LenProperties DEF TypeOK
    <3> QED BY <1>1, <2>2, <3>1
  <2>3. CASE (worker # "granting" \/ waiting' = waiting) /\ ring' = ring
    BY <2>2, <2>3
  <2>4. ASSUME NEW r \in Requests, worker # "granting", RemoveFrom(ring, r)
        PROVE  Ahead(ring', p) \subseteq Ahead(ring, p) \ served
    BY <2>0, <2>2, <2>4, RemoveFromKeepsOrder
  <2>5. ASSUME NEW r \in Requests, worker # "granting", Enqueue(r)
        PROVE  Ahead(ring', p) \subseteq Ahead(ring, p) \ served
    <3>1. CASE waiting[OwnerOf[r]] # <<>>
      BY <2>2, <2>5, <3>1 DEF Enqueue
    <3>2. CASE waiting[OwnerOf[r]] = <<>>
      <4>1. ring' = EnterRing(OwnerOf[r])
        BY <2>5, <3>2 DEF Enqueue
      <4>2. OwnerOf[r] \in Owners /\ OwnerOf[r] \notin Range(ring)
        BY <1>1, <3>2, RequestAssumption DEF QueueInv, QueueConsistent
      <4>3. Ahead(EnterRing(OwnerOf[r]), p) \subseteq Ahead(ring, p)
        BY <1>1, <2>0, <4>2, AheadEnter
      <4> QED BY <2>2, <2>5, <4>1, <4>3
    <3> QED BY <3>1, <3>2
  <2>6. ASSUME NEW r \in Requests, Submit(r) \/ PrepareDirect(r)
        PROVE  Ahead(ring', p) \subseteq Ahead(ring, p) \ served
    <3>1. worker # "granting"
      BY <2>6 DEF Submit, PrepareDirect, LockFree
    <3>2. CASE SubmitQueued(r)
      BY <2>5, <3>1, <3>2 DEF SubmitQueued
    <3>3. CASE ~SubmitQueued(r)
      <4>1. ring' = ring
        BY <2>6, <3>3 DEF Submit, PrepareDirect, SubmitRefused, SubmitGranted, SubmitFull,
                          queueVars
      <4> QED BY <2>3, <3>1, <4>1
    <3> QED BY <3>2, <3>3
  <2>7. ASSUME NEW r \in Requests, Cancel(r)
        PROVE  Ahead(ring', p) \subseteq Ahead(ring, p) \ served
    BY <2>4, <2>7 DEF Cancel, LockFree
  <2>8. CASE Shutdown
    <3>1. Range(ring') = {}
      BY <2>8 DEF Shutdown, Range
    <3> QED BY <1>1, <3>1
  <2>9. CASE DropExpired
    <3>1. PICK r \in expired : RemoveFrom(ring, r)
      BY <2>9 DEF DropExpired
    <3>2. r \in Requests
      BY <2>0 DEF TypeOK
    <3> QED BY <2>4, <2>9, <3>1, <3>2 DEF DropExpired
  <2>10. CASE \/ \E r \in Requests : Release(r) \/ Expire(r)
              \/ WakeTimeout \/ WorkerResume \/ DropDone \/ Sleep
    <3>1. ring' = ring /\ waiting' = waiting
      BY <2>10 DEF Release, Expire, WakeTimeout, WorkerResume, DropDone, Sleep, queueVars
    <3> QED BY <2>3, <3>1
  <2> QED
    BY <1>1, <2>1, <2>6, <2>7, <2>8, <2>9, <2>10 DEF Next, Handlers, Worker, Time
<1>2. QueueInv /\ [Next]_vars
        => [\A p \in Range(ring) \cap Range(ring') :
              LET served == {q \in Owners : worker = "granting"
                                            /\ Len(waiting'[q]) < Len(waiting[q])} IN
              Eligible(p) /\ p \notin served /\ p # lastOwner
                => Ahead(ring', p) \subseteq Ahead(ring, p) \ served]_vars
  BY <1>1
<1> QED BY QueueInvariant, <1>2, PTL DEF Spec, TurnsKept

=============================================================================
