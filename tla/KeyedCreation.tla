--------------------------- MODULE KeyedCreation ---------------------------
(***************************************************************************)
(* What an Idempotency-Key promises, without driver tasks, limits, time or *)
(* errors: a key has one creation at a time, requests that bring the key   *)
(* attach to it, and the key is free for another one only when nobody is   *)
(* attached and nothing that was created lives.  Idempotency implements it.*)
(***************************************************************************)
EXTENDS Integers

CONSTANTS Callers, Keys, KeyOf

VARIABLES
    state,     \* of each key: free, creating or settled
    made,      \* the number of each key's latest creation
    attached,  \* the creation each caller waits for, or 0
    live       \* the resources there are, each <<key, creation>>

vars == <<state, made, attached, live>>

Lives(k) == \E r \in live : r[1] = k

(* The keys that may be forgotten when the callers are attached as in w.    *)
Spent(w) ==
    {k \in Keys : /\ state[k] = "settled" /\ ~Lives(k)
                  /\ \A c \in Callers : KeyOf[c] = k => w[c] = 0}

Forgotten(ks) == [k \in Keys |-> IF k \in ks THEN "free" ELSE state[k]]

Init ==
    /\ state = [k \in Keys |-> "free"]
    /\ made = [k \in Keys |-> 0]
    /\ attached = [c \in Callers |-> 0]
    /\ live = {}

(* Spent keys are forgotten, some of them or all, whenever somebody calls,  *)
(* leaves or has seen a cleanup.                                            *)
Forget ==
    /\ \E ks \in SUBSET Spent(attached) : state' = Forgotten(ks)
    /\ UNCHANGED <<made, attached, live>>

Begin(c) ==
    LET k == KeyOf[c] IN
    /\ attached[c] = 0 /\ ~Lives(k)
    /\ \E ks \in SUBSET Spent(attached) :
         /\ Forgotten(ks)[k] = "free"
         /\ state' = [Forgotten(ks) EXCEPT ![k] = "creating"]
    /\ made' = [made EXCEPT ![k] = @ + 1]
    /\ attached' = [attached EXCEPT ![c] = made[k] + 1]
    /\ UNCHANGED live

Attach(c) ==
    LET k == KeyOf[c] IN
    /\ attached[c] = 0
    /\ \E ks \in SUBSET Spent(attached) :
         Forgotten(ks)[k] # "free" /\ state' = Forgotten(ks)
    /\ attached' = [attached EXCEPT ![c] = made[k]]
    /\ UNCHANGED <<made, live>>

(* With the outcome, or before it.                                          *)
Depart(c) ==
    /\ attached' = [attached EXCEPT ![c] = 0]
    /\ \E ks \in SUBSET Spent(attached') : state' = Forgotten(ks)
    /\ UNCHANGED <<made, live>>

Produce(k) ==
    /\ state[k] = "creating" /\ ~Lives(k)
    /\ live' = live \cup {<<k, made[k]>>}
    /\ UNCHANGED <<state, made, attached>>

(* The creation ends, in an error perhaps; what it made may be undone.      *)
Settle(k) ==
    /\ state[k] = "creating"
    /\ state' = [state EXCEPT ![k] = "settled"]
    /\ live' \in {live, live \ {<<k, made[k]>>}}
    /\ UNCHANGED <<made, attached>>

End(r) ==
    /\ r \in live
    /\ live' = live \ {r}
    /\ UNCHANGED <<state, made, attached>>

Next ==
    \/ Forget
    \/ \E c \in Callers : Begin(c) \/ Attach(c) \/ Depart(c)
    \/ \E k \in Keys : Produce(k) \/ Settle(k)
    \/ \E r \in live : End(r)

Spec == Init /\ [][Next]_vars
=============================================================================
