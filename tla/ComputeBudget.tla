---------------------------- MODULE ComputeBudget ----------------------------
(***************************************************************************)
(* What the execution manager promises about compute reservations, without *)
(* queues, locks or threads: a request holds at most one reservation,      *)
(* every acquisition fits the deployment's budgets, an OS account serves   *)
(* one owner for the life of the manager, and nothing is acquired once the *)
(* manager is stopping.  Admission implements it.                          *)
(***************************************************************************)
EXTENDS Integers, FiniteSets

CONSTANTS Requests, Owners, Uids, OwnerOf, UidOf, Resources, UserLimit,
          ComputeLimit, MaxTasks, MaxUserTasks, NoOwner

VARIABLES
    held,      \* the requests that hold a reservation
    bound,     \* the owner each uid is bound to
    stopped    \* the manager accepts no more work

vars == <<held, bound, stopped>>

HeldBy(o) == {r \in held : OwnerOf[r] = o}

Users == {o \in Owners : HeldBy(o) # {}}

Fits(n) == \A x \in Resources : UserLimit[x] * n <= ComputeLimit[x]

Init ==
    /\ held = {}
    /\ bound = [u \in Uids |-> NoOwner]
    /\ stopped = FALSE

(* A user's limits are reserved once, whatever the number of its tasks.     *)
Acquire(r) ==
    /\ ~stopped
    /\ r \notin held
    /\ bound[UidOf[r]] \in {NoOwner, OwnerOf[r]}
    /\ Cardinality(held) < MaxTasks
    /\ Cardinality(HeldBy(OwnerOf[r])) < MaxUserTasks
    /\ OwnerOf[r] \in Users \/ Fits(Cardinality(Users) + 1)
    /\ held' = held \cup {r}
    /\ bound' = [bound EXCEPT ![UidOf[r]] = OwnerOf[r]]
    /\ stopped' = stopped

(* A request that must wait or is refused may still bind its uid.           *)
Bind(r) ==
    /\ ~stopped
    /\ bound[UidOf[r]] = NoOwner
    /\ bound' = [bound EXCEPT ![UidOf[r]] = OwnerOf[r]]
    /\ UNCHANGED <<held, stopped>>

Release(r) ==
    /\ r \in held
    /\ held' = held \ {r}
    /\ UNCHANGED <<bound, stopped>>

Stop ==
    /\ ~stopped
    /\ stopped' = TRUE
    /\ UNCHANGED <<held, bound>>

Next == Stop \/ \E r \in Requests : Acquire(r) \/ Bind(r) \/ Release(r)

Spec == Init /\ [][Next]_vars
=============================================================================
