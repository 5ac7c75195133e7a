------------------------------ MODULE Admission ------------------------------
(***************************************************************************)
(* Admission of user commands to the compute budget of the cgroup          *)
(* execution backend: execution/admission.py (FairQueue) and the           *)
(* reservation half of execution/manager.py (Manager).                     *)
(*                                                                         *)
(* One re-entrant lock, Manager._lock, protects every variable below.  All *)
(* handlers run under it, and the admission worker keeps it for a whole    *)
(* pass of FairQueue._dispatch.  A handler is therefore one action; the    *)
(* worker's pass is a phase ("dropping", then "granting") during which no  *)
(* handler runs but time does pass.                                        *)
(***************************************************************************)
EXTENDS Integers, FiniteSets, SequencesExt

CONSTANTS
    Requests,      \* identities of execution requests; one is reused once settled
    Owners,        \* owner keys: digests of the X-User-Id header
    Uids,          \* uids of the operating-system accounts
    OwnerOf,       \* the owner key of a request
    UidOf,         \* the uid its username resolves to
    Resources,     \* cpu_millis, memory_bytes, pids
    UserLimit,     \* ExecutionPolicy.user, per resource
    ComputeLimit,  \* ExecutionPolicy.compute, per resource
    MaxTasks, MaxUserTasks, MaxQueue, MaxUserQueue,
    Faults,        \* ways Manager.prepare may fail after its checks
    NoOwner        \* no owner: last_owner = None, or an unbound uid

(***************************************************************************)
(* What ExecutionPolicy.__post_init__ enforces, and the shape of a request. *)
(***************************************************************************)
ASSUME RequestAssumption ==
    /\ IsFiniteSet(Requests)
    /\ OwnerOf \in [Requests -> Owners]
    /\ UidOf \in [Requests -> Uids]
    /\ NoOwner \notin Owners

ASSUME PolicyAssumption ==
    /\ UserLimit \in [Resources -> Nat \ {0}]
    /\ ComputeLimit \in [Resources -> Nat \ {0}]
    /\ \A x \in Resources : UserLimit[x] <= ComputeLimit[x]
    /\ MaxTasks \in Nat \ {0}
    /\ MaxUserTasks \in 1 .. MaxTasks
    /\ MaxQueue \in Nat
    /\ MaxUserQueue \in Nat

(***************************************************************************)
(* "create": CgroupTree.create_task raises; "launch": Launch() raises and  *)
(* the empty cgroup is given back; "retained": Launch() raises and the     *)
(* cgroup cannot be verified empty, so the reservation stays.              *)
(***************************************************************************)
ASSUME FaultAssumption == Faults \subseteq {"create", "launch", "retained"}

VARIABLES
    tasks,      \* Manager._tasks: the requests that hold a reservation
    owners,     \* Manager._owners; an owner mapped to {} is not a key
    uidOwners,  \* Manager._uid_owners
    stopping,   \* Manager._stopping and FairQueue.closed, set together
    ring,       \* FairQueue.owners, the rotation of owners with waiters
    waiting,    \* FairQueue.waiting: FIFO queues; <<>> is not a key
    count,      \* FairQueue.count
    lastOwner,  \* FairQueue.last_owner
    worker,     \* the admission thread's position
    ticket,     \* each request's Ticket and the state of its future
    expired     \* pending requests whose queue_timeout has passed

vars == <<tasks, owners, uidOwners, stopping, ring, waiting, count, lastOwner,
          worker, ticket, expired>>
queueVars == <<ring, waiting, count, expired>>
ledgerVars == <<tasks, owners, uidOwners>>

TicketStates ==
    {"none",      \* no request, or one that was cancelled or has ended
     "pending",   \* queued: it owns no cgroup and no process
     "granted",   \* its future holds a Launch, whose reservation is live
     "retained",  \* it failed but its reservation could not be given back
     "failed"}    \* its future, or the call itself, raised an error

WorkerStates ==
    {"off",       \* the thread was never started
     "ready",     \* runnable: just started, or woken from the condition
     "dropping",  \* in _dispatch, removing the tickets that timed out
     "granting",  \* in _dispatch, serving the rotation
     "waiting",   \* in condition.wait
     "done"}      \* _run returned

TypeOK ==
    /\ tasks \subseteq Requests
    /\ owners \in [Owners -> SUBSET Requests]
    /\ uidOwners \in [Uids -> Owners \cup {NoOwner}]
    /\ stopping \in BOOLEAN
    /\ ring \in Seq(Owners)
    /\ waiting \in [Owners -> Seq(Requests)]
    /\ count \in Int
    /\ lastOwner \in Owners \cup {NoOwner}
    /\ worker \in WorkerStates
    /\ ticket \in [Requests -> TicketStates]
    /\ expired \subseteq Requests

Init ==
    /\ tasks = {}
    /\ owners = [o \in Owners |-> {}]
    /\ uidOwners = [u \in Uids |-> NoOwner]
    /\ stopping = FALSE
    /\ ring = <<>>
    /\ waiting = [o \in Owners |-> <<>>]
    /\ count = 0
    /\ lastOwner = NoOwner
    /\ worker = "off"
    /\ ticket = [r \in Requests |-> "none"]
    /\ expired = {}

-----------------------------------------------------------------------------
(* Budgets: Limits.__mul__, Limits.fits_within, Manager._has_capacity.      *)

Active == {o \in Owners : owners[o] # {}}

UsersFit(n) == \A x \in Resources : UserLimit[x] * n <= ComputeLimit[x]

AnotherUserFits == UsersFit(Cardinality(Active) + 1)

(* Slip: the new user itself is not counted.                                *)
SlipHasCapacity(o) ==
    /\ Cardinality(tasks) < MaxTasks
    /\ Cardinality(owners[o]) < MaxUserTasks
    /\ UsersFit(Cardinality(Active))

HasCapacity(o) ==
    /\ Cardinality(tasks) < MaxTasks
    /\ Cardinality(owners[o]) < MaxUserTasks
    /\ o \in Active \/ AnotherUserFits

(* Slip: the uid's owner is not compared.                                   *)
SlipUidFree(r) == UidOf[r] \in Uids

UidFree(r) == uidOwners[UidOf[r]] \in {NoOwner, OwnerOf[r]}

(* An active owner is held back while a new user waits who does not fit.    *)
NewUserWaiting == \E o \in Owners : waiting[o] # <<>> /\ o \notin Active

(* Slip: any owner with capacity may renew.                                 *)
SlipEligible(o) == HasCapacity(o)

Eligible(o) ==
    /\ HasCapacity(o)
    /\ o \in Active => ~NewUserWaiting \/ AnotherUserFits

-----------------------------------------------------------------------------
(* Steps of the handlers.                                                   *)

LockFree == worker \notin {"dropping", "granting"}

(* Slip: the condition is not notified.                                     *)
SlipNotify == UNCHANGED worker

(* condition.notify_all: only a thread that is waiting is woken.            *)
Notify == worker' = IF worker = "waiting" THEN "ready" ELSE worker

Bind(r) == uidOwners' = [uidOwners EXCEPT ![UidOf[r]] = OwnerOf[r]]

(***************************************************************************)
(* Manager.prepare once its checks passed: the reservation is made under   *)
(* the lock, and given back if building the Launch fails with fault f;     *)
(* giving it back notifies the condition.                                  *)
(***************************************************************************)
Outcomes == Faults \cup {"ok"}

Prepare(r, f) ==
    /\ IF f \in {"ok", "retained"}
         THEN /\ tasks' = tasks \cup {r}
              /\ owners' = [owners EXCEPT ![OwnerOf[r]] = @ \cup {r}]
         ELSE UNCHANGED <<tasks, owners>>
    /\ ticket' = [ticket EXCEPT ![r] =
                    CASE f = "ok" -> "granted"
                      [] f = "retained" -> "retained"
                      [] OTHER -> "failed"]
    /\ IF f = "launch" THEN Notify ELSE UNCHANGED worker

Refuse(r) == ticket' = [ticket EXCEPT ![r] = "failed"]

(* FairQueue._grant: prepare runs its own checks, and its errors are        *)
(* delivered to the ticket.                                                 *)
Grant(r) ==
    \/ /\ ~stopping /\ UidFree(r) /\ HasCapacity(OwnerOf[r])
       /\ \E f \in Outcomes :
             /\ Prepare(r, f)
             /\ lastOwner' = IF f = "ok" THEN OwnerOf[r] ELSE lastOwner
       /\ Bind(r)
    \/ /\ stopping \/ ~UidFree(r) \/ ~HasCapacity(OwnerOf[r])
       /\ Refuse(r)
       /\ UNCHANGED <<ledgerVars, lastOwner, worker>>

(* Slip: the emptied owner stays in the ring.                               *)
SlipRemoveFrom(base, r) ==
    /\ \E i \in DOMAIN waiting[OwnerOf[r]] :
          /\ waiting[OwnerOf[r]][i] = r
          /\ waiting' = [waiting EXCEPT ![OwnerOf[r]] = RemoveAt(@, i)]
    /\ ring' = base
    /\ count' = count - 1
    /\ expired' = expired \ {r}

(* FairQueue._remove, with the ring already rotated to base.                *)
RemoveFrom(base, r) ==
    LET o == OwnerOf[r] IN
    /\ \E i \in DOMAIN waiting[o] :
          /\ waiting[o][i] = r
          /\ waiting' = [waiting EXCEPT ![o] = RemoveAt(@, i)]
          /\ IF Len(waiting[o]) = 1
               THEN \E j \in DOMAIN base : base[j] = o /\ ring' = RemoveAt(base, j)
               ELSE ring' = base
    /\ count' = count - 1
    /\ expired' = expired \ {r}

(* Slip: a new owner gets the next turn.                                    *)
SlipEnterRing(o) == <<o>> \o ring

(* A new owner gets a turn before the most recently served owner.           *)
EnterRing(o) ==
    IF ring # <<>> /\ Last(ring) = lastOwner
      THEN InsertAt(ring, Len(ring), o)
      ELSE Append(ring, o)

Enqueue(r) ==
    LET o == OwnerOf[r] IN
    /\ ring' = IF waiting[o] = <<>> THEN EnterRing(o) ELSE ring
    /\ waiting' = [waiting EXCEPT ![o] = Append(@, r)]
    /\ ticket' = [ticket EXCEPT ![r] = "pending"]
    /\ count' = count + 1
    /\ IF worker = "off" THEN worker' = "ready" ELSE Notify

QueueFull(o) == count >= MaxQueue \/ Len(waiting[o]) >= MaxUserQueue

Fresh(r) == ticket[r] \in {"none", "failed"}

-----------------------------------------------------------------------------
(***************************************************************************)
(* Manager.submit, with FairQueue.submit: 503 when stopping, 409 on a uid  *)
(* conflict.  Otherwise the uid is bound, even if the queue then refuses   *)
(* the ticket with 429.                                                    *)
(***************************************************************************)
SubmitRefused(r) ==
    /\ stopping \/ ~UidFree(r)
    /\ Refuse(r)
    /\ UNCHANGED <<ledgerVars, queueVars, stopping, lastOwner, worker>>

SubmitGranted(r) ==
    /\ ~stopping /\ UidFree(r)
    /\ count = 0 /\ HasCapacity(OwnerOf[r])
    /\ Grant(r)
    /\ UNCHANGED <<queueVars, stopping>>

SubmitFull(r) ==
    /\ ~stopping /\ UidFree(r)
    /\ count # 0 \/ ~HasCapacity(OwnerOf[r])
    /\ QueueFull(OwnerOf[r])
    /\ Bind(r)
    /\ Refuse(r)
    /\ UNCHANGED <<tasks, owners, queueVars, stopping, lastOwner, worker>>

SubmitQueued(r) ==
    /\ ~stopping /\ UidFree(r)
    /\ count # 0 \/ ~HasCapacity(OwnerOf[r])
    /\ ~QueueFull(OwnerOf[r])
    /\ Bind(r)
    /\ Enqueue(r)
    /\ UNCHANGED <<tasks, owners, stopping, lastOwner, expired>>

Submit(r) ==
    /\ LockFree /\ Fresh(r)
    /\ SubmitRefused(r) \/ SubmitGranted(r) \/ SubmitFull(r) \/ SubmitQueued(r)

(* Slip: only capacity is checked, not the queue.                           *)
SlipPrepareDirect(r) ==
    /\ LockFree /\ Fresh(r)
    /\ ~stopping /\ UidFree(r) /\ HasCapacity(OwnerOf[r])
    /\ Prepare(r, "ok") /\ Bind(r)
    /\ UNCHANGED <<queueVars, stopping, lastOwner>>

(* Manager.prepare called directly (spawn): it never waits, and it yields   *)
(* to every ticket in the queue.                                            *)
PrepareDirect(r) ==
    /\ LockFree /\ Fresh(r)
    /\ \/ /\ ~stopping /\ UidFree(r) /\ HasCapacity(OwnerOf[r]) /\ count = 0
          /\ \E f \in Outcomes :
                /\ Prepare(r, f)
                /\ IF f = "create" THEN UNCHANGED uidOwners ELSE Bind(r)
       \/ /\ stopping \/ ~UidFree(r) \/ ~HasCapacity(OwnerOf[r]) \/ count # 0
          /\ Refuse(r)
          /\ UNCHANGED <<ledgerVars, worker>>
    /\ UNCHANGED <<queueVars, stopping, lastOwner>>

(* FairQueue.cancel of a ticket that still waits.  A granted ticket is left *)
(* to the caller, which aborts the launch: see Release.                     *)
Cancel(r) ==
    /\ LockFree
    /\ ticket[r] = "pending"
    /\ RemoveFrom(ring, r)
    /\ ticket' = [ticket EXCEPT ![r] = "none"]
    /\ Notify
    /\ UNCHANGED <<ledgerVars, stopping, lastOwner>>

(* The end of Launch._cleanup: the cgroup is removed and Manager._release   *)
(* returns the reservation, in one critical section.                        *)
Release(r) ==
    /\ LockFree
    /\ ticket[r] = "granted"
    /\ tasks' = tasks \ {r}
    /\ owners' = [owners EXCEPT ![OwnerOf[r]] = @ \ {r}]
    /\ ticket' = [ticket EXCEPT ![r] = "none"]
    /\ Notify
    /\ UNCHANGED <<uidOwners, stopping, queueVars, lastOwner>>

(* Manager.shutdown and FairQueue.close: every waiter fails at once.        *)
Shutdown ==
    /\ LockFree
    /\ ~stopping
    /\ stopping' = TRUE
    /\ ring' = <<>>
    /\ waiting' = [o \in Owners |-> <<>>]
    /\ count' = 0
    /\ expired' = {}
    /\ ticket' = [r \in Requests |-> IF ticket[r] = "pending" THEN "failed" ELSE ticket[r]]
    /\ Notify
    /\ UNCHANGED <<ledgerVars, lastOwner>>

-----------------------------------------------------------------------------
(* queue_timeout passes for a ticket; those ahead of it in its own queue    *)
(* are older.                                                               *)
Expire(r) ==
    /\ ticket[r] = "pending" /\ r \notin expired
    /\ \E i \in DOMAIN waiting[OwnerOf[r]] :
          /\ waiting[OwnerOf[r]][i] = r
          /\ \A j \in 1 .. i - 1 : waiting[OwnerOf[r]][j] \in expired
    /\ expired' = expired \cup {r}
    /\ UNCHANGED <<ledgerVars, stopping, ring, waiting, count, lastOwner, worker, ticket>>

(* Slip: condition.wait without a timeout.                                  *)
SlipWakeTimeout == worker = "waiting" /\ UNCHANGED vars

(* condition.wait returns at the deadline of the oldest ticket.             *)
WakeTimeout ==
    /\ worker = "waiting" /\ expired # {}
    /\ worker' = "ready"
    /\ UNCHANGED <<ledgerVars, queueVars, stopping, lastOwner, ticket>>

(* The thread reacquires the lock: it returns if closed, or dispatches.     *)
WorkerResume ==
    /\ worker = "ready"
    /\ worker' = IF stopping THEN "done" ELSE "dropping"
    /\ UNCHANGED <<ledgerVars, queueVars, stopping, lastOwner, ticket>>

DropExpired ==
    /\ worker = "dropping"
    /\ \E r \in expired : RemoveFrom(ring, r) /\ Refuse(r)
    /\ UNCHANGED <<ledgerVars, stopping, lastOwner, worker>>

DropDone ==
    /\ worker = "dropping" /\ expired = {}
    /\ worker' = "granting"
    /\ UNCHANGED <<ledgerVars, queueVars, stopping, lastOwner, ticket>>

(* Slip: the served owner keeps its place in the ring.                      *)
SlipRotated(i) == IF i > 0 THEN ring ELSE <<>>

Rotated(i) == SubSeq(ring, i + 1, Len(ring)) \o SubSeq(ring, 1, i)

FirstEligible(i) ==
    /\ i \in DOMAIN ring
    /\ Eligible(ring[i])
    /\ \A j \in 1 .. i - 1 : ~Eligible(ring[j])

(* The rotation stops at the first eligible owner, whose oldest ticket      *)
(* leaves the queue; it is granted unless it timed out meanwhile.           *)
Serve ==
    /\ worker = "granting"
    /\ \E i \in DOMAIN ring :
          /\ FirstEligible(i)
          /\ waiting[ring[i]] # <<>>
          /\ LET r == Head(waiting[ring[i]]) IN
             /\ RemoveFrom(Rotated(i), r)
             /\ IF r \in expired
                  THEN Refuse(r) /\ UNCHANGED <<ledgerVars, lastOwner>>
                  ELSE Grant(r)
    /\ UNCHANGED <<stopping, worker>>

(* Nobody is eligible: the pass ends and the thread waits.                  *)
Sleep ==
    /\ worker = "granting"
    /\ \A i \in DOMAIN ring : ~Eligible(ring[i])
    /\ worker' = "waiting"
    /\ UNCHANGED <<ledgerVars, queueVars, stopping, lastOwner, ticket>>

Worker == WorkerResume \/ DropExpired \/ DropDone \/ Serve \/ Sleep

Handlers ==
    \/ \E r \in Requests : Submit(r) \/ PrepareDirect(r) \/ Cancel(r) \/ Release(r)
    \/ Shutdown

Time == WakeTimeout \/ \E r \in Requests : Expire(r)

Next == Handlers \/ Worker \/ Time

Spec == Init /\ [][Next]_vars

-----------------------------------------------------------------------------
(* Properties.                                                              *)

Pending == {r \in Requests : ticket[r] = "pending"}

(* Reservations never exceed the deployment's budgets: tasks in total,      *)
(* tasks of one user, and, for each resource, the limits of all users that  *)
(* hold a task.  Manager._tasks and Manager._owners describe the same       *)
(* reservations, those of the requests that were granted one.               *)
BudgetHeld ==
    /\ Cardinality(tasks) <= MaxTasks
    /\ \A o \in Owners : Cardinality(owners[o]) <= MaxUserTasks
    /\ UsersFit(Cardinality(Active))
    /\ \A o \in Owners : owners[o] = {r \in tasks : OwnerOf[r] = o}
    /\ tasks = {r \in Requests : ticket[r] \in {"granted", "retained"}}

(* The queue's five representations agree: the pending tickets are exactly  *)
(* the queued ones, each in its owner's queue and once; the ring holds each *)
(* owner that waits, once; count is their number and within max_queue.      *)
QueueConsistent ==
    /\ \A o \in Owners : /\ IsInjective(waiting[o])
                         /\ Range(waiting[o]) = {r \in Pending : OwnerOf[r] = o}
                         /\ Len(waiting[o]) <= MaxUserQueue
    /\ IsInjective(ring)
    /\ Range(ring) = {o \in Owners : waiting[o] # <<>>}
    /\ count = Cardinality(Pending) /\ count <= MaxQueue
    /\ expired \subseteq Pending

(* No lost wake-up: while the worker sleeps nobody in the queue could be    *)
(* served, and while it does not exist nobody waits at all.                 *)
NoLostWakeup ==
    /\ worker = "waiting" => \A o \in Range(ring) : ~Eligible(o)
    /\ worker \in {"off", "done"} => count = 0

Granted(r) == ticket[r] # "granted" /\ ticket'[r] = "granted"

(* No caller jumps the queue.  A reservation goes to a request that never   *)
(* waited only when nobody waits (also to a direct prepare), and otherwise  *)
(* to the oldest ticket of its owner.                                       *)
GrantRespectsQueue ==
    [][\A r \in Requests : Granted(r) =>
          IF r \in Pending THEN Head(waiting[OwnerOf[r]]) = r ELSE Pending = {}]_vars

(* An owner that already holds a task never renews ahead of a waiting new   *)
(* user whose limits do not fit beside the active users.                    *)
NewUserFirst ==
    [][\A r \in Requests : Granted(r) /\ OwnerOf[r] \in Active =>
          ~NewUserWaiting \/ AnotherUserFits]_vars

Ahead(s, p) ==
    {s[i] : i \in {j \in DOMAIN s : \E k \in DOMAIN s : j < k /\ s[k] = p}}

(* Turns are kept: while an owner waits and could be served, nobody moves   *)
(* ahead of it, and an owner that was just served is behind it.  Only the   *)
(* owner served last yields, to owners that newly arrive.                   *)
TurnsKept ==
    [][\A p \in Range(ring) \cap Range(ring') :
          LET served == {q \in Owners : worker = "granting"
                                        /\ Len(waiting'[q]) < Len(waiting[q])} IN
          Eligible(p) /\ p \notin served /\ p # lastOwner
            => Ahead(ring', p) \subseteq Ahead(ring, p) \ served]_vars

(* Admission implements the promise of ComputeBudget.                       *)
Budget == INSTANCE ComputeBudget
            WITH held <- tasks, bound <- uidOwners, stopped <- stopping

ImplementsBudget == Budget!Spec

-----------------------------------------------------------------------------
(***************************************************************************)
(* Liveness.  The admission thread is scheduled by the OS and holds the    *)
(* lock only for finite passes; condition.wait returns at its timeout.     *)
(***************************************************************************)
FairSpec == Spec /\ WF_vars(Worker) /\ WF_vars(WakeTimeout)

TasksEnd == \A r \in Requests : SF_vars(Release(r))
TimePasses == \A r \in Requests : WF_vars(Expire(r))
Settles == \A r \in Requests : ticket[r] = "pending" ~> ticket[r] # "pending"

(* No starvation: if every granted task ends (max_runtime is enforced by    *)
(* the reaper) and gives its reservation back, each ticket is settled by    *)
(* turns alone, although no ticket ever times out and other users keep      *)
(* submitting.                                                              *)
NoStarvation ==
    TasksEnd /\ [](expired = {} /\ \A r \in Requests : ticket[r] # "retained") => Settles

(* Every wait ends within queue_timeout, even if no task ever ends.         *)
WaitsAreBounded == TimePasses => Settles
=============================================================================
