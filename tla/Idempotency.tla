---------------------------- MODULE Idempotency ----------------------------
(***************************************************************************)
(* Creation requests that carry an Idempotency-Key: class Registry of      *)
(* utils/idempotency.py, with the factories of POST /execute and           *)
(* POST /api/terminals reduced to what the registry sees of them.          *)
(*                                                                         *)
(* Requests, the driver task of each record and the factories run on one   *)
(* event loop: a step is the code between two awaits.                      *)
(***************************************************************************)
EXTENDS Integers, FiniteSets

CONSTANTS
    Callers,          \* requests; a retry is another caller
    Keys,             \* full scopes: user, session, endpoint and key
    Owners,
    KeyOf, OwnerOf,   \* the key of a caller, the owner of a key
    BodyOf,           \* the fingerprint of a caller's parameters
    Terminals,        \* the keys of POST /api/terminals; others are /execute
    MaxEntries, MaxUserEntries, MaxWaiters,
    MaxCreations      \* bound on the creations of one key, for TLC

ASSUME ScopeAssumption ==
    /\ KeyOf \in [Callers -> Keys] /\ OwnerOf \in [Keys -> Owners]
    /\ Terminals \subseteq Keys
ASSUME LimitAssumption ==
    /\ {MaxEntries, MaxUserEntries, MaxWaiters, MaxCreations} \subseteq Nat \ {0}

VARIABLES
    kept,       \* the key has an Entry in Registry.entries
    count,      \* the number of the key's latest Entry
    body,       \* Entry.fingerprint
    waiters,    \* Entry.waiters
    driver,     \* where the driver task of the Entry is
    cancel,     \* task.cancel() was passed to the loop, or reached the task
    outcome,    \* Entry.ready
    old,        \* the TTL since Entry.completed has passed
    owned,      \* Registry.owner_counts
    caller,     \* where each caller is
    joined,     \* the Entry each caller is attached to
    alive,      \* created resources whose processes have not finished
    listed,     \* resources in _processes or _terminal_sessions
    deleted     \* terminals that were deleted

vars == <<kept, count, body, waiters, driver, cancel, outcome, old, owned,
          caller, joined, alive, listed, deleted>>
record == <<count, body, driver, cancel, outcome, old>>
resources == <<alive, listed, deleted>>

Bodies == {BodyOf[c] : c \in Callers}
Resources == Keys \X (1..MaxCreations)

TypeOK ==
    /\ kept \in [Keys -> BOOLEAN]
    /\ count \in [Keys -> 0..MaxCreations]
    /\ body \in [Keys -> Bodies]
    /\ waiters \in [Keys -> SUBSET Callers]
    /\ driver \in [Keys -> {"none", "new", "starting", "made", "cleaning"}]
    /\ cancel \in [Keys -> {"no", "scheduled", "requested"}]
    /\ outcome \in [Keys -> {"none", "pending", "value", "refused", "failed", "unknown"}]
    /\ old \in [Keys -> BOOLEAN]
    /\ owned \in [Owners -> Nat]
    /\ caller \in [Callers -> {"out", "waiting", "settling", "answered"}]
    /\ joined \in [Callers -> 0..MaxCreations]
    /\ alive \subseteq Resources /\ listed \subseteq Resources
    /\ deleted \subseteq Resources

Init ==
    /\ kept = [k \in Keys |-> FALSE] /\ count = [k \in Keys |-> 0]
    /\ body \in {[k \in Keys |-> b] : b \in Bodies}
    /\ waiters = [k \in Keys |-> {}] /\ driver = [k \in Keys |-> "none"]
    /\ cancel = [k \in Keys |-> "no"] /\ outcome = [k \in Keys |-> "none"]
    /\ old = [k \in Keys |-> FALSE] /\ owned = [o \in Owners |-> 0]
    /\ caller = [c \in Callers |-> "out"] /\ joined = [c \in Callers |-> 0]
    /\ alive = {} /\ listed = {} /\ deleted = {}

-----------------------------------------------------------------------------
(* The resource of a key's latest creation.                                 *)
Resource(k) == <<k, count[k]>>

(* process_active and terminal_active.                                      *)
Active(k) ==
    /\ outcome[k] = "value"
    /\ Resource(k) \in alive
    /\ k \in Terminals => Resource(k) \in listed

(* The records _purge deletes, when the waiters are w: confirmed failures,  *)
(* and results whose time has passed and whose resource is not active.      *)
Purgeable(w) ==
    {k \in Keys : /\ kept[k] /\ outcome[k] # "pending" /\ w[k] = {}
                  /\ \/ outcome[k] = "failed"
                     \/ outcome[k] \in {"value", "refused"} /\ old[k] /\ ~Active(k)}

OwnedBy(o, ks) == Cardinality({k \in ks : OwnerOf[k] = o})

KeptAfter(w) == [k \in Keys |-> kept[k] /\ k \notin Purgeable(w)]

OwnedAfter(w) == [o \in Owners |-> owned[o] - OwnedBy(o, Purgeable(w))]

(* Slip: the purge forgets to count its owner's records down.               *)
SlipPurge(w) ==
    /\ waiters' = w /\ kept' = KeptAfter(w) /\ owned' = owned

(* Registry._purge at the end of a call, with the waiters as they are then. *)
Purge(w) ==
    /\ waiters' = w /\ kept' = KeptAfter(w) /\ owned' = OwnedAfter(w)

-----------------------------------------------------------------------------
(* Registry.run.                                                            *)

NoRoom(k, present, counts) ==
    \/ Cardinality({l \in Keys : present[l]}) >= MaxEntries
    \/ counts[OwnerOf[k]] >= MaxUserEntries

(* The call is answered 409 or 429 at once.                                 *)
Turned(c, k, present, counts) ==
    /\ \/ present[k] /\ body[k] # BodyOf[c]
       \/ ~present[k] /\ NoRoom(k, present, counts)
       \/ present[k] /\ Cardinality(waiters[k]) >= MaxWaiters
    /\ caller' = [caller EXCEPT ![c] = "answered"]
    /\ owned' = counts /\ kept' = present
    /\ UNCHANGED <<record, waiters, joined>>

(* It attaches to a record, pending or finished.                            *)
Join(c, k, present, counts) ==
    /\ present[k] /\ body[k] = BodyOf[c]
    /\ Cardinality(waiters[k]) < MaxWaiters
    /\ waiters' = [waiters EXCEPT ![k] = @ \cup {c}]
    /\ caller' = [caller EXCEPT ![c] = "waiting"]
    /\ joined' = [joined EXCEPT ![c] = count[k]]
    /\ owned' = counts /\ kept' = present
    /\ UNCHANGED record

(* It starts a creation and the task that drives it.                        *)
Create(c, k, present, counts) ==
    /\ ~present[k] /\ ~NoRoom(k, present, counts) /\ count[k] < MaxCreations
    /\ count' = [count EXCEPT ![k] = @ + 1]
    /\ kept' = [present EXCEPT ![k] = TRUE]
    /\ owned' = [counts EXCEPT ![OwnerOf[k]] = @ + 1]
    /\ body' = [body EXCEPT ![k] = BodyOf[c]]
    /\ waiters' = [waiters EXCEPT ![k] = {c}]
    /\ driver' = [driver EXCEPT ![k] = "new"]
    /\ cancel' = [cancel EXCEPT ![k] = "no"]
    /\ outcome' = [outcome EXCEPT ![k] = "pending"]
    /\ old' = [old EXCEPT ![k] = FALSE]
    /\ caller' = [caller EXCEPT ![c] = "waiting"]
    /\ joined' = [joined EXCEPT ![c] = count[k] + 1]

Arrive(c) ==
    /\ caller[c] = "out"
    /\ LET present == KeptAfter(waiters)
           counts == OwnedAfter(waiters)
       IN \/ Turned(c, KeyOf[c], present, counts)
          \/ Join(c, KeyOf[c], present, counts)
          \/ Create(c, KeyOf[c], present, counts)
    /\ UNCHANGED resources

(* The caller's request ends, with whatever answer.                         *)
Done(c) ==
    /\ caller' = [caller EXCEPT ![c] = "answered"]
    /\ joined' = [joined EXCEPT ![c] = 0]

(* The outcome reaches a waiter: the value, 410 if it no longer exists, or  *)
(* the error.                                                               *)
Answer(c) ==
    LET k == KeyOf[c] IN
    /\ caller[c] = "waiting" /\ outcome[k] # "pending"
    /\ Done(c)
    /\ Purge([waiters EXCEPT ![k] = @ \ {c}])
    /\ UNCHANGED <<record, resources>>

(* Slip: the creation goes on.                                              *)
SlipCancelled(k) == cancel[k]

(* call_soon_threadsafe hands task.cancel to the loop, once.                *)
Cancelled(k) == IF cancel[k] = "no" THEN "scheduled" ELSE cancel[k]

(* A waiter disconnects or is cancelled.  The last one cancels the creation *)
(* and stays until it has settled.                                          *)
Leave(c) ==
    LET k == KeyOf[c]
        rest == [waiters EXCEPT ![k] = @ \ {c}] IN
    /\ caller[c] = "waiting"
    /\ IF rest[k] = {} /\ outcome[k] = "pending"
         THEN /\ waiters' = rest
              /\ cancel' = [cancel EXCEPT ![k] = Cancelled(k)]
              /\ caller' = [caller EXCEPT ![c] = "settling"]
              /\ UNCHANGED <<kept, owned, joined>>
         ELSE /\ Purge(rest)
              /\ Done(c)
              /\ UNCHANGED cancel
    /\ UNCHANGED <<count, body, driver, outcome, old, resources>>

(* Slip: the leaver does not purge.                                         *)
SlipSettled(c) ==
    LET k == KeyOf[c] IN
    /\ caller[c] = "settling"
    /\ count[k] # joined[c] \/ outcome[k] # "pending"
    /\ Done(c)
    /\ UNCHANGED <<record, kept, waiters, owned, resources>>

Settled(c) ==
    LET k == KeyOf[c] IN
    /\ caller[c] = "settling"
    /\ count[k] # joined[c] \/ outcome[k] # "pending"
    /\ Done(c)
    /\ Purge(waiters)
    /\ UNCHANGED <<record, resources>>

-----------------------------------------------------------------------------
(* The driver task and the factory it awaits.                               *)

untouched == <<kept, count, body, waiters, old, owned, caller, joined>>

(* The scheduled callback cancels the task, whoever has joined since; or    *)
(* the loop itself is shut down and cancels it.                             *)
CancelDriver(k) ==
    /\ outcome[k] = "pending" /\ cancel[k] # "requested"
    /\ cancel' = [cancel EXCEPT ![k] = "requested"]
    /\ UNCHANGED <<untouched, driver, outcome, resources>>

(* Slip: a task that never ran answers nobody.                              *)
SlipDriverDone(k) ==
    /\ driver[k] = "new" /\ cancel[k] = "requested"
    /\ driver' = [driver EXCEPT ![k] = "none"]
    /\ UNCHANGED <<untouched, cancel, outcome, resources>>

(* A task cancelled before its first step: _driver_done answers 409.        *)
DriverDone(k) ==
    /\ driver[k] = "new" /\ cancel[k] = "requested"
    /\ driver' = [driver EXCEPT ![k] = "none"]
    /\ outcome' = [outcome EXCEPT ![k] = "failed"]
    /\ UNCHANGED <<untouched, cancel, resources>>

Begin(k) ==
    /\ driver[k] = "new" /\ cancel[k] # "requested"
    /\ driver' = [driver EXCEPT ![k] = "starting"]
    /\ UNCHANGED <<untouched, cancel, outcome, resources>>

(* The factory spawns the process; it may still fail or be cancelled.       *)
Make(k) ==
    /\ driver[k] = "starting"
    /\ driver' = [driver EXCEPT ![k] = "made"]
    /\ alive' = alive \cup {Resource(k)}
    /\ UNCHANGED <<untouched, cancel, outcome, listed, deleted>>

(* The factory registers the resource and returns, with no await between.   *)
Return(k) ==
    /\ driver[k] = "made"
    /\ driver' = [driver EXCEPT ![k] = "none"]
    /\ outcome' = [outcome EXCEPT ![k] = "value"]
    /\ listed' = listed \cup {Resource(k)}
    /\ UNCHANGED <<untouched, cancel, alive, deleted>>

(* The terminal factory returns a 429 or 503 response as its value.         *)
Refuse(k) ==
    /\ k \in Terminals /\ driver[k] = "starting"
    /\ driver' = [driver EXCEPT ![k] = "none"]
    /\ outcome' = [outcome EXCEPT ![k] = "refused"]
    /\ UNCHANGED <<untouched, cancel, resources>>

(* An error, a cancellation or 499 makes the factory clean up ...           *)
Unwind(k) ==
    /\ driver[k] \in {"starting", "made"}
    /\ driver' = [driver EXCEPT ![k] = "cleaning"]
    /\ UNCHANGED <<untouched, cancel, outcome, resources>>

(* Slip: an unexpected error is as retryable as any other.                  *)
SlipUnexpected == "failed"

(* Any error but an HTTPException or a cancellation: 500, not retryable.    *)
Unexpected == "unknown"

(* ... which either is confirmed, or raises an unexpected error.            *)
Unwound(k) ==
    /\ driver[k] = "cleaning"
    /\ driver' = [driver EXCEPT ![k] = "none"]
    /\ \/ outcome' = [outcome EXCEPT ![k] = "failed"] /\ alive' = alive \ {Resource(k)}
       \/ outcome' = [outcome EXCEPT ![k] = Unexpected] /\ alive' = alive
    /\ UNCHANGED <<untouched, cancel, listed, deleted>>

Drive(k) ==
    \/ DriverDone(k) \/ Begin(k) \/ Make(k) \/ Return(k) \/ Refuse(k)
    \/ Unwind(k) \/ Unwound(k)

-----------------------------------------------------------------------------
(* Time and the resources' own life.                                        *)

Expire(k) ==
    /\ outcome[k] \in {"value", "refused"} /\ ~old[k]
    /\ old' = [old EXCEPT ![k] = TRUE]
    /\ UNCHANGED <<kept, count, body, waiters, driver, cancel, outcome, owned,
                   caller, joined, resources>>

Finish(r) ==
    /\ r \in alive
    /\ alive' = alive \ {r}
    /\ UNCHANGED <<untouched, driver, cancel, outcome, listed, deleted>>

(* DELETE of a terminal pops the session before it stops the shell; a       *)
(* command's entry is dropped after the command finished.                   *)
Delete(r) ==
    /\ r \in listed
    /\ r[1] \in Terminals \/ r \notin alive
    /\ listed' = listed \ {r}
    /\ deleted' = deleted \cup {r}
    /\ UNCHANGED <<untouched, driver, cancel, outcome, alive>>

Next ==
    \/ \E c \in Callers : Arrive(c) \/ Answer(c) \/ Leave(c) \/ Settled(c)
    \/ \E k \in Keys : CancelDriver(k) \/ Drive(k) \/ Expire(k)
    \/ \E r \in Resources : Finish(r) \/ Delete(r)

(* The loop runs ready tasks; every wait of a factory has a timeout.        *)
Fairness ==
    /\ \A k \in Keys : WF_vars(Drive(k))
    /\ \A c \in Callers : WF_vars(Answer(c)) /\ WF_vars(Settled(c))

Spec == Init /\ [][Next]_vars
FairSpec == Spec /\ Fairness

-----------------------------------------------------------------------------
(* Properties.                                                              *)

(* Retries never duplicate: however requests join, leave and are cancelled, *)
(* a key never has two resources that live and were not deleted, also not   *)
(* when the cleanup of a creation could not be confirmed.                   *)
NoDuplicate ==
    \A r, s \in alive \ deleted : r[1] = s[1] => r = s

(* The limits hold, and owner_counts is the number of each owner's records. *)
RecordsCounted ==
    /\ Cardinality({k \in Keys : kept[k]}) <= MaxEntries
    /\ \A o \in Owners : /\ owned[o] = OwnedBy(o, {k \in Keys : kept[k]})
                         /\ owned[o] <= MaxUserEntries
    /\ \A k \in Keys : Cardinality(waiters[k]) <= MaxWaiters

(* A creation that nobody waits for any more is on its way to be cancelled, *)
(* and the one who left it last is still there to see its cleanup.          *)
AbandonedIsCancelled ==
    \A k \in Keys : outcome[k] = "pending" /\ waiters[k] = {} =>
        /\ cancel[k] # "no"
        /\ \E c \in Callers : KeyOf[c] = k /\ caller[c] = "settling" /\ joined[c] = count[k]

(* A creation error whose cleanup is confirmed releases its key when the    *)
(* current waiters are gone: the next request can create.                   *)
KeyReleased ==
    \A k \in Keys :
        /\ kept[k] /\ outcome[k] = "failed" /\ waiters[k] = {}
        => \E c \in Callers :
              KeyOf[c] = k /\ caller[c] = "settling" /\ joined[c] = count[k]

(* What there is of each key, whom it keeps waiting, and what lives.        *)
StateOf == [k \in Keys |-> IF ~kept[k] THEN "free"
                           ELSE IF outcome[k] = "pending" THEN "creating" ELSE "settled"]

AttachedTo == [c \in Callers |-> IF caller[c] = "waiting" THEN joined[c] ELSE 0]

Keyed == INSTANCE KeyedCreation
           WITH state <- StateOf, made <- count, attached <- AttachedTo,
                live <- alive \ deleted

(* Retries never duplicate: with its driver tasks, purges, limits and       *)
(* cancellations the registry has one creation at a time per key, forgets   *)
(* it only when nobody waits for it and nothing it made lives, and attaches *)
(* every request of the key to it until then (KeyedCreation).               *)
ImplementsKeyed == Keyed!Spec

(* Every request is answered, whoever else comes, leaves or is cancelled.   *)
EveryCallerAnswered ==
    <>[](\A c \in Callers : caller[c] \notin {"waiting", "settling"})

(* README: "Creation failures, including queue 429, release their key after *)
(* cleanup completes and the current waiters finish."  A terminal refused   *)
(* for the limit or for lack of PTYs is such a failure.                     *)
FailuresRelease ==
    \A k \in Keys :
        /\ kept[k] /\ waiters[k] = {}
        /\ outcome[k] = "failed" \/ outcome[k] = "refused"
        => \E c \in Callers :
              KeyOf[c] = k /\ caller[c] = "settling" /\ joined[c] = count[k]

(* README: "pending/running/cleaning resources remain pinned": a record is  *)
(* not dropped while its resource is still being cleaned up.                *)
PinnedWhileCleaning ==
    [][\A k \in Keys : kept[k] /\ ~kept'[k] /\ outcome[k] = "value"
          => Resource(k) \notin alive]_vars
=============================================================================
