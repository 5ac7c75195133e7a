----------------------------- MODULE HelperPool -----------------------------
(***************************************************************************)
(* The pool of trusted helper processes: HelperPool, run_helper and        *)
(* open_helper of utils/service_processes.py.                              *)
(*                                                                         *)
(* Blocking worker threads (run_helper) and tasks of the event loop        *)
(* (open_helper) share the pool under its lock.  A task can be cancelled   *)
(* at every await, also between the fork of its helper and the return of   *)
(* the PID.                                                                *)
(***************************************************************************)
EXTENDS Integers, Sequences, FiniteSets, SequencesExt

CONSTANTS
    Clients,       \* calls of run_helper and open_helper
    Tasks,         \* those on the event loop
    Slots,         \* HelperPool.limit
    MaxWaiting     \* HelperPool.max_queue

ASSUME PoolAssumption ==
    /\ IsFiniteSet(Clients) /\ Tasks \subseteq Clients
    /\ Slots \in Nat \ {0} /\ MaxWaiting \in Nat

VARIABLES
    active,        \* HelperPool._active
    waiting,       \* HelperPool._waiting
    granted,       \* tickets with granted set
    released,      \* tickets with released set
    phase,         \* where each call is
    spawn,         \* its Popen or create_subprocess_exec
    helper,        \* its process
    signal         \* the signal sent to the process group

vars == <<active, waiting, granted, released, phase, spawn, helper, signal>>
pool == <<active, waiting, granted, released>>

TypeOK ==
    /\ active \in 0..Slots
    /\ waiting \in Seq(Clients) /\ Len(waiting) <= MaxWaiting
    /\ granted \subseteq Clients /\ released \subseteq Clients
    /\ phase \in [Clients -> {"out", "waiting", "holding", "starting", "using",
                              "reaping", "leaving", "done"}]
    /\ spawn \in [Clients -> {"none", "pending", "done", "failed"}]
    /\ helper \in [Clients -> {"none", "alive", "dead"}]
    /\ signal \in [Clients -> {"none", "term", "kill"}]

Init ==
    /\ active = 0 /\ waiting = <<>> /\ granted = {} /\ released = {}
    /\ phase = [c \in Clients |-> "out"]
    /\ spawn = [c \in Clients |-> "none"]
    /\ helper = [c \in Clients |-> "none"]
    /\ signal = [c \in Clients |-> "none"]

-----------------------------------------------------------------------------
(* Tickets.                                                                 *)

Free == active < Slots

(* HelperPool._request: granted at once, refused, or queued.                *)
Request(c) ==
    /\ phase[c] = "out"
    /\ \/ /\ Free
          /\ active' = active + 1
          /\ granted' = granted \cup {c}
          /\ phase' = [phase EXCEPT ![c] = "holding"]
          /\ UNCHANGED waiting
       \/ /\ ~Free /\ Len(waiting) >= MaxWaiting
          /\ phase' = [phase EXCEPT ![c] = "done"]
          /\ UNCHANGED <<active, waiting, granted>>
       \/ /\ ~Free /\ Len(waiting) < MaxWaiting
          /\ waiting' = Append(waiting, c)
          /\ phase' = [phase EXCEPT ![c] = "waiting"]
          /\ UNCHANGED <<active, granted>>
    /\ UNCHANGED <<released, spawn, helper, signal>>

(* The waiter learns of its grant.                                          *)
Obtain(c) ==
    /\ phase[c] = "waiting" /\ c \in granted
    /\ phase' = [phase EXCEPT ![c] = "holding"]
    /\ UNCHANGED <<pool, spawn, helper, signal>>

(* wait_timeout passed, or the task was cancelled.  A thread sees a grant   *)
(* up to that moment; a task may miss one its loop has not delivered yet.   *)
(* Either way another grant may still come before the release.              *)
GiveUp(c) ==
    /\ phase[c] = "waiting"
    /\ c \in Tasks \/ c \notin granted
    /\ phase' = [phase EXCEPT ![c] = "leaving"]
    /\ UNCHANGED <<pool, spawn, helper, signal>>

(* Slip: the last waiter is passed over.                                    *)
SlipWaiters == Len(waiting) > 1

Waiters == waiting # <<>>

(* HelperPool._release: a ticket that was never granted leaves the queue;   *)
(* a slot goes to the oldest waiter, or back to the pool.                   *)
Release(c) ==
    /\ phase[c] = "leaving"
    /\ phase' = [phase EXCEPT ![c] = "done"]
    /\ released' = released \cup {c}
    /\ IF c \notin granted
         THEN /\ \E i \in DOMAIN waiting :
                    waiting[i] = c /\ waiting' = RemoveAt(waiting, i)
              /\ UNCHANGED <<active, granted>>
         ELSE IF Waiters
         THEN /\ granted' = granted \cup {Head(waiting)}
              /\ waiting' = Tail(waiting)
              /\ UNCHANGED active
         ELSE /\ active' = active - 1
              /\ UNCHANGED <<waiting, granted>>
    /\ UNCHANGED <<spawn, helper, signal>>

-----------------------------------------------------------------------------
(* The helper process.                                                      *)

(* Preparing the launch failed, or the task was cancelled before its spawn. *)
Abandon(c) ==
    /\ phase[c] = "holding"
    /\ phase' = [phase EXCEPT ![c] = "leaving"]
    /\ UNCHANGED <<pool, spawn, helper, signal>>

Launch(c) ==
    /\ phase[c] = "holding"
    /\ phase' = [phase EXCEPT ![c] = "starting"]
    /\ spawn' = [spawn EXCEPT ![c] = "pending"]
    /\ UNCHANGED <<pool, helper, signal>>

(* The fork, and later the return of the PID, or a failure without a child. *)
Fork(c) ==
    /\ spawn[c] = "pending" /\ helper[c] = "none"
    /\ helper' = [helper EXCEPT ![c] = "alive"]
    /\ UNCHANGED <<pool, phase, spawn, signal>>

SpawnEnds(c) ==
    /\ spawn[c] = "pending"
    /\ spawn' = [spawn EXCEPT ![c] = IF helper[c] = "none" THEN "failed" ELSE "done"]
    /\ UNCHANGED <<pool, phase, helper, signal>>

Enter(c) ==
    /\ phase[c] = "starting" /\ spawn[c] = "done"
    /\ phase' = [phase EXCEPT ![c] = "using"]
    /\ UNCHANGED <<pool, spawn, helper, signal>>

(* The caller is done or fails, its timeout passed, the handshake failed;   *)
(* a task may also be cancelled while its spawn is under way.               *)
Finish(c) ==
    /\ \/ phase[c] = "using"
       \/ phase[c] = "starting" /\ (c \in Tasks \/ spawn[c] = "failed")
    /\ phase' = [phase EXCEPT ![c] = "reaping"]
    /\ UNCHANGED <<pool, spawn, helper, signal>>

(* _reap asks a task's helper to end; a thread kills its own at once.       *)
Terminate(c) ==
    /\ phase[c] = "reaping" /\ spawn[c] = "done"
    /\ helper[c] = "alive" /\ signal[c] = "none"
    /\ signal' = [signal EXCEPT ![c] = IF c \in Tasks THEN "term" ELSE "kill"]
    /\ UNCHANGED <<pool, phase, spawn, helper>>

(* Slip: the helper is asked again.                                         *)
SlipLastSignal == "term"

LastSignal == "kill"

(* The grace has passed.                                                    *)
Kill(c) ==
    /\ phase[c] = "reaping" /\ helper[c] = "alive" /\ signal[c] = "term"
    /\ signal' = [signal EXCEPT ![c] = LastSignal]
    /\ UNCHANGED <<pool, phase, spawn, helper>>

Exit(c) ==
    /\ helper[c] = "alive"
    /\ helper' = [helper EXCEPT ![c] = "dead"]
    /\ UNCHANGED <<pool, phase, spawn, signal>>

(* Slip: another cancellation interrupts the cleanup.                       *)
SlipReaped(c) == c \in Tasks

(* The spawn ended and its process, if any, is waited for.  Cancelling the  *)
(* task again changes nothing: _finish_cleanup goes on waiting.             *)
Reaped(c) == spawn[c] \in {"done", "failed"} /\ helper[c] # "alive"

EndReap(c) ==
    /\ phase[c] = "reaping" /\ Reaped(c)
    /\ phase' = [phase EXCEPT ![c] = "leaving"]
    /\ UNCHANGED <<pool, spawn, helper, signal>>

Reap(c) == Terminate(c) \/ Kill(c) \/ EndReap(c) \/ Release(c)

Next == \E c \in Clients :
    \/ Request(c) \/ Obtain(c) \/ GiveUp(c) \/ Abandon(c) \/ Launch(c) \/ Fork(c)
    \/ SpawnEnds(c) \/ Enter(c) \/ Finish(c) \/ Reap(c) \/ Exit(c)

(* Threads and the loop go on, and a killed process exits.  Nothing is      *)
(* assumed of the callers' own work.                                        *)
Fairness == \A c \in Clients :
    /\ WF_vars(SpawnEnds(c)) /\ WF_vars(Reap(c))
    /\ WF_vars(signal[c] = "kill" /\ Exit(c))

Spec == Init /\ [][Next]_vars
FairSpec == Spec /\ Fairness

-----------------------------------------------------------------------------
(* Properties.                                                              *)

Holders == granted \ released

(* No slot is lost or handed out twice, whether tickets are granted, time   *)
(* out or are cancelled at the same moment: active counts the holders, and  *)
(* nobody waits while a slot is free.                                       *)
SlotsCounted ==
    /\ active = Cardinality(Holders)
    /\ waiting # <<>> => active = Slots
    /\ IsInjective(waiting)
    /\ \A c \in Range(waiting) : c \notin granted \cup released

(* A helper process exists only while its call has its slot: a call that    *)
(* is cancelled, even before it knew the PID, leaves no helper behind.      *)
HelperOwnsSlot ==
    \A c \in Clients : helper[c] = "alive" \/ spawn[c] = "pending" => c \in Holders

(* A call that is on its way out returns its slot, also when its helper     *)
(* ignores SIGTERM or was just being forked.                                *)
SlotReturned ==
    \A c \in Clients : phase[c] \in {"reaping", "leaving"} ~> phase[c] = "done"
=============================================================================
