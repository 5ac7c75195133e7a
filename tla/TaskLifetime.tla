---------------------------- MODULE TaskLifetime ----------------------------
(***************************************************************************)
(* One managed task from its reservation to its release: class Launch and  *)
(* spawn_prepared of execution/manager.py, the trusted launcher of         *)
(* execution/launcher.py, and the task's cgroup.                           *)
(*                                                                         *)
(* The thread that starts the task, its reaper, callers of stop() and the  *)
(* service's shutdown share the Launch under Launch._cleanup_lock, which a *)
(* thread keeps while it waits for the cgroup to empty or for the launcher *)
(* to report.  Processes, the kernel and time move without the lock.       *)
(***************************************************************************)
EXTENDS Integers, FiniteSets

CONSTANT Stoppers     \* threads that stop the task on request: DELETE, a closed terminal

(* "closer" closes the runner or the session when the leader's output ended. *)
Threads == {"starter", "reaper", "shutdown", "closer"} \cup Stoppers

ASSUME StopperAssumption ==
    Stoppers \cap {"starter", "reaper", "shutdown", "closer", "nobody"} = {}

VARIABLES
    adapter,       \* the caller forks by itself (a Jupyter kernel), outside the lock
    lock,          \* the holder of _cleanup_lock
    pc,            \* each thread's position
    fdsOpen,       \* the descriptors that argv names are open
    registered,    \* Launch.process is set
    started,       \* started_at and the deadline are set
    cancelled,     \* _cancel_requested
    stopping,      \* _stopping
    terminateAt,   \* _terminate_at: none, or a time that has passed or not
    late,          \* the monotonic deadline has passed
    closed,        \* _closed
    endReason,     \* end_reason
    reserved,      \* the manager still counts the task
    cgroup,        \* the task's cgroup directory
    leader,        \* the launched process
    child,         \* its descendants in the cgroup, lumped together
    killed,        \* who has a SIGKILL the kernel has not yet carried out
    ready          \* the launcher wrote READY and executed the command

vars == <<adapter, lock, pc, fdsOpen, registered, started, cancelled, stopping,
          terminateAt, late, closed, endReason, reserved, cgroup, leader, child,
          killed, ready>>
launchVars == <<adapter, fdsOpen, registered, started, cancelled, stopping,
                terminateAt, closed, endReason, reserved>>
processVars == <<cgroup, leader, child, killed, ready>>

Reasons == {"none", "completed", "cancelled", "timed_out", "start_failed",
            "shutdown", "oom"}

TypeOK ==
    /\ adapter \in BOOLEAN
    /\ lock \in Threads \cup {"nobody"}
    /\ pc \in [Threads -> {"off", "ready", "forked", "handshake", "returned",
                           "idle", "looping", "cleanup", "failed", "done"}]
    /\ fdsOpen \in BOOLEAN /\ registered \in BOOLEAN /\ started \in BOOLEAN
    /\ cancelled \in BOOLEAN /\ stopping \in BOOLEAN /\ late \in BOOLEAN
    /\ closed \in BOOLEAN /\ reserved \in BOOLEAN /\ ready \in BOOLEAN
    /\ terminateAt \in {"none", "future", "passed"}
    /\ endReason \in Reasons
    /\ cgroup \in {"live", "removed"}
    /\ leader \in {"none", "forked", "entered", "user", "gone"}
    /\ child \in BOOLEAN
    /\ killed \subseteq {"leader", "child"}

(* Launch.__init__ succeeded inside Manager.prepare: reservation, cgroup    *)
(* and descriptors exist, no process does.                                  *)
Init ==
    /\ adapter \in BOOLEAN
    /\ lock = "nobody"
    /\ pc = [t \in Threads |-> IF t = "starter" THEN "ready"
                               ELSE IF t = "reaper" THEN "off" ELSE "idle"]
    /\ fdsOpen = TRUE /\ registered = FALSE /\ started = FALSE
    /\ cancelled = FALSE /\ stopping = FALSE /\ terminateAt = "none"
    /\ late = FALSE /\ closed = FALSE /\ endReason = "none"
    /\ reserved = TRUE /\ cgroup = "live"
    /\ leader = "none" /\ child = FALSE /\ killed = {} /\ ready = FALSE

-----------------------------------------------------------------------------
(* The cgroup as the manager sees it.                                       *)

Members == (IF leader \in {"entered", "user"} THEN {"leader"} ELSE {})
             \cup (IF child THEN {"child"} ELSE {})

Populated == Members # {}

Polled == leader \in {"none", "gone"}        \* process.poll() is not None

(* Slip: a later reason replaces the first, and may be unknown.             *)
SlipReason(r) == endReason' \in {r, "unknown"}

(* Launch._reason: the first reason stays; an OOM kill of the task goes     *)
(* before the given one, except that request_stop does not look.            *)
Reason(r) ==
    IF endReason # "none" THEN endReason' = endReason
    ELSE endReason' \in {r} \cup IF r = "shutdown" THEN {} ELSE {"oom"}

(* Launch._cleanup up to its wait: descriptors are closed, and the leader   *)
(* (if its process is known) and every member of the cgroup are killed.     *)
(* The lock is kept.                                                        *)
BeginCleanup(t, reason, known) ==
    /\ lock' = t
    /\ pc' = [pc EXCEPT ![t] = "cleanup"]
    /\ stopping' = TRUE
    /\ Reason(reason)
    /\ fdsOpen' = FALSE
    /\ killed' = killed \cup Members
                   \cup IF known /\ ~Polled THEN {"leader"} ELSE {}
    /\ UNCHANGED <<cgroup, leader, child, ready, closed, reserved>>

NotStarted == IF started THEN "cancelled" ELSE "start_failed"

(* Launch.abort: nothing if already closed, else the cleanup.               *)
Abort(t, after) ==
    IF closed
      THEN /\ pc' = [pc EXCEPT ![t] = after]
           /\ UNCHANGED <<lock, stopping, endReason, fdsOpen, processVars, closed, reserved>>
      ELSE BeginCleanup(t, NotStarted, registered)

(* Where a thread goes when its cleanup succeeded, or raised.               *)
After(t) == IF t = "starter" THEN "failed" ELSE "done"
AfterError(t) == IF t = "reaper" THEN "idle" ELSE After(t)

(* Slip: the cgroup is not verified empty.                                  *)
SlipFinishCleanup(t) ==
    /\ pc[t] = "cleanup" /\ lock = t
    /\ cgroup' = "removed" /\ reserved' = FALSE /\ closed' = TRUE
    /\ lock' = "nobody"
    /\ pc' = [pc EXCEPT ![t] = After(t)]
    /\ UNCHANGED <<adapter, fdsOpen, registered, started, cancelled, stopping,
                   terminateAt, late, endReason, leader, child, killed, ready>>

(* The cgroup is empty and the leader reaped: the directory is removed, the *)
(* reservation released and the launch closed.                              *)
FinishCleanup(t) ==
    /\ pc[t] = "cleanup" /\ lock = t
    /\ ~Populated
    /\ registered => Polled
    /\ cgroup' = "removed" /\ reserved' = FALSE /\ closed' = TRUE
    /\ lock' = "nobody"
    /\ pc' = [pc EXCEPT ![t] = After(t)]
    /\ UNCHANGED <<adapter, fdsOpen, registered, started, cancelled, stopping,
                   terminateAt, late, endReason, leader, child, killed, ready>>

(* Slip: no reaper is started.                                              *)
SlipEnsureReaper(f) == f

(* Launch._ensure_reaper: one reaper thread, once.                          *)
EnsureReaper(f) == IF f["reaper"] = "off" THEN [f EXCEPT !["reaper"] = "idle"] ELSE f

(* cleanup_timeout passed: the reservation stays, and the reaper retries.   *)
FailCleanup(t) ==
    /\ pc[t] = "cleanup" /\ lock = t
    /\ Populated \/ (registered /\ ~Polled)
    /\ lock' = "nobody"
    /\ pc' = EnsureReaper([pc EXCEPT ![t] = AfterError(t)])
    /\ UNCHANGED <<launchVars, processVars, late>>

(* Launch._begin_stop: SIGTERM and a grace period, once; a failure to       *)
(* signal ends the grace at once.                                           *)
BeginStop(reason) ==
    /\ Reason(reason)
    /\ stopping' = TRUE
    /\ IF stopping THEN terminateAt' = terminateAt
                   ELSE terminateAt' \in {"future", "passed"}

-----------------------------------------------------------------------------
(* The starter.                                                             *)

(* Slip: a stop requested before the start is not looked at.                *)
SlipStartRefused == closed

(* A stop was requested before the process was registered.                  *)
StartRefused == cancelled

(* spawn_prepared holds the lock from its check to the end of the handshake.*)
Spawn ==
    /\ ~adapter /\ pc["starter"] = "ready" /\ lock = "nobody"
    /\ IF StartRefused
         THEN Abort("starter", "failed") /\ registered' = registered
         ELSE /\ leader' = "forked" /\ registered' = TRUE
              /\ lock' = "starter"
              /\ pc' = [pc EXCEPT !["starter"] = "handshake"]
              /\ UNCHANGED <<fdsOpen, stopping, closed, endReason, reserved,
                             cgroup, child, killed, ready>>
    /\ UNCHANGED <<adapter, started, cancelled, terminateAt, late>>

(* The caller aborts: it was cancelled before it started anything, its      *)
(* Popen failed, its except clause tries again after a failed start, or an  *)
(* adapter was cancelled while started() ran.                               *)
Abandon ==
    /\ \/ pc["starter"] \in {"ready", "forked", "failed"}
       \/ adapter /\ pc["starter"] = "returned"
    /\ lock = "nobody"
    /\ Abort("starter", "failed")
    /\ UNCHANGED <<adapter, registered, started, cancelled, terminateAt, late>>

(* An external adapter forks without the lock ...                           *)
AdapterFork ==
    /\ adapter /\ pc["starter"] = "ready"
    /\ leader' = "forked"
    /\ pc' = [pc EXCEPT !["starter"] = "forked"]
    /\ UNCHANGED <<launchVars, lock, late, cgroup, child, killed, ready>>

(* ... and reports the process to started(), which kills it if the launch   *)
(* was closed, aborts if a stop was requested, and else awaits READY.       *)
AdapterStarted ==
    /\ pc["starter"] = "forked" /\ lock = "nobody"
    /\ IF closed
         THEN /\ killed' = killed \cup (IF Polled THEN {} ELSE {"leader"})
              /\ pc' = [pc EXCEPT !["starter"] = "failed"]
              /\ UNCHANGED <<registered, lock, stopping, endReason, fdsOpen, closed,
                             reserved, cgroup, leader, child, ready>>
         ELSE IF StartRefused
         THEN registered' = TRUE /\ BeginCleanup("starter", NotStarted, TRUE)
         ELSE /\ registered' = TRUE
              /\ lock' = "starter"
              /\ pc' = [pc EXCEPT !["starter"] = "handshake"]
              /\ UNCHANGED <<processVars, stopping, endReason, fdsOpen, closed, reserved>>
    /\ UNCHANGED <<adapter, started, cancelled, terminateAt, late>>

(* Launch._started: READY and the end of the pipe arrived.                  *)
HandshakeOK ==
    /\ pc["starter"] = "handshake" /\ ready
    /\ started' = TRUE
    /\ fdsOpen' = FALSE
    /\ lock' = "nobody"
    /\ pc' = EnsureReaper([pc EXCEPT !["starter"] = "returned"])
    /\ UNCHANGED <<adapter, registered, cancelled, stopping, terminateAt, late,
                   closed, endReason, reserved, processVars>>

(* start_timeout passed, the launcher exited or its message is invalid.     *)
HandshakeFails ==
    /\ pc["starter"] = "handshake"
    /\ BeginCleanup("starter", "start_failed", TRUE)
    /\ UNCHANGED <<adapter, registered, started, cancelled, terminateAt, late>>

Starter == Spawn \/ AdapterFork \/ AdapterStarted \/ HandshakeOK \/ HandshakeFails

-----------------------------------------------------------------------------
(* Stopping.                                                                *)

(* Slip: the cleanup after an exit is a forced stop like any other.         *)
SlipPreservesGrace(reason) == reason = "shutdown"

(* The cleanup after an exit keeps a grace period that was already offered. *)
PreservesGrace(reason) == reason = "completed" /\ stopping /\ terminateAt # "none"

(* Launch.stop up to its loop: a forced stop aborts.                        *)
Stop(s, force, reason) ==
    /\ pc[s] = "idle" /\ lock = "nobody"
    /\ started
    /\ IF closed
         THEN /\ pc' = [pc EXCEPT ![s] = "done"]
              /\ UNCHANGED <<lock, stopping, terminateAt, endReason, fdsOpen,
                             closed, reserved, processVars>>
         ELSE IF force /\ ~PreservesGrace(reason)
         THEN BeginCleanup(s, reason, TRUE) /\ terminateAt' = terminateAt
         ELSE /\ BeginStop(reason)
              /\ pc' = EnsureReaper([pc EXCEPT ![s] = "looping"])
              /\ UNCHANGED <<lock, fdsOpen, closed, reserved, processVars>>
    /\ UNCHANGED <<adapter, registered, started, cancelled, late>>

StopCalls ==
    \/ \E s \in Stoppers, force \in BOOLEAN : Stop(s, force, "cancelled")
    \/ Stop("closer", TRUE, "completed")

(* Slip: everything is aborted at once.                                     *)
SlipRequestStop ==
    /\ pc["shutdown"] = "idle" /\ lock = "nobody" /\ ~closed
    /\ cancelled' = TRUE
    /\ BeginCleanup("shutdown", "shutdown", registered)
    /\ UNCHANGED <<adapter, registered, started, terminateAt, late>>

(* Launch.request_stop: an adapter between prepare and fork keeps its       *)
(* descriptors and its reservation until it reports.                        *)
RequestStop ==
    /\ pc["shutdown"] = "idle" /\ lock = "nobody"
    /\ cancelled' = TRUE
    /\ IF registered /\ ~closed
         THEN BeginCleanup("shutdown", "shutdown", TRUE)
         ELSE /\ endReason' = IF endReason = "none" THEN "shutdown" ELSE endReason
              /\ pc' = [pc EXCEPT !["shutdown"] = "done"]
              /\ UNCHANGED <<lock, stopping, fdsOpen, closed, reserved, processVars>>
    /\ UNCHANGED <<adapter, registered, started, terminateAt, late>>

(* Launch._advance, polled by the reaper and by graceful stop() calls.      *)
Advance(t) ==
    /\ IF t = "reaper" THEN pc[t] = "idle" ELSE pc[t] = "looping"
    /\ lock = "nobody"
    /\ \/ /\ closed
          /\ pc' = [pc EXCEPT ![t] = "done"]
          /\ UNCHANGED <<lock, stopping, terminateAt, endReason, fdsOpen, closed,
                         reserved, processVars>>
       \/ /\ ~closed /\ stopping
          /\ terminateAt # "future" \/ ~Populated
          /\ BeginCleanup(t, NotStarted, registered) /\ terminateAt' = terminateAt
       \/ /\ ~closed /\ ~stopping /\ (registered => Polled)
          /\ BeginCleanup(t, IF started THEN "completed" ELSE "start_failed", registered)
          /\ terminateAt' = terminateAt
       \/ /\ ~closed /\ ~stopping /\ registered /\ ~Polled /\ late
          /\ BeginStop("timed_out")
          /\ UNCHANGED <<pc, lock, fdsOpen, closed, reserved, processVars>>
    /\ UNCHANGED <<adapter, registered, started, cancelled, late>>

-----------------------------------------------------------------------------
(* Processes, kernel and time.                                              *)

Alive(p) == p \notin killed

(* The launcher joins the cgroup before anything else; the directory must   *)
(* still exist.                                                             *)
LauncherEnters ==
    /\ leader = "forked" /\ Alive("leader") /\ cgroup = "live"
    /\ leader' = "entered"
    /\ UNCHANGED <<launchVars, lock, pc, late, cgroup, child, killed, ready>>

(* It drops privileges, writes READY and executes the user's command.       *)
LauncherExecs ==
    /\ leader = "entered" /\ Alive("leader")
    /\ leader' = "user" /\ ready' = TRUE
    /\ UNCHANGED <<launchVars, lock, pc, late, cgroup, child, killed>>

UserForks ==
    /\ leader = "user" /\ Alive("leader") /\ ~child
    /\ child' = TRUE
    /\ UNCHANGED <<launchVars, lock, pc, late, cgroup, leader, killed, ready>>

(* A process exits by itself, on SIGTERM, on an error or on SIGKILL.        *)
LeaderExits ==
    /\ leader \in {"forked", "entered", "user"}
    /\ leader' = "gone"
    /\ killed' = killed \ {"leader"}
    /\ UNCHANGED <<launchVars, lock, pc, late, cgroup, child, ready>>

ChildExits ==
    /\ child
    /\ child' = FALSE
    /\ killed' = killed \ {"child"}
    /\ UNCHANGED <<launchVars, lock, pc, late, cgroup, leader, ready>>

DeadlinePasses ==
    /\ started /\ ~late
    /\ late' = TRUE
    /\ UNCHANGED <<launchVars, lock, pc, processVars>>

GracePasses ==
    /\ terminateAt = "future"
    /\ terminateAt' = "passed"
    /\ UNCHANGED <<adapter, fdsOpen, registered, started, cancelled, stopping, closed,
                   endReason, reserved, lock, pc, late, processVars>>

Processes == LauncherEnters \/ LauncherExecs \/ UserForks \/ LeaderExits \/ ChildExits

Cleanup(t) == FinishCleanup(t) \/ FailCleanup(t)

Next ==
    \/ Starter \/ Abandon \/ RequestStop
    \/ StopCalls
    \/ \E t \in Stoppers \cup {"closer", "reaper"} : Advance(t)
    \/ \E t \in Threads : Cleanup(t)
    \/ Processes \/ DeadlinePasses \/ GracePasses

Spec == Init /\ [][Next]_vars

-----------------------------------------------------------------------------
(* Properties.                                                              *)

(* The reservation covers the task: while any process of it is in the       *)
(* cgroup, so whenever user code runs, the manager counts the task; and     *)
(* once it does not, nothing can ever enter.                                *)
ReservationCoversTask ==
    /\ Populated => reserved /\ cgroup = "live"
    /\ reserved <=> ~closed

(* An adapter that is about to fork passes descriptors that are still the   *)
(* launch's own: nobody closed them, so no other file took their numbers.   *)
(* A task that ended holds none.                                            *)
DescriptorsAreOwn ==
    /\ pc["starter"] = "ready" => fdsOpen
    /\ closed \/ pc["starter"] = "returned" => ~fdsOpen

(* Shutdown is not outrun: a start that has not returned when the stop was  *)
(* requested never returns a running task.                                  *)
CancelledNeverStarts ==
    [][cancelled /\ pc["starter"] # "returned" => pc'["starter"] # "returned"]_vars

(* The grace period offered with SIGTERM is cut short only by a forced      *)
(* cancellation, an abort or shutdown, never by the cleanup that follows the exit  *)
(* of the leader.                                                           *)
GraceKept ==
    [][terminateAt = "future" /\ Populated /\ killed' \ killed # {} =>
          lock' \in {"shutdown", "starter"} \cup Stoppers]_vars

(* The reason of the end is decided once, and a finished task has one.      *)
ReasonIsFinal ==
    [][/\ endReason # "none" => endReason' = endReason
       /\ closed' => endReason' # "none"]_vars

-----------------------------------------------------------------------------
(***************************************************************************)
(* Threads are scheduled, a lock is acquired after finitely many attempts, *)
(* the kernel carries out SIGKILL, and the clock advances.                 *)
(***************************************************************************)
Fairness ==
    /\ SF_vars(Starter) /\ SF_vars(Advance("reaper"))
    /\ \A t \in Threads : WF_vars(FinishCleanup(t)) /\ WF_vars(Cleanup(t))
    /\ WF_vars("leader" \in killed /\ LeaderExits)
    /\ WF_vars("child" \in killed /\ ChildExits)
    /\ WF_vars(GracePasses) /\ WF_vars(DeadlinePasses)

FairSpec == Spec /\ Fairness

(* Every task ends: stopped, overdue, cancelled or abandoned, each task is  *)
(* eventually removed and its reservation returned, also if a cleanup timed *)
(* out on the way.                                                          *)
TaskEnds == <>[](closed /\ ~reserved /\ ~Populated)
=============================================================================
