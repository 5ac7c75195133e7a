------------------------- MODULE TaskLifetimeProofs -------------------------
(***************************************************************************)
(* Proofs about TaskLifetime, for any set of threads that stop the task.   *)
(*                                                                         *)
(* LifeInv is inductive.  It says who may hold the lock for what: a start  *)
(* in its handshake keeps the lock and has not been cancelled, and until   *)
(* the starter moved nobody else can have begun a cleanup.                 *)
(***************************************************************************)
EXTENDS TaskLifetime, TLAPS

(* Before the starter moved, only a shutdown may have spoken.               *)
Untouched ==
    /\ fdsOpen /\ ~registered /\ ~started
    /\ \A t \in Threads \ {"starter"} : pc[t] \in {"off", "idle", "done"}
    /\ pc["reaper"] = "off"

Phases ==
    /\ pc["starter"] = "ready" => Untouched
    /\ pc["starter"] = "handshake" => lock = "starter" /\ ~cancelled
    /\ \A t \in Threads : pc[t] = "cleanup" => ~fdsOpen /\ endReason # "none"
    /\ closed \/ pc["starter"] = "returned" => ~fdsOpen
    /\ closed => endReason # "none"
    /\ terminateAt # "none" => stopping

Covered ==
    /\ closed <=> cgroup = "removed"
    /\ closed <=> ~reserved
    /\ closed => ~Populated

LifeInv == TypeOK /\ Phases /\ Covered

(* Init establishes the inductive invariant.                                *)
LEMMA InitLife == Init => LifeInv
  <1> SUFFICES ASSUME Init PROVE LifeInv OBVIOUS
  <1>1. TypeOK BY DEF Init, TypeOK, Threads, Reasons
  <1>2. \A t \in Threads : pc[t] \in {"ready", "off", "idle"} BY DEF Init
  <1>3. pc["starter"] = "ready" /\ pc["reaper"] = "off" BY DEF Init, Threads
  <1>4. \A t \in Threads \ {"starter"} : pc[t] \in {"off", "idle"} BY DEF Init
  <1>5. Phases BY <1>2, <1>3, <1>4 DEF Init, Phases, Untouched
  <1>6. Covered BY DEF Init, Covered, Populated, Members
  <1> QED BY <1>1, <1>5, <1>6 DEF LifeInv

(* Every thread but the starter that runs its cleanup does so after the     *)
(* starter moved, and never during a handshake: the lock is then taken.     *)
LEMMA CleanupLife ==
  ASSUME LifeInv, NEW t \in Threads, NEW reason \in Reasons \ {"none"},
         NEW known \in BOOLEAN, BeginCleanup(t, reason, known),
         t # "starter" => pc["starter"] \notin {"ready", "handshake"},
         UNCHANGED <<adapter, started, terminateAt, late>>,
         registered' \in BOOLEAN, cancelled' \in BOOLEAN
  PROVE  LifeInv'
  <1>1. endReason' \in Reasons \ {"none"}
    <2>1. \/ endReason' = endReason /\ endReason # "none"
          \/ endReason' \in {reason, "oom"}
      BY DEF BeginCleanup, Reason
    <2> QED BY <2>1 DEF LifeInv, TypeOK, Reasons
  <1>2. killed' \subseteq {"leader", "child"}
    BY DEF BeginCleanup, Members, LifeInv, TypeOK
  <1>3. pc' = [pc EXCEPT ![t] = "cleanup"] BY DEF BeginCleanup
  <1>4. TypeOK'
    <2>1. pc' \in [Threads -> {"off", "ready", "forked", "handshake", "returned",
                              "idle", "looping", "cleanup", "failed", "done"}]
      BY <1>3 DEF LifeInv, TypeOK
    <2>2. /\ lock' = t /\ stopping' = TRUE /\ fdsOpen' = FALSE
          /\ UNCHANGED <<cgroup, leader, child, ready, closed, reserved>>
      BY DEF BeginCleanup
    <2>3. /\ adapter' \in BOOLEAN /\ started' \in BOOLEAN /\ late' \in BOOLEAN
          /\ terminateAt' \in {"none", "future", "passed"}
      BY DEF LifeInv, TypeOK
    <2>4. /\ ready' \in BOOLEAN /\ closed' \in BOOLEAN /\ reserved' \in BOOLEAN
          /\ child' \in BOOLEAN /\ cgroup' \in {"live", "removed"}
          /\ leader' \in {"none", "forked", "entered", "user", "gone"}
      BY <2>2 DEF LifeInv, TypeOK
    <2> QED BY <1>1, <1>2, <2>1, <2>2, <2>3, <2>4 DEF TypeOK
  <1>5. pc'["starter"] \notin {"ready", "handshake"}
    BY <1>3 DEF LifeInv, TypeOK, Threads
  <1>6. Phases'
    <2>1. ~fdsOpen' /\ stopping' BY DEF BeginCleanup
    <2> QED BY <1>1, <1>5, <2>1, Zenon DEF Phases
  <1>7. Covered' BY DEF LifeInv, Covered, BeginCleanup, Populated, Members
  <1> QED BY <1>4, <1>6, <1>7 DEF LifeInv

(* Aborting by the starter.                                                 *)
LEMMA AbortLife ==
  ASSUME LifeInv, Abort("starter", "failed"),
         UNCHANGED <<adapter, registered, started, cancelled, terminateAt, late>>
  PROVE  LifeInv'
  <1>0. "starter" \in Threads BY DEF Threads
  <1>1. CASE ~closed
    <2>1. NotStarted \in Reasons \ {"none"} BY DEF NotStarted, Reasons
    <2>2. BeginCleanup("starter", NotStarted, registered) BY <1>1 DEF Abort
    <2> QED BY <1>0, <2>1, <2>2, CleanupLife DEF LifeInv, TypeOK
  <1>2. CASE closed
    <2>1. UNCHANGED <<lock, stopping, endReason, fdsOpen, processVars, closed, reserved>>
      BY <1>2 DEF Abort
    <2>2. pc' = [pc EXCEPT !["starter"] = "failed"] BY <1>2 DEF Abort
    <2>3. TypeOK'
      <3>1. pc' \in [Threads -> {"off", "ready", "forked", "handshake", "returned",
                                "idle", "looping", "cleanup", "failed", "done"}]
        BY <1>0, <2>2 DEF LifeInv, TypeOK
      <3>2. /\ UNCHANGED <<lock, stopping, endReason, fdsOpen, closed, reserved>>
            /\ UNCHANGED <<cgroup, leader, child, killed, ready>>
        BY <2>1 DEF processVars
      <3> QED BY <3>1, <3>2 DEF LifeInv, TypeOK
    <2>4. \A t \in Threads : pc'[t] = "cleanup" => pc[t] = "cleanup"
      BY <2>2 DEF LifeInv, TypeOK
    <2>5. pc'["starter"] = "failed" BY <1>0, <2>2 DEF LifeInv, TypeOK
    <2>6. Phases' BY <2>1, <2>4, <2>5 DEF LifeInv, Phases
    <2>7. Covered' BY <2>1 DEF LifeInv, Covered, Populated, Members, processVars
    <2> QED BY <2>3, <2>6, <2>7 DEF LifeInv
  <1> QED BY <1>1, <1>2

(* A process that moves changes nothing that a thread decided.              *)
LEMMA ProcessesLife ==
  ASSUME LifeInv, Processes \/ DeadlinePasses \/ GracePasses
  PROVE  LifeInv'
  <1>1. UNCHANGED <<adapter, fdsOpen, registered, started, cancelled, stopping,
                    closed, endReason, reserved, lock, pc, cgroup>>
    <2>1. CASE Processes
      BY <2>1 DEF Processes, LauncherEnters, LauncherExecs, UserForks, LeaderExits,
         ChildExits, launchVars
    <2>2. CASE DeadlinePasses
      BY <2>2 DEF DeadlinePasses, launchVars, processVars
    <2>3. CASE GracePasses
      BY <2>3 DEF GracePasses, processVars
    <2> QED BY <2>1, <2>2, <2>3
  <1>2. /\ leader' \in {"none", "forked", "entered", "user", "gone"}
        /\ child' \in BOOLEAN /\ ready' \in BOOLEAN
        /\ killed' \subseteq {"leader", "child"}
    BY DEF LifeInv, TypeOK, Processes, LauncherEnters, LauncherExecs, UserForks,
           LeaderExits, ChildExits, DeadlinePasses, GracePasses, launchVars, processVars
  <1>7. terminateAt' # "none" => terminateAt # "none"
    BY DEF Processes, LauncherEnters, LauncherExecs, UserForks, LeaderExits,
           ChildExits, DeadlinePasses, GracePasses, launchVars
  <1>8. terminateAt' \in {"none", "future", "passed"} /\ late' \in BOOLEAN
    BY DEF LifeInv, TypeOK, Processes, LauncherEnters, LauncherExecs, UserForks,
           LeaderExits, ChildExits, DeadlinePasses, GracePasses, launchVars
  <1>3. TypeOK' BY <1>1, <1>2, <1>8 DEF LifeInv, TypeOK
  <1>4. Phases' BY <1>1, <1>7 DEF LifeInv, Phases, Untouched
  <1>5. closed => ~Populated'
    <2>1. SUFFICES ASSUME closed PROVE ~Populated' OBVIOUS
    <2>2. cgroup = "removed" /\ leader \notin {"entered", "user"} /\ ~child
      BY <2>1 DEF LifeInv, Covered, Populated, Members
    <2>3. leader' \notin {"entered", "user"} /\ ~child'
      BY <2>2 DEF LifeInv, TypeOK, Processes, LauncherEnters, LauncherExecs, UserForks,
         LeaderExits, ChildExits, DeadlinePasses, GracePasses, launchVars, processVars
    <2> QED BY <2>3 DEF Populated, Members
  <1>6. Covered' BY <1>1, <1>5 DEF LifeInv, Covered
  <1> QED BY <1>3, <1>4, <1>6 DEF LifeInv

(* The positions of the other threads are those of before, or the reaper is *)
(* woken.                                                                   *)
LEMMA EnsureReaperIs ==
  ASSUME NEW f \in [Threads -> {"off", "ready", "forked", "handshake", "returned",
                                "idle", "looping", "cleanup", "failed", "done"}]
  PROVE  /\ EnsureReaper(f) \in [Threads -> {"off", "ready", "forked", "handshake",
                      "returned", "idle", "looping", "cleanup", "failed", "done"}]
         /\ \A t \in Threads : \/ EnsureReaper(f)[t] = f[t]
                               \/ t = "reaper" /\ EnsureReaper(f)[t] = "idle"
  BY DEF EnsureReaper, Threads

(* A thread t that takes a step of its own, after the starter moved, without *)
(* cleaning up and without touching the launch but perhaps its grace.       *)
LEMMA StepAsideLife ==
  ASSUME LifeInv, NEW t \in Threads, NEW v \in {"failed", "idle", "looping", "done"},
         \/ pc' = [pc EXCEPT ![t] = v]
         \/ pc' = EnsureReaper([pc EXCEPT ![t] = v]),
         pc["starter"] # "ready",
         pc["starter"] = "handshake" => lock' = "starter" /\ ~cancelled',
         lock' \in Threads \cup {"nobody"}, cancelled' \in BOOLEAN,
         endReason' \in Reasons, endReason # "none" => endReason' # "none",
         terminateAt' \in {"none", "future", "passed"},
         terminateAt' # "none" => stopping', stopping' \in BOOLEAN,
         UNCHANGED <<adapter, fdsOpen, registered, started, late, closed, reserved,
                     cgroup, leader, child, ready>>,
         killed' \subseteq {"leader", "child"}
  PROVE  LifeInv'
  <1>1. [pc EXCEPT ![t] = v] \in [Threads -> {"off", "ready", "forked", "handshake",
            "returned", "idle", "looping", "cleanup", "failed", "done"}]
    BY DEF LifeInv, TypeOK
  <1>2. /\ pc' \in [Threads -> {"off", "ready", "forked", "handshake", "returned",
                                "idle", "looping", "cleanup", "failed", "done"}]
        /\ \A u \in Threads : pc'[u] = pc[u] \/ pc'[u] \in {"failed", "idle", "looping", "done"}
    <2> DEFINE f == [pc EXCEPT ![t] = v]
    <2>1. \A u \in Threads : f[u] = pc[u] \/ f[u] = v
      BY DEF LifeInv, TypeOK
    <2>2. pc' = f \/ pc' = EnsureReaper(f) OBVIOUS
    <2>3. f \in [Threads -> {"off", "ready", "forked", "handshake", "returned",
                            "idle", "looping", "cleanup", "failed", "done"}]
      BY <1>1
    <2> HIDE DEF f
    <2> QED BY <2>1, <2>2, <2>3, EnsureReaperIs
  <1>3. /\ adapter' \in BOOLEAN /\ fdsOpen' \in BOOLEAN /\ registered' \in BOOLEAN
        /\ started' \in BOOLEAN /\ late' \in BOOLEAN /\ closed' \in BOOLEAN
        /\ reserved' \in BOOLEAN /\ cgroup' \in {"live", "removed"}
        /\ leader' \in {"none", "forked", "entered", "user", "gone"}
        /\ child' \in BOOLEAN /\ ready' \in BOOLEAN
    BY DEF LifeInv, TypeOK
  <1>4. TypeOK' BY <1>2, <1>3 DEF TypeOK
  <1>5. "starter" \in Threads BY DEF Threads
  <1>6. /\ pc'["starter"] # "ready"
        /\ pc'["starter"] = "handshake" => lock' = "starter" /\ ~cancelled'
        /\ pc'["starter"] = "returned" => pc["starter"] = "returned"
    BY <1>2, <1>5
  <1>7. \A u \in Threads : pc'[u] = "cleanup" => pc[u] = "cleanup" BY <1>2
  <1>8. Phases' BY <1>6, <1>7 DEF LifeInv, Phases
  <1>9. Covered'
    <2>1. Populated' <=> Populated BY DEF Populated, Members
    <2> QED BY <2>1, Zenon DEF LifeInv, Covered
  <1> QED BY <1>4, <1>8, <1>9 DEF LifeInv

(* Nobody but the starter has moved past its first position before it.      *)
LEMMA StarterFirst ==
  ASSUME LifeInv, NEW t \in Threads \ {"starter"},
         \/ pc[t] \in {"cleanup", "looping"} \/ started \/ registered
         \/ t = "reaper" /\ pc[t] # "off"
  PROVE  pc["starter"] # "ready"
  BY DEF LifeInv, Phases, Untouched

(* A cleanup that ends, one way or the other.                               *)
LEMMA EndCleanupLife ==
  ASSUME LifeInv, NEW t \in Threads, Cleanup(t)
  PROVE  LifeInv'
  <1>0. "starter" \in Threads /\ pc[t] = "cleanup" /\ lock = t
    BY DEF Cleanup, FinishCleanup, FailCleanup, Threads
  <1>1. pc["starter"] \notin {"ready", "handshake"}
    BY <1>0, StarterFirst DEF LifeInv, Phases
  <1>2. ~fdsOpen /\ endReason # "none" BY <1>0 DEF LifeInv, Phases
  <1>3. CASE FailCleanup(t)
    <2>1. AfterError(t) \in {"failed", "idle", "looping", "done"}
      BY DEF AfterError, After
    <2>2. /\ UNCHANGED <<adapter, fdsOpen, registered, started, cancelled, stopping,
                         terminateAt, closed, endReason, reserved>>
          /\ UNCHANGED <<cgroup, leader, child, killed, ready>>
          /\ late' = late /\ lock' = "nobody"
          /\ pc' = EnsureReaper([pc EXCEPT ![t] = AfterError(t)])
      BY <1>3 DEF FailCleanup, launchVars, processVars
    <2>3. /\ cancelled' \in BOOLEAN /\ endReason' \in Reasons /\ stopping' \in BOOLEAN
          /\ terminateAt' \in {"none", "future", "passed"}
          /\ terminateAt' # "none" => stopping'
          /\ killed' \subseteq {"leader", "child"}
      BY <2>2 DEF LifeInv, TypeOK, Phases
    <2> QED BY <1>1, <2>1, <2>2, <2>3, StepAsideLife
  <1>4. CASE FinishCleanup(t)
    <2>1. /\ closed' = TRUE /\ reserved' = FALSE /\ cgroup' = "removed"
          /\ lock' = "nobody" /\ ~Populated
          /\ pc' = [pc EXCEPT ![t] = After(t)]
          /\ UNCHANGED <<adapter, fdsOpen, registered, started, cancelled, stopping,
                         terminateAt, late, endReason, leader, child, killed, ready>>
      BY <1>4 DEF FinishCleanup
    <2>2. After(t) \in {"failed", "done"} BY DEF After
    <2>3. pc' \in [Threads -> {"off", "ready", "forked", "handshake", "returned",
                               "idle", "looping", "cleanup", "failed", "done"}]
      BY <2>1, <2>2 DEF LifeInv, TypeOK
    <2>4. \A u \in Threads : pc'[u] \in {pc[u], "failed", "done"}
      BY <2>1, <2>2 DEF LifeInv, TypeOK
    <2>5. TypeOK'
      <3>1. /\ adapter' \in BOOLEAN /\ fdsOpen' \in BOOLEAN /\ registered' \in BOOLEAN
            /\ started' \in BOOLEAN /\ late' \in BOOLEAN /\ cancelled' \in BOOLEAN
            /\ stopping' \in BOOLEAN /\ child' \in BOOLEAN /\ ready' \in BOOLEAN
            /\ terminateAt' \in {"none", "future", "passed"} /\ endReason' \in Reasons
            /\ leader' \in {"none", "forked", "entered", "user", "gone"}
            /\ killed' \subseteq {"leader", "child"}
        BY <2>1 DEF LifeInv, TypeOK
      <3> QED BY <2>1, <2>3, <3>1 DEF TypeOK
    <2>6. pc'["starter"] \notin {"ready", "handshake"} BY <1>0, <1>1, <2>4
    <2>7. ~fdsOpen' /\ endReason' # "none" BY <1>2, <2>1
    <2>8. terminateAt' # "none" => stopping' BY <2>1 DEF LifeInv, Phases
    <2>9. Phases' BY <2>6, <2>7, <2>8, Zenon DEF Phases
    <2>10. ~Populated' BY <2>1 DEF Populated, Members
    <2>11. Covered' BY <2>1, <2>10 DEF Covered
    <2> QED BY <2>5, <2>9, <2>11 DEF LifeInv
  <1> QED BY <1>3, <1>4 DEF Cleanup

(* The starter forks, with or without the lock, or is refused.              *)
LEMMA StarterLife ==
  ASSUME LifeInv, Starter \/ Abandon
  PROVE  LifeInv'
  <1>0. "starter" \in Threads BY DEF Threads
  <1>1. CASE Abandon
    BY <1>1, AbortLife DEF Abandon
  <1>2. CASE Spawn /\ StartRefused
    BY <1>2, AbortLife DEF Spawn
  <1>3. CASE HandshakeFails
    <2>1. BeginCleanup("starter", "start_failed", TRUE) BY <1>3 DEF HandshakeFails
    <2>2. "start_failed" \in Reasons \ {"none"} BY DEF Reasons
    <2>3. /\ UNCHANGED <<adapter, started, terminateAt, late>>
          /\ registered' \in BOOLEAN /\ cancelled' \in BOOLEAN
      BY <1>3 DEF HandshakeFails, LifeInv, TypeOK
    <2> QED BY <1>0, <2>1, <2>2, <2>3, CleanupLife
  <1>4. CASE AdapterStarted /\ ~closed /\ StartRefused
    <2>1. BeginCleanup("starter", NotStarted, TRUE) BY <1>4 DEF AdapterStarted
    <2>2. NotStarted \in Reasons \ {"none"} BY DEF NotStarted, Reasons
    <2>3. /\ UNCHANGED <<adapter, started, terminateAt, late>>
          /\ registered' \in BOOLEAN /\ cancelled' \in BOOLEAN
      BY <1>4 DEF AdapterStarted, LifeInv, TypeOK
    <2> QED BY <1>0, <2>1, <2>2, <2>3, CleanupLife
  <1>5. CASE AdapterStarted /\ closed
    <2>1. /\ pc["starter"] = "forked"
          /\ killed' \in {killed, killed \cup {"leader"}}
          /\ pc' = [pc EXCEPT !["starter"] = "failed"]
          /\ UNCHANGED <<lock, stopping, endReason, cancelled, terminateAt>>
          /\ UNCHANGED <<adapter, fdsOpen, registered, started, late, closed, reserved,
                         cgroup, leader, child, ready>>
      BY <1>5 DEF AdapterStarted
    <2>2. /\ lock' \in Threads \cup {"nobody"} /\ cancelled' \in BOOLEAN
          /\ endReason' \in Reasons
          /\ endReason # "none" => endReason' # "none"
          /\ terminateAt' \in {"none", "future", "passed"}
          /\ terminateAt' # "none" => stopping'
          /\ stopping' \in BOOLEAN /\ killed' \subseteq {"leader", "child"}
      BY <2>1 DEF LifeInv, TypeOK, Phases
    <2> QED BY <1>0, <2>1, <2>2, StepAsideLife
  <1>6. CASE \/ Spawn /\ ~StartRefused
             \/ AdapterFork
             \/ AdapterStarted /\ ~closed /\ ~StartRefused
    <2>1. /\ pc["starter"] \in {"ready", "forked"}
          /\ \/ pc' = [pc EXCEPT !["starter"] = "handshake"] /\ lock' = "starter" /\ ~cancelled
             \/ pc' = [pc EXCEPT !["starter"] = "forked"] /\ lock' = lock
          /\ registered' \in BOOLEAN /\ leader' \in {"forked", leader}
          /\ UNCHANGED <<cgroup, child, killed, ready>>
          /\ UNCHANGED <<adapter, started, cancelled, terminateAt, late, fdsOpen,
                         stopping, closed, endReason, reserved>>
      BY <1>6 DEF Spawn, AdapterFork, AdapterStarted, StartRefused, LifeInv, TypeOK,
                  processVars, launchVars
    <2>2. /\ pc' \in [Threads -> {"off", "ready", "forked", "handshake", "returned",
                                "idle", "looping", "cleanup", "failed", "done"}]
          /\ pc'["starter"] \in {"handshake", "forked"}
          /\ \A u \in Threads : pc'[u] = "cleanup" => pc[u] = "cleanup"
      BY <1>0, <2>1 DEF LifeInv, TypeOK
    <2>3. TypeOK'
      <3>1. /\ adapter' \in BOOLEAN /\ fdsOpen' \in BOOLEAN /\ started' \in BOOLEAN
            /\ late' \in BOOLEAN /\ cancelled' \in BOOLEAN /\ stopping' \in BOOLEAN
            /\ closed' \in BOOLEAN /\ reserved' \in BOOLEAN /\ child' \in BOOLEAN
            /\ ready' \in BOOLEAN /\ endReason' \in Reasons
            /\ terminateAt' \in {"none", "future", "passed"}
            /\ cgroup' \in {"live", "removed"}
            /\ leader' \in {"none", "forked", "entered", "user", "gone"}
            /\ killed' \subseteq {"leader", "child"}
            /\ lock' \in Threads \cup {"nobody"}
        BY <1>0, <2>1 DEF LifeInv, TypeOK
      <3> QED BY <2>1, <2>2, <3>1 DEF TypeOK
    <2>4. pc'["starter"] = "handshake" => lock' = "starter" /\ ~cancelled'
      BY <1>0, <2>1 DEF LifeInv, TypeOK
    <2>5. Phases' BY <2>1, <2>2, <2>4 DEF LifeInv, Phases
    <2>6. Covered'
      <3>1. Populated' => Populated BY <2>1 DEF Populated, Members
      <3> QED BY <2>1, <3>1 DEF LifeInv, Covered
    <2> QED BY <2>3, <2>5, <2>6 DEF LifeInv
  <1>7. CASE HandshakeOK
    <2>1. /\ pc["starter"] = "handshake" /\ started' = TRUE /\ fdsOpen' = FALSE
          /\ lock' = "nobody"
          /\ pc' = EnsureReaper([pc EXCEPT !["starter"] = "returned"])
          /\ UNCHANGED <<cgroup, leader, child, killed, ready>>
          /\ UNCHANGED <<adapter, registered, cancelled, terminateAt, late,
                         stopping, closed, endReason, reserved>>
      BY <1>7 DEF HandshakeOK, processVars
    <2>2. /\ pc' \in [Threads -> {"off", "ready", "forked", "handshake", "returned",
                                "idle", "looping", "cleanup", "failed", "done"}]
          /\ pc'["starter"] = "returned"
          /\ \A u \in Threads : pc'[u] = "cleanup" => pc[u] = "cleanup"
      <3> DEFINE f == [pc EXCEPT !["starter"] = "returned"]
      <3>1. /\ f \in [Threads -> {"off", "ready", "forked", "handshake", "returned",
                                "idle", "looping", "cleanup", "failed", "done"}]
            /\ \A u \in Threads : f[u] \in {pc[u], "returned"}
            /\ f["starter"] = "returned"
        BY <1>0 DEF LifeInv, TypeOK
      <3> HIDE DEF f
      <3> QED BY <1>0, <2>1, <3>1, EnsureReaperIs DEF f
    <2>3. TypeOK'
      <3>1. /\ adapter' \in BOOLEAN /\ registered' \in BOOLEAN /\ late' \in BOOLEAN
            /\ cancelled' \in BOOLEAN /\ stopping' \in BOOLEAN /\ closed' \in BOOLEAN
            /\ reserved' \in BOOLEAN /\ child' \in BOOLEAN /\ ready' \in BOOLEAN
            /\ endReason' \in Reasons /\ terminateAt' \in {"none", "future", "passed"}
            /\ cgroup' \in {"live", "removed"}
            /\ leader' \in {"none", "forked", "entered", "user", "gone"}
            /\ killed' \subseteq {"leader", "child"}
        BY <2>1 DEF LifeInv, TypeOK
      <3> QED BY <2>1, <2>2, <3>1 DEF TypeOK
    <2>4. Phases' BY <2>1, <2>2 DEF LifeInv, Phases
    <2>5. Covered'
      <3>1. Populated' => Populated BY <2>1 DEF Populated, Members
      <3> QED BY <2>1, <3>1 DEF LifeInv, Covered
    <2> QED BY <2>3, <2>4, <2>5 DEF LifeInv
  <1> QED BY <1>1, <1>2, <1>3, <1>4, <1>5, <1>6, <1>7, Zenon DEF Starter

(* Launch._begin_stop keeps a reason and a grace consistent.                *)
LEMMA BeginStopIs ==
  ASSUME LifeInv, NEW reason \in Reasons \ {"none"}, BeginStop(reason)
  PROVE  /\ endReason' \in Reasons \ {"none"}
         /\ stopping' = TRUE
         /\ terminateAt' \in {"none", "future", "passed"}
  <1>1. \/ endReason' = endReason /\ endReason # "none"
        \/ endReason' \in {reason, "oom"}
    BY DEF BeginStop, Reason
  <1> QED BY <1>1 DEF BeginStop, LifeInv, TypeOK, Reasons

(* A call of stop() that finds the task running.                            *)
LEMMA StopLife ==
  ASSUME LifeInv, NEW s \in Threads \ {"starter"}, NEW force \in BOOLEAN,
         NEW reason \in Reasons \ {"none"}, Stop(s, force, reason)
  PROVE  LifeInv'
  <1>1. /\ pc["starter"] \notin {"ready", "handshake"}
        /\ UNCHANGED <<adapter, registered, started, cancelled, late>>
    BY DEF Stop, LifeInv, Phases, Untouched
  <1>2. CASE closed
    <2>1. /\ pc' = [pc EXCEPT ![s] = "done"]
          /\ UNCHANGED <<lock, stopping, terminateAt, endReason, fdsOpen, closed, reserved>>
          /\ UNCHANGED <<cgroup, leader, child, killed, ready>>
      BY <1>2 DEF Stop, processVars
    <2>2. /\ lock' \in Threads \cup {"nobody"} /\ cancelled' \in BOOLEAN
          /\ endReason' \in Reasons /\ stopping' \in BOOLEAN
          /\ terminateAt' \in {"none", "future", "passed"}
          /\ terminateAt' # "none" => stopping'
          /\ killed' \subseteq {"leader", "child"}
      BY <1>1, <2>1 DEF LifeInv, TypeOK, Phases
    <2> QED BY <1>1, <2>1, <2>2, StepAsideLife
  <1>3. CASE ~closed /\ force /\ ~PreservesGrace(reason)
    <2>1. BeginCleanup(s, reason, TRUE) /\ terminateAt' = terminateAt
      BY <1>3 DEF Stop
    <2>2. registered' \in BOOLEAN /\ cancelled' \in BOOLEAN
      BY <1>1 DEF LifeInv, TypeOK
    <2> QED BY <1>1, <2>1, <2>2, CleanupLife
  <1>4. CASE ~closed /\ ~(force /\ ~PreservesGrace(reason))
    <2>1. /\ BeginStop(reason)
          /\ pc' = EnsureReaper([pc EXCEPT ![s] = "looping"])
          /\ UNCHANGED <<lock, fdsOpen, closed, reserved>>
          /\ UNCHANGED <<cgroup, leader, child, killed, ready>>
      BY <1>4, Zenon DEF Stop, processVars
    <2>2. /\ lock' \in Threads \cup {"nobody"} /\ cancelled' \in BOOLEAN
          /\ killed' \subseteq {"leader", "child"}
      BY <1>1, <2>1 DEF LifeInv, TypeOK
    <2>3. /\ endReason' \in Reasons /\ endReason' # "none"
          /\ stopping' = TRUE /\ terminateAt' \in {"none", "future", "passed"}
      BY <2>1, BeginStopIs
    <2> QED BY <1>1, <2>1, <2>2, <2>3, StepAsideLife
  <1> QED BY <1>2, <1>3, <1>4

(* The shutdown asks the task to stop.                                      *)
LEMMA RequestStopLife ==
  ASSUME LifeInv, RequestStop
  PROVE  LifeInv'
  <1>0. "shutdown" \in Threads BY DEF Threads
  <1>1. /\ pc["starter"] # "handshake" /\ cancelled' = TRUE
        /\ UNCHANGED <<adapter, registered, started, terminateAt, late>>
    BY DEF RequestStop, LifeInv, Phases
  <1>2. CASE registered /\ ~closed
    <2>1. BeginCleanup("shutdown", "shutdown", TRUE) BY <1>2 DEF RequestStop
    <2>2. "shutdown" \in Reasons \ {"none"} BY DEF Reasons
    <2>3. pc["starter"] # "ready" BY <1>2 DEF LifeInv, Phases, Untouched
    <2>4. registered' \in BOOLEAN BY <1>1 DEF LifeInv, TypeOK
    <2> QED BY <1>0, <1>1, <2>1, <2>2, <2>3, <2>4, CleanupLife
  <1>3. CASE ~(registered /\ ~closed)
    <2>1. /\ endReason' \in {endReason, "shutdown"} /\ endReason' # "none"
          /\ pc' = [pc EXCEPT !["shutdown"] = "done"]
          /\ UNCHANGED <<lock, stopping, fdsOpen, closed, reserved>>
          /\ UNCHANGED <<cgroup, leader, child, killed, ready>>
      BY <1>3 DEF RequestStop, processVars
    <2>2. /\ pc' \in [Threads -> {"off", "ready", "forked", "handshake", "returned",
                                  "idle", "looping", "cleanup", "failed", "done"}]
          /\ \A u \in Threads : pc'[u] = IF u = "shutdown" THEN "done" ELSE pc[u]
      BY <2>1 DEF LifeInv, TypeOK
    <2>3. TypeOK'
      <3>1. /\ adapter' \in BOOLEAN /\ fdsOpen' \in BOOLEAN /\ registered' \in BOOLEAN
            /\ started' \in BOOLEAN /\ late' \in BOOLEAN /\ stopping' \in BOOLEAN
            /\ closed' \in BOOLEAN /\ reserved' \in BOOLEAN /\ child' \in BOOLEAN
            /\ ready' \in BOOLEAN /\ endReason' \in Reasons
            /\ terminateAt' \in {"none", "future", "passed"}
            /\ cgroup' \in {"live", "removed"} /\ lock' \in Threads \cup {"nobody"}
            /\ leader' \in {"none", "forked", "entered", "user", "gone"}
            /\ killed' \subseteq {"leader", "child"}
        BY <1>1, <2>1 DEF LifeInv, TypeOK, Reasons
      <3> QED BY <1>1, <2>2, <3>1 DEF TypeOK
    <2>4. Phases'
      <3>1. pc'["starter"] = pc["starter"] /\ pc'["reaper"] = pc["reaper"]
        BY <2>2 DEF Threads
      <3>2. Untouched => Untouched' BY <1>1, <2>1, <2>2, <3>1 DEF Untouched
      <3>3. \A u \in Threads : pc'[u] = "cleanup" => pc[u] = "cleanup" BY <2>2
      <3> QED BY <1>1, <2>1, <3>1, <3>2, <3>3 DEF LifeInv, Phases
    <2>5. Covered'
      <3>1. Populated' => Populated BY <2>1 DEF Populated, Members
      <3> QED BY <2>1, <3>1 DEF LifeInv, Covered
    <2> QED BY <2>3, <2>4, <2>5 DEF LifeInv
  <1> QED BY <1>2, <1>3

(* A poll by the reaper or by a waiting stop().                             *)
LEMMA AdvanceLife ==
  ASSUME LifeInv, NEW t \in Threads \ {"starter"}, Advance(t)
  PROVE  LifeInv'
  <1>1. /\ pc["starter"] \notin {"ready", "handshake"}
        /\ UNCHANGED <<adapter, registered, started, cancelled, late>>
    BY DEF Advance, LifeInv, Phases, Untouched
  <1>2. CASE closed
    <2>1. /\ pc' = [pc EXCEPT ![t] = "done"]
          /\ UNCHANGED <<lock, stopping, terminateAt, endReason, fdsOpen, closed, reserved>>
          /\ UNCHANGED <<cgroup, leader, child, killed, ready>>
      BY <1>2 DEF Advance, processVars
    <2>2. /\ lock' \in Threads \cup {"nobody"} /\ cancelled' \in BOOLEAN
          /\ endReason' \in Reasons /\ stopping' \in BOOLEAN
          /\ terminateAt' \in {"none", "future", "passed"}
          /\ terminateAt' # "none" => stopping'
          /\ killed' \subseteq {"leader", "child"}
      BY <1>1, <2>1 DEF LifeInv, TypeOK, Phases
    <2> QED BY <1>1, <2>1, <2>2, StepAsideLife
  <1>3. CASE \E r \in Reasons \ {"none"} :
               BeginCleanup(t, r, registered) /\ terminateAt' = terminateAt
    <2>1. registered \in BOOLEAN /\ registered' \in BOOLEAN /\ cancelled' \in BOOLEAN
      BY <1>1 DEF LifeInv, TypeOK
    <2> QED BY <1>1, <1>3, <2>1, CleanupLife
  <1>4. CASE ~closed /\ ~stopping /\ BeginStop("timed_out")
             /\ UNCHANGED <<pc, lock, fdsOpen, closed, reserved, processVars>>
    <2>1. /\ UNCHANGED <<pc, lock, fdsOpen, closed, reserved>>
          /\ UNCHANGED <<cgroup, leader, child, killed, ready>>
      BY <1>4 DEF processVars
    <2>2. pc' = [pc EXCEPT ![t] = pc[t]] BY <2>1 DEF LifeInv, TypeOK
    <2>3. pc[t] \in {"idle", "looping"} BY DEF Advance
    <2>4. /\ lock' \in Threads \cup {"nobody"} /\ cancelled' \in BOOLEAN
          /\ killed' \subseteq {"leader", "child"}
      BY <1>1, <2>1 DEF LifeInv, TypeOK
    <2>5. /\ endReason' \in Reasons /\ endReason' # "none"
          /\ stopping' = TRUE /\ terminateAt' \in {"none", "future", "passed"}
      BY <1>4, BeginStopIs DEF Reasons
    <2> QED BY <1>1, <2>1, <2>2, <2>3, <2>4, <2>5, StepAsideLife
  <1>5. /\ NotStarted \in Reasons \ {"none"}
        /\ (IF started THEN "completed" ELSE "start_failed") \in Reasons \ {"none"}
    BY DEF NotStarted, Reasons
  <1> QED BY <1>2, <1>3, <1>4, <1>5 DEF Advance

(* Every step preserves the inductive invariant.                            *)
LEMMA NextLife == LifeInv /\ [Next]_vars => LifeInv'
  <1> SUFFICES ASSUME LifeInv, [Next]_vars PROVE LifeInv' OBVIOUS
  <1>0. /\ \A s \in Stoppers : s \in Threads \ {"starter"}
        /\ {"closer", "reaper"} \subseteq Threads \ {"starter"}
    BY StopperAssumption DEF Threads
  <1>1. {"cancelled", "completed"} \subseteq Reasons \ {"none"} BY DEF Reasons
  <1>2. CASE Starter \/ Abandon BY <1>2, StarterLife
  <1>3. CASE RequestStop BY <1>3, RequestStopLife
  <1>4. CASE StopCalls BY <1>0, <1>1, <1>4, StopLife DEF StopCalls
  <1>5. CASE \E t \in Stoppers \cup {"closer", "reaper"} : Advance(t)
    BY <1>0, <1>5, AdvanceLife
  <1>6. CASE \E t \in Threads : Cleanup(t) BY <1>6, EndCleanupLife
  <1>7. CASE Processes \/ DeadlinePasses \/ GracePasses BY <1>7, ProcessesLife
  <1>8. CASE UNCHANGED vars
    <2>1. /\ UNCHANGED <<adapter, lock, pc, fdsOpen, registered, started, cancelled,
                         stopping, terminateAt, late, closed, endReason, reserved>>
          /\ UNCHANGED <<cgroup, leader, child, killed, ready>>
      BY <1>8 DEF vars
    <2>2. TypeOK' BY <2>1 DEF LifeInv, TypeOK
    <2>3. Phases' BY <2>1 DEF LifeInv, Phases, Untouched
    <2>4. Populated' => Populated BY <2>1 DEF Populated, Members
    <2>5. Covered' BY <2>1, <2>4 DEF LifeInv, Covered
    <2> QED BY <2>2, <2>3, <2>5 DEF LifeInv
  <1> QED BY <1>2, <1>3, <1>4, <1>5, <1>6, <1>7, <1>8 DEF Next

LEMMA LifeInvariant == Spec => []LifeInv
  BY InitLife, NextLife, PTL DEF Spec

(* Types: every variable keeps to the values the code can store.            *)
THEOREM TypeCorrect == Spec => []TypeOK
  BY LifeInvariant, PTL DEF LifeInv

(* A populated task cgroup is always counted by the manager, whatever the   *)
(* order in which starter, reaper, stop() calls and shutdown take the lock. *)
THEOREM TaskIsCovered == Spec => []ReservationCoversTask
  <1>1. LifeInv => ReservationCoversTask
    BY DEF LifeInv, Covered, ReservationCoversTask, TypeOK
  <1> QED BY <1>1, LifeInvariant, PTL

(* The descriptors named in argv are open until an adapter's fork, and      *)
(* closed once the start returned or the task ended.                        *)
THEOREM DescriptorsKept == Spec => []DescriptorsAreOwn
  <1>1. LifeInv => DescriptorsAreOwn
    BY DEF LifeInv, Phases, Untouched, DescriptorsAreOwn
  <1> QED BY <1>1, LifeInvariant, PTL

(* Once a stop was requested no start returns a running task: only a        *)
(* handshake makes a start return, and a handshake keeps the lock.          *)
THEOREM ShutdownNotOutrun == Spec => CancelledNeverStarts
  <1>1. ASSUME LifeInv, [Next]_vars, cancelled
        PROVE  pc'["starter"] = "returned" => pc["starter"] = "returned"
    <2>0. "starter" \in Threads BY DEF Threads
    <2> DEFINE Positions == {"off", "ready", "forked", "handshake", "returned",
                             "idle", "looping", "cleanup", "failed", "done"}
    <2>1. pc \in [Threads -> Positions] BY <1>1 DEF LifeInv, TypeOK
    <2>2. ~HandshakeOK BY <1>1 DEF HandshakeOK, LifeInv, Phases
    <2>3. \/ pc' = pc
          \/ \E u \in Threads, v \in Positions \ {"returned"} :
                \/ pc' = [pc EXCEPT ![u] = v]
                \/ pc' = EnsureReaper([pc EXCEPT ![u] = v])
      <3>1. CASE Spawn \/ AdapterFork \/ AdapterStarted \/ HandshakeFails \/ Abandon
        BY <2>0, <3>1 DEF Spawn, AdapterFork, AdapterStarted, HandshakeFails, Abandon,
                          Abort, BeginCleanup
      <3>2. CASE RequestStop
        BY <3>2 DEF RequestStop, BeginCleanup, Threads
      <3>3. CASE StopCalls
        BY <3>3 DEF StopCalls, Stop, BeginCleanup, Threads
      <3>4. CASE \E t \in Stoppers \cup {"closer", "reaper"} : Advance(t)
        BY <3>4 DEF Advance, BeginCleanup, Threads
      <3>5. CASE \E t \in Threads : Cleanup(t)
        BY <3>5 DEF Cleanup, FinishCleanup, FailCleanup, After, AfterError
      <3>6. CASE Processes \/ DeadlinePasses \/ GracePasses
        BY <3>6 DEF Processes, LauncherEnters, LauncherExecs, UserForks, LeaderExits,
                    ChildExits, DeadlinePasses, GracePasses
      <3>7. CASE UNCHANGED vars BY <3>7 DEF vars
      <3> QED BY <1>1, <2>2, <3>1, <3>2, <3>3, <3>4, <3>5, <3>6, <3>7 DEF Next, Starter
    <2>4. ASSUME NEW u \in Threads, NEW v \in Positions \ {"returned"},
                 \/ pc' = [pc EXCEPT ![u] = v]
                 \/ pc' = EnsureReaper([pc EXCEPT ![u] = v])
          PROVE  pc'["starter"] = "returned" => pc["starter"] = "returned"
      <3> DEFINE f == [pc EXCEPT ![u] = v]
      <3>1. f \in [Threads -> Positions] /\ f["starter"] \in {pc["starter"], v}
        BY <2>0, <2>1
      <3>2. pc' = f \/ pc' = EnsureReaper(f) BY <2>4
      <3> HIDE DEF f
      <3> QED BY <2>0, <2>4, <3>1, <3>2, EnsureReaperIs
    <2> QED BY <2>3, <2>4
  <1>2. LifeInv /\ [Next]_vars
          => [cancelled /\ pc["starter"] # "returned" => pc'["starter"] # "returned"]_vars
    BY <1>1
  <1> QED BY <1>2, LifeInvariant, PTL DEF Spec, CancelledNeverStarts

(* The grace period is cut short on request only: the closer's cleanup      *)
(* after the leader's exit finds it offered and waits, and the reaper and   *)
(* the waiting stop() calls let it pass.                                    *)
THEOREM GraceIsKept == Spec => GraceKept
  <1>1. ASSUME LifeInv, Next, terminateAt = "future", Populated, killed' \ killed # {}
        PROVE  lock' \in {"shutdown", "starter"} \cup Stoppers
    <2>1. ~closed /\ stopping BY <1>1 DEF LifeInv, Phases, Covered
    <2>2. CASE Starter \/ Abandon \/ RequestStop
      BY <1>1, <2>1, <2>2
      DEF Starter, Spawn, AdapterFork, AdapterStarted, HandshakeOK, HandshakeFails,
          Abandon, RequestStop, Abort, BeginCleanup, processVars
    <2>3. CASE \E s \in Stoppers, force \in BOOLEAN : Stop(s, force, "cancelled")
      BY <1>1, <2>3 DEF Stop, BeginCleanup, processVars
    <2>4. CASE Stop("closer", TRUE, "completed")
      BY <1>1, <2>1, <2>4 DEF Stop, PreservesGrace, processVars
    <2>5. CASE \E t \in Stoppers \cup {"closer", "reaper"} : Advance(t)
      BY <1>1, <2>1, <2>5 DEF Advance
    <2>6. CASE \E t \in Threads : Cleanup(t)
      BY <1>1, <2>6 DEF Cleanup, FinishCleanup, FailCleanup, processVars
    <2>7. CASE Processes \/ DeadlinePasses \/ GracePasses
      BY <1>1, <2>7
      DEF Processes, LauncherEnters, LauncherExecs, UserForks, LeaderExits,
          ChildExits, DeadlinePasses, GracePasses, processVars
    <2> QED BY <1>1, <2>2, <2>3, <2>4, <2>5, <2>6, <2>7 DEF Next, StopCalls
  <1> QED BY <1>1, LifeInvariant, PTL DEF Spec, GraceKept

(* The first reason of the end stays, and a finished task has one: every    *)
(* path to the end of a cleanup goes through Launch._reason.                *)
THEOREM ReasonStays == Spec => ReasonIsFinal
  <1>1. ASSUME LifeInv, Next, endReason # "none" PROVE endReason' = endReason
    <2>1. CASE Starter \/ Abandon \/ RequestStop
      BY <1>1, <2>1
      DEF Starter, Spawn, AdapterFork, AdapterStarted, HandshakeOK, HandshakeFails,
          Abandon, RequestStop, Abort, BeginCleanup, Reason, launchVars
    <2>2. CASE StopCalls
      BY <1>1, <2>2 DEF StopCalls, Stop, BeginStop, BeginCleanup, Reason
    <2>3. CASE \E t \in Stoppers \cup {"closer", "reaper"} : Advance(t)
      BY <1>1, <2>3 DEF Advance, BeginStop, BeginCleanup, Reason
    <2>4. CASE \E t \in Threads : Cleanup(t)
      BY <2>4 DEF Cleanup, FinishCleanup, FailCleanup, launchVars
    <2>5. CASE Processes \/ DeadlinePasses \/ GracePasses
      BY <2>5
      DEF Processes, LauncherEnters, LauncherExecs, UserForks, LeaderExits,
          ChildExits, DeadlinePasses, GracePasses, launchVars
    <2> QED BY <1>1, <2>1, <2>2, <2>3, <2>4, <2>5 DEF Next
  <1>2. LifeInv' => (closed' => endReason' # "none") BY DEF LifeInv, Phases
  <1>3. LifeInv /\ LifeInv' /\ [Next]_vars
          => [/\ endReason # "none" => endReason' = endReason
              /\ closed' => endReason' # "none"]_vars
    BY <1>1, <1>2
  <1> QED BY <1>3, LifeInvariant, PTL DEF Spec, ReasonIsFinal
=============================================================================
