------------------------------ MODULE Notebooks ------------------------------
(***************************************************************************)
(* Notebook sessions of utils/notebooks.py: kernel start-up with           *)
(* cancellation at every await, cell execution, deletion, idle cleanup.    *)
(*                                                                         *)
(* One event loop; blocking management runs in threads through async_call, *)
(* which sees a call through although its caller is cancelled, and undoes  *)
(* it.  nbclient and jupyter_client are external: they call the kernel     *)
(* manager class of the module, and always end in _async_cleanup_resources.*)
(* A session has the name of its creation.                                 *)
(***************************************************************************)
EXTENDS FiniteSets

CONSTANTS
    Creations,     \* POST /notebooks
    Cells,         \* POST /notebooks/{id}/execute
    Nothing        \* no session

ASSUME NotebooksAssumption == Nothing \notin Creations

VARIABLES
    start,         \* how far each creation is
    cancelled,     \* creations with a cancellation to come
    kernel,        \* its Launch: none, reserved, running, ended
    directories,   \* connection directories of kernels
    sessions,      \* keys of _sessions
    busy,          \* sessions with the busy flag
    unused,        \* sessions whose last_used is older than _IDLE_TIMEOUT
    listed, sweeping,   \* the idle pass: sessions to come, the one awaited
    teardown,      \* _cleanup_session_resources of each session
    incomplete,    \* kernels whose stop raised: the reaper has them
    cell, on,      \* each execution and its session
    late           \* history: sessions used after the pass had listed them

creating == <<start, cancelled>>
resources == <<kernel, directories, incomplete>>
table == <<sessions, busy, unused>>
pass == <<listed, sweeping>>
executions == <<cell, on>>
vars == <<creating, resources, table, pass, teardown, executions, late>>

TypeOK ==
    /\ start \in [Creations -> {"idle", "reading", "admission", "withdrawing",
                                "launching", "undoing", "connecting",
                                "failing", "removing", "failed", "registered"}]
    /\ cancelled \subseteq Creations
    /\ kernel \in [Creations -> {"none", "reserved", "running", "ended"}]
    /\ directories \subseteq Creations /\ incomplete \subseteq Creations
    /\ sessions \subseteq Creations /\ busy \subseteq Creations /\ unused \subseteq Creations
    /\ listed \subseteq Creations /\ sweeping \in Creations \cup {Nothing}
    /\ teardown \in [Creations -> {"none", "stopping", "removing", "done"}]
    /\ cell \in [Cells -> {"idle", "running", "saving", "destroying", "done"}]
    /\ on \in [Cells -> Creations \cup {Nothing}]
    /\ late \subseteq Creations

Init ==
    /\ start = [c \in Creations |-> "idle"] /\ cancelled = {}
    /\ kernel = [c \in Creations |-> "none"]
    /\ directories = {} /\ incomplete = {}
    /\ sessions = {} /\ busy = {} /\ unused = {}
    /\ listed = {} /\ sweeping = Nothing
    /\ teardown = [c \in Creations |-> "none"]
    /\ cell = [e \in Cells |-> "idle"] /\ on = [e \in Cells |-> Nothing]
    /\ late = {}

-----------------------------------------------------------------------------
(* Creation.                                                                *)

Go(c, phase) == start' = [start EXCEPT ![c] = phase]
Kernel(c, state) == kernel' = [kernel EXCEPT ![c] = state]

(* Launch.abort, or stop of the process: done, or it raises because         *)
(* cleanup_timeout passed, and the reaper goes on.                          *)
Stopped(c) ==
    \/ /\ kernel' = [kernel EXCEPT ![c] = IF @ = "none" THEN @ ELSE "ended"]
       /\ UNCHANGED incomplete
    \/ /\ kernel[c] \in {"reserved", "running"}
       /\ incomplete' = incomplete \cup {c}
       /\ UNCHANGED kernel

Begin(c) ==
    /\ start[c] = "idle"
    /\ Go(c, "reading")
    /\ UNCHANGED <<cancelled, resources, table, pass, teardown, executions, late>>

(* The request is cancelled; it notices where it awaits.                    *)
Cancel(c) ==
    /\ start[c] \in {"reading", "admission", "launching", "connecting"}
    /\ c \notin cancelled
    /\ cancelled' = cancelled \cup {c}
    /\ UNCHANGED <<start, resources, table, pass, teardown, executions, late>>

(* _read_notebook, then the client with its directory.                      *)
ReadNotebook(c) ==
    /\ start[c] = "reading"
    /\ \/ Go(c, "failed") /\ UNCHANGED directories
       \/ /\ c \notin cancelled
          /\ directories' = directories \cup {c}
          /\ Go(c, "admission")
    /\ UNCHANGED <<cancelled, kernel, incomplete, table, pass, teardown, executions, late>>

(* The worker grants the ticket, whether or not somebody still waits.       *)
Grant(c) ==
    /\ start[c] \in {"admission", "withdrawing"} /\ kernel[c] = "none"
    /\ Kernel(c, "reserved")
    /\ UNCHANGED <<creating, directories, incomplete, table, pass, teardown, executions, late>>

(* _async_pre_start_kernel gets the Launch of prepare_async, or a refusal;  *)
(* or the caller is cancelled or disconnected, granted or not.              *)
Admit(c) ==
    /\ start[c] = "admission"
    /\ \/ c \notin cancelled /\ kernel[c] = "reserved" /\ Go(c, "launching")
       \/ kernel[c] = "none" /\ Go(c, "failing")
       \/ Go(c, "withdrawing")
    /\ UNCHANGED <<cancelled, resources, table, pass, teardown, executions, late>>

(* cancel_ticket aborts what was granted meanwhile.                         *)
Withdraw(c) ==
    /\ start[c] = "withdrawing"
    /\ Stopped(c)
    /\ Go(c, "failing")
    /\ UNCHANGED <<cancelled, directories, table, pass, teardown, executions, late>>

(* _async_launch_kernel: the fork, and started in a thread; what fails is   *)
(* aborted.                                                                 *)
Launch(c) ==
    /\ start[c] = "launching"
    /\ \/ /\ Kernel(c, "running")
          /\ Go(c, IF c \in cancelled THEN "undoing" ELSE "connecting")
          /\ UNCHANGED incomplete
       \/ Stopped(c) /\ Go(c, "failing")
    /\ UNCHANGED <<cancelled, directories, table, pass, teardown, executions, late>>

(* Slip: a cancelled caller forgets the call.                               *)
SlipUndone(c) == UNCHANGED <<kernel, incomplete>> /\ Go(c, "failed")

Undone(c) == Stopped(c) /\ Go(c, "failing")

(* async_call with cleanup=abort.                                           *)
Undo(c) ==
    /\ start[c] = "undoing"
    /\ Undone(c)
    /\ UNCHANGED <<cancelled, directories, table, pass, teardown, executions, late>>

(* async_start_new_kernel_client, then the session without an await.        *)
Connect(c) ==
    /\ start[c] = "connecting"
    /\ \/ /\ c \notin cancelled /\ kernel[c] = "running"
          /\ sessions' = sessions \cup {c}
          /\ Go(c, "registered")
       \/ Go(c, "failing") /\ UNCHANGED sessions
    /\ UNCHANGED <<cancelled, resources, busy, unused, pass, teardown, executions, late>>

(* The kernel dies, reaches the end of its runtime, or the reaper ends it.  *)
Expire(c) ==
    /\ kernel[c] = "running" \/ c \in incomplete
    /\ Kernel(c, "ended")
    /\ UNCHANGED <<creating, directories, incomplete, table, pass, teardown, executions, late>>

(* The except clause of create_once: _async_cleanup_resources...            *)
StopFailed(c) ==
    /\ start[c] = "failing"
    /\ Stopped(c)
    /\ Go(c, "removing")
    /\ UNCHANGED <<cancelled, directories, table, pass, teardown, executions, late>>

(* ... and in any case the directory.                                       *)
RemoveFailed(c) ==
    /\ start[c] = "removing"
    /\ directories' = directories \ {c}
    /\ Go(c, "failed")
    /\ UNCHANGED <<cancelled, kernel, incomplete, table, pass, teardown, executions, late>>

-----------------------------------------------------------------------------
(* Destruction.                                                             *)

(* _destroy_session: only who pops the session starts its teardown.         *)
Destroy(c) ==
    /\ sessions' = sessions \ {c}
    /\ teardown' = IF c \in sessions THEN [teardown EXCEPT ![c] = "stopping"] ELSE teardown

Delete(c) ==
    /\ c \in sessions
    /\ Destroy(c)
    /\ UNCHANGED <<creating, resources, busy, unused, pass, executions, late>>

StopKernel(c) ==
    /\ teardown[c] = "stopping"
    /\ Stopped(c)
    /\ teardown' = [teardown EXCEPT ![c] = "removing"]
    /\ UNCHANGED <<creating, directories, table, pass, executions, late>>

RemoveDirectory(c) ==
    /\ teardown[c] = "removing"
    /\ directories' = directories \ {c}
    /\ teardown' = [teardown EXCEPT ![c] = "done"]
    /\ UNCHANGED <<creating, kernel, incomplete, table, pass, executions, late>>

(* Half an hour passes.                                                     *)
Age(c) ==
    /\ c \in sessions \ unused
    /\ unused' = unused \cup {c}
    /\ UNCHANGED <<creating, resources, sessions, busy, pass, teardown, executions, late>>

(* Slip: a session that executes is not spared.                             *)
SlipIdle(c) == c \in unused

Idle(c) == c \in unused /\ c \notin busy

(* _idle_cleanup_loop lists the idle sessions once a minute...              *)
ListIdle ==
    /\ listed = {} /\ sweeping = Nothing
    /\ \E c \in sessions : Idle(c)
    /\ listed' = {c \in sessions : Idle(c)}
    /\ late' = {}
    /\ UNCHANGED <<creating, resources, table, sweeping, teardown, executions>>

(* ... and destroys one after the other, without another look.              *)
DestroyIdle ==
    /\ sweeping = Nothing
    /\ \E c \in listed :
         /\ Destroy(c)
         /\ listed' = listed \ {c}
         /\ sweeping' = IF c \in sessions THEN c ELSE Nothing
    /\ UNCHANGED <<creating, resources, busy, unused, executions, late>>

Destroyed ==
    /\ sweeping # Nothing /\ teardown[sweeping] = "done"
    /\ sweeping' = Nothing
    /\ UNCHANGED <<creating, resources, table, listed, teardown, executions, late>>

-----------------------------------------------------------------------------
(* Execution.                                                               *)

At(e, phase) == cell' = [cell EXCEPT ![e] = phase]

(* A kernel that ended, or a session that is busy: 409.                     *)
Execute(e) ==
    /\ cell[e] = "idle"
    /\ \E c \in sessions :
         IF kernel[c] = "running" /\ c \notin busy
           THEN /\ busy' = busy \cup {c} /\ unused' = unused \ {c}
                /\ on' = [on EXCEPT ![e] = c] /\ At(e, "running")
                /\ late' = IF c \in listed THEN late \cup {c} ELSE late
           ELSE At(e, "done") /\ UNCHANGED <<busy, unused, on, late>>
    /\ UNCHANGED <<creating, resources, sessions, pass, teardown>>

(* The finally clause.                                                      *)
Finish(e) ==
    /\ busy' = busy \ {on[e]} /\ unused' = unused \ {on[e]}
    /\ At(e, "done")

(* async_execute_cell: done, or an error that is the answer.                *)
Run(e) ==
    /\ cell[e] = "running"
    /\ \/ kernel[on[e]] = "running" /\ At(e, "saving") /\ UNCHANGED <<busy, unused>>
       \/ Finish(e)
    /\ UNCHANGED <<creating, resources, sessions, pass, teardown, on, late>>

(* _write_notebook, also when the session is gone meanwhile.                *)
Save(e) ==
    /\ cell[e] = "saving"
    /\ Finish(e)
    /\ UNCHANGED <<creating, resources, sessions, pass, teardown, on, late>>

CancelCell(e) ==
    /\ cell[e] \in {"running", "saving"}
    /\ Destroy(on[e])
    /\ At(e, "destroying")
    /\ UNCHANGED <<creating, resources, busy, unused, pass, on, late>>

(* The teardown is shielded; the request awaits its own only.               *)
CellDestroyed(e) ==
    /\ cell[e] = "destroying"
    /\ Finish(e)
    /\ UNCHANGED <<creating, resources, sessions, pass, teardown, on, late>>

Next ==
    \/ \E c \in Creations :
         \/ Begin(c) \/ Cancel(c) \/ ReadNotebook(c) \/ Grant(c) \/ Admit(c) \/ Withdraw(c)
         \/ Launch(c) \/ Undo(c) \/ Connect(c) \/ Expire(c) \/ StopFailed(c) \/ RemoveFailed(c)
         \/ Delete(c) \/ StopKernel(c) \/ RemoveDirectory(c) \/ Age(c)
    \/ ListIdle \/ DestroyIdle \/ Destroyed
    \/ \E e \in Cells : Execute(e) \/ Run(e) \/ Save(e) \/ CancelCell(e) \/ CellDestroyed(e)

Spec == Init /\ [][Next]_vars

-----------------------------------------------------------------------------
(* Properties.                                                              *)

Starting(c) ==
    start[c] \in {"admission", "withdrawing", "launching", "undoing", "connecting",
                  "failing", "removing"}

(* Nothing of a kernel is forgotten, at whichever await its creation was    *)
(* cancelled: a reservation or process, and a directory, belong to a        *)
(* creation under way, to a listed session or to a teardown, and nothing is *)
(* torn down below a listed session.  Only a stop that raised leaves the    *)
(* process to the reaper.                                                   *)
KernelOwned ==
    \A c \in Creations :
        /\ kernel[c] \in {"reserved", "running"} =>
             \/ Starting(c) \/ c \in sessions \/ teardown[c] = "stopping"
             \/ c \in incomplete
        /\ c \in directories =>
             Starting(c) \/ c \in sessions \/ teardown[c] \in {"stopping", "removing"}
        /\ c \in sessions => c \in directories /\ teardown[c] = "none"

(* A session is busy exactly while one cell runs on it, and idle cleanup    *)
(* spares it; only one that was used after the pass had listed it, while    *)
(* the pass awaited another one's teardown, loses its kernel mid-cell.      *)
IdleSparesBusy ==
    [][\A c \in sessions \ sessions' :
         sweeping' = c /\ sweeping # c /\ c \in busy => c \in late]_vars
=============================================================================
