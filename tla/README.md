# Open Terminal: a TLA+ model

TLA+ specifications, TLC configurations and TLAPS proofs for the concurrent core
of Open Terminal: the HTTP service that runs commands, terminals and notebook
kernels for several users on one machine (`src/open_terminal`).

Run a configuration with `tlc -config X.cfg M`, prove a module with
`tlapm MProofs.tla`. `PROJECT.json` lists the runs, the mutants that show that each
property can fail, the source lines of each definition, the hazards and the theorems.

## 1. Inventory

Paths are relative to `src/open_terminal`. The service is one process: an asyncio
event loop for requests, a small executor for blocking management calls, the
admission thread, one reaper thread per task, worker threads of `to_thread`, and
child processes in cgroups.

| Component | State it keeps | Operations | What is hard, and what makes it correct |
|---|---|---|---|
| **Compute admission** `execution/manager.py` (Manager), `execution/admission.py`, `execution/policy.py` | `_tasks`, `_owners`, `_uid_owners`; the ring of owners, their FIFO queues, `count`, `last_owner`; the admission thread | `submit`, `prepare`, `cancel_ticket`, `_release`, `shutdown`, `_dispatch` | Budgets in three dimensions; five representations of one queue; wake-ups through a condition with a timeout; fairness between users. *Budgets hold, no overtaking, no starvation, every wait ends.* |
| **Task lifetime** `Launch` in `execution/manager.py`, `execution/launcher.py`, `execution/cgroups.py` | descriptors, process, `_stopping`, `_cancel_requested`, `_closed`, deadlines, `end_reason`; the cgroup and its processes | `started`, `stop`, `request_stop`, `abort`, `_advance`, `_cleanup` | Start, DELETE, deadline, natural exit and shutdown race; processes that ignore SIGTERM; cleanups that time out; an adapter that forks outside the lock. *The reservation outlives the processes, starts never outrun shutdown, each task ends once.* |
| **Helper pool** `utils/service_processes.py` | `_active`, `_waiting`, tickets, helper processes | `_request`, `_release`, `run_helper`, `open_helper`, `_reap` | Threads and tasks in one pool; timeouts against grants; cancellation between fork and PID. *Slots are conserved and cover the helper's life.* |
| **Idempotent creation** `utils/idempotency.py`, users in `main.py` and `utils/notebooks.py` | `entries`, `owner_counts`, each `Entry`'s waiters, driver task and outcome | `run`, `_drive`, `_driver_done`, `_settle`, `_purge` | Retries that join, leave and are cancelled; cancellation through the loop; the TTL against living resources. *No duplicate, every waiter answered, keys released.* |
| **Callers of the manager** `prepare_async`, `spawn_async`, `async_call` | a ticket or Launch in flight | await, cancel, disconnect | Ownership of a result across cancellation. *Every grant has exactly one owner that runs or aborts it.* |
| **Process registry and logs** `main.py`, `utils/log.py`, `utils/runner.py` | `_processes`, status, log file, offsets | execute, status, input, kill, expiry, rotation | Status changed before awaits; rotation under readers; two closers of one descriptor number. *Offsets keep their meaning, what is forgotten is dead, a running command keeps its PTY.* |
| **Terminal sessions** `main.py` | `_terminal_sessions`, connected flag, input lock, master descriptor | create, attach, write, delete, prune | Limit checked before an await; sessions and descriptors used after awaits; cleanups asked for by five callers. *No master or shell is lost or closed twice, one connection, the limit but for overlaps, the session ends with its connection.* |
| **Notebook sessions** `utils/notebooks.py` | `_sessions`, busy flag, last use, kernel | create, execute cell, destroy, idle cleanup | Cancellation at every await of a creation; idle cleanup against executions. *No kernel, reservation or directory without an owner; a busy kernel is not collected.* |
| **Identity and provisioning** `utils/identity_store.py`, `utils/user_isolation.py`, `utils/identity_paths.py` | the registry file, its lock, the OS accounts, home ownership | `allocate`, `mark`, `ensure_os_user`, repair | Crashes between durable steps, several service processes, new container images, homes older than the registry. *Identities are never shared and never change; a returned user's account and home are theirs; provisioning converges, but for a home that cannot be repaired.* |
| **Personal files** `file_operations.py`, `workspace.py`, `UserFS` of `utils/fs.py` | the user's files, the trash wrappers | mkdir, move, upload, save, trash, restore, list | Concurrent helper processes, kills between system calls, rollbacks that fail, a second API that takes no lock. *No lost file, the trash is restorable.* |
| cgroup tree initialisation, policy and configuration, container bootstrap | read or made once at start | | sequential, fail-closed |
| File system API, search, documents, comparison, notebook files, skills, ports, MCP | none of their own | | single requests over files and kernel tables |

**How they interact.** `execute`, `api/terminals` and `notebooks` go through the
idempotency registry (if the request has a key), whose driver awaits a factory; the
factory calls `spawn_async`, which submits a ticket to admission, gets a `Launch`
through the ticket's future and starts the process on the management executor.
The `Launch` releases its reservation through `Manager._release`, which notifies the
admission thread. `Manager.shutdown` first closes the queue and then asks each
`Launch` to stop. The registry asks back whether a resource is active and exists
(`process_active`, `terminal_active`). File helpers take slots of the helper pool and
are launched by the same trusted launcher into a shared cgroup. Before either, the user's
identity is resolved by `ensure_os_user`, in a thread. Terminals and commands share the
kernel's table of descriptor numbers, in which a closed number is soon another PTY.

Lock order in the code is `Launch._cleanup_lock` before `Manager._lock`; the registry
and the helper pool have locks of their own and call nothing that takes another one.

## 2. Modules

| Module | Models | Runs |
|---|---|---|
| `ComputeBudget` | what the manager promises of reservations, without queue or threads | refined by `Admission` |
| `Admission`, `MCAdmission` | Manager's ledger, FairQueue and its thread | `admission` |
| `TaskLifetime` | one `Launch`, its threads, launcher, processes and cgroup | `task_lifetime` |
| `HelperPool` | the pool, its callers and their helpers | `helper_pool` |
| `KeyedCreation` | what an Idempotency-Key promises, without driver tasks, limits, time or errors | refined by `Idempotency` |
| `Idempotency`, `MCIdempotency` | the registry, its callers, drivers and resources | `idempotency`, `refusal_retained`, `cleaning_not_pinned` |
| `Notebooks` | notebook sessions with their use of `prepare_async` and `async_call` | `notebooks` |
| `Terminals` | terminal sessions, WebSockets, inputs and descriptor numbers | `terminals` |
| `Processes`, `MCProcesses` | the process registry, runners, logs and a polling client | `processes`, `forced_kill` |
| `Provisioning`, `MCProvisioning` | the identity registry, accounts, groups and homes | `provisioning` |
| `PersonalFiles`, `MCPersonalFiles` | the helpers that change a user's home and its trash | `personal_files` |
| `AdmissionProofs`, `TaskLifetimeProofs`, `HelperPoolProofs`, `IdempotencyProofs`, `TerminalsProofs`, `ProcessesProofs`, `PersonalFilesProofs` | theorems of the module each is named after | |
| `UserServicesProofs` | theorems of `Notebooks` and of `Provisioning` | |

`Notebooks` and `Provisioning` have no variable in common; the latter names its specification
`IdentitySpec` (with `IdentityInit`, `IdentityNext`, `IdentityTypeOK`, `identityVars`), so that
one module can hold the theorems of both.

The modules are separate systems, composed where one relies on another by what the other
is shown to provide: `Admission` assumes that a granted task ends, which `TaskEnds` of
`TaskLifetime` shows; `Notebooks` and `Terminals` contain the caller's side of admission
(a ticket granted to a caller that is gone) and take a Launch as a unit; the factories that
`Idempotency` reduces to their outcomes are those of `Processes` and `Terminals`.

The operators named `Slip...` are mutated forms of the definition that follows them:
plausible mistakes, used by no specification. Each property of each run is violated
when one of them replaces its original.

### Admission

Requests are identities that may be used again once settled; `OwnerOf` and `UidOf`
stand for the hashed `X-User-Id` and the account its username resolves to, so two
owners may share an account.

*Atomicity.* Every handler runs under `Manager._lock` from its first test to its last
assignment, so a handler is one action: `Submit` (its four outcomes `SubmitRefused`,
`SubmitGranted`, `SubmitFull`, `SubmitQueued`), `PrepareDirect`, `Cancel`, `Release`,
`Shutdown`. The admission thread holds the lock for a whole `_dispatch`. Time can pass
during it, and a ticket may time out between its two loops, so the pass is a sequence
of steps (`DropExpired`, `DropDone`, `Serve`, `Sleep`) during which `LockFree` is false
and no handler runs. `Sleep` is the release of the lock in `condition.wait`.

*Faults.* `Prepare(r, f)` covers the three ways `Manager.prepare` fails after its
checks: the cgroup cannot be created, the Launch cannot be built and the cgroup is
removed again, or the cgroup cannot be verified empty and the reservation stays
(`tasks[id] = None`; nothing returns it before a restart).

*Abstractions.* `argv`, `cwd`, `env` and their size limits are left out. An owner
without tasks, or without tickets, is mapped to an empty set or sequence where the
code deletes the key. A granted ticket's future and the Launch it holds are one state;
who consumes it is the callers' matter: `Release(r)` stands for the end of any of them.
The scan of `_dispatch` is one step to the first eligible owner.

*Properties.* `BudgetHeld`, `QueueConsistent`, `NoLostWakeup`, `GrantRespectsQueue`,
`NewUserFirst`, `TurnsKept`, `ImplementsBudget`, and the liveness properties
`NoStarvation` and `WaitsAreBounded`.

### TaskLifetime

One `Launch` whose constructor has succeeded. `lock` is `Launch._cleanup_lock`;
threads wait in it in two places, for the launcher's handshake and for the cgroup to
become empty, so those are separate steps during which the holder keeps the lock and
only processes and time move. Everything else under the lock is one action.

`adapter` chooses between `spawn_prepared`, which checks and forks under the lock, and
the Jupyter adapter, whose `Popen` runs without it and which then calls `started`.
`Abandon` is every call of `abort` by the side that starts the task: after a failed
`Popen`, from `except` clauses (again), or because its caller was cancelled.
`StopCalls` are the graceful and forced stop of DELETE, and the forced
`stop(reason="completed")` of `runner.close()`, the session cleanup and the adapter.
`Advance` is one poll of the reaper, and of a `stop` that loops.

The descendants in the cgroup are one lumped `child`. The launcher enters the cgroup
before anything else and can do so only while the directory exists. A process in
`killed` runs no more code but disappears only later: this is where cleanups time out.
`FailCleanup` may happen whenever the cgroup is still populated, since nothing relates
`cleanup_timeout` to the kernel's speed. `late` and `terminateAt` are the two clocks.

*Properties.* `ReservationCoversTask`, `DescriptorsAreOwn`, `CancelledNeverStarts`,
`GraceKept`, `ReasonIsFinal`, `TaskEnds`.

### HelperPool

Each client is one call of `run_helper` (a thread) or `open_helper` (a task of the
event loop), in the phases out, waiting, holding, starting, using, reaping, leaving,
done. A thread that times out has looked at its future under the future's own lock; a
task may be timed out or cancelled with a grant on its way through the loop, so
`GiveUp` differs. Cancelling a task while its spawn is pending leads to `reaping` with
the PID still unknown. A wait timeout of zero is the same as `MaxWaiting = 0`.

*Properties.* `SlotsCounted`, `HelperOwnsSlot`, `SlotReturned`.

### Idempotency

Everything runs on the event loop, so a step is the code between two awaits. A key is
the full scope (user, session, endpoint, key); `count` numbers its successive entries,
as a caller that settles its creation may outlive the entry it belongs to.
`cancel` distinguishes the callback handed to the loop (`scheduled`) from the task
that is being cancelled (`requested`): waiters can join in between. `CancelDriver`
also covers a loop that cancels its tasks at shutdown.

The factory is reduced to: it may make a process (`Make`), return it (`Return`),
return a refusal as a value (`Refuse`, terminals only), or clean up and fail
(`Unwind`, `Unwound`), with the cleanup confirmed or not. Resources finish, and
terminals are deleted, at any time.

`KeyedCreation` is what the registry is for: of each key there is nothing, a creation under way
or a settled one; a request begins a creation or attaches to the one there is; a key is
forgotten, in whichever call happens to purge, only when nobody is attached and nothing it made
lives. `ImplementsKeyed` maps `kept` and `outcome` to the state of a key, `count` to the number
of its creation, `caller` and `joined` to who is attached, and the resources that live and were
not deleted to `live`. That retries never duplicate a resource (`NoDuplicate`, a theorem) is the
guard of `Produce`.

*Properties.* `ImplementsKeyed`, `RecordsCounted`, `AbandonedIsCancelled`, `KeyReleased`,
`EveryCallerAnswered`; and, checked to fail, `FailuresRelease` and
`PinnedWhileCleaning`, which state sentences of the repository's README.

### Notebooks

The creation of a session goes through the phases of `create_once`: the notebook is read,
the kernel manager's `_async_pre_start_kernel` waits in `prepare_async`, the kernel is
forked and reported with `async_call`, the client connects, the session is registered. A
cancellation is pending (`cancelled`) until the creation next awaits; `prepare_async` then
withdraws its ticket, which the admission thread may have granted (`Grant`) before or
during the withdrawal, and `async_call` sees its thread through and undoes it (`Undo`).
`Stopped` is every stop of a kernel: it ends, or the stop raises and leaves the process to
the reaper (`incomplete`). `Destroy` pops the session; only who popped it tears it down.
The idle pass lists once (`ListIdle`) and then destroys one after the other
(`DestroyIdle`), awaiting each teardown.

nbclient and jupyter_client are external; that they always end in
`_async_cleanup_resources` is how the module uses them.

*Properties.* `KernelOwned`, `IdleSparesBusy`.

### Terminals

A session has the name of its creation. `Prune`, `Open`, `Spawn`, `Register` are the parts
of the handler between its awaits: the count of the sessions and the insertion of the new
one lie in different parts, so `overlapped` remembers the creations that were counted
beside others. `cleaning` holds the calls of `_cleanup_session` that were handed to a
thread; `Pop`, `CloseMaster` and `StopShell` are the thread of the one call that found the
session. A WebSocket looks its session up (`Connect`), awaits the authentication, and then
attaches to the session object it remembers (`Attach`), listed or not; its `finally` clause
asks for the cleanup (`Leave`). Inputs of the HTTP endpoint and frames of the WebSocket
take the session's `input_lock`.

`table` is the kernel's: which PTY a number stands for. `Open` may be given any free
number, so a number kept too long is soon somebody else's.

*Properties.* `MastersOwned`, `OneConnection`, `LimitByOverlap`, `ConnectionEndsSession`.

### Processes

`Execute` is the factory of POST /execute, one step since it registers the record and its
log task without an await after the spawn. `task` follows `log_process`: open the log,
read, rotate when the bound would be passed, write, wait for the exit, close the runner,
write the end record. `del` follows `kill_process`: the status is set and the signal sent,
then come the wait and the close. `managed` chooses between the cgroup's stop and the
legacy signals, of which SIGTERM may be ignored. `Expire` is `_cleanup_expired`.

Log sizes are counted in lines, so `Capacity` stands for `MAX_PROCESS_LOG_SIZE` and one
line for the most that is written between two tests of it. `Spill` is a line longer than the
file's buffer. `poll` is a client that asks for the status of the watched command with the
offset of its last answer, `read_log` line by line, and keeps a file that a rotation replaced.

*Properties.* `CursorExact`, `ForgottenDead`, `MastersKept`; and, checked to fail,
`ForceKills`, which states what the endpoint's description says of `force`.

### Provisioning

One operation at a time runs under the lock file and the thread lock (`lock`), so its parts
matter because they fail or crash between each other: `Look` chooses the name and identifiers
(the predicates `Free`, `Adopts`, `Selected` and `Candidate`), `Allocate` makes the record
durable, `EnsureAccount`, `EnsureGroup` and `AddAccount` make the account, `Check` decides
whether the home is walked or repaired, `Repair` does it, `Members` and `MarkReady` end with the
state `ready`. UIDs and GIDs are small numbers and are allocated together, as the code does. A
home is its owners, its mode, whether everything below agrees (`deep`) and who owns the regular
files in it that have further hard links (`linked`, by UID); its fingerprint in
`_VERIFIED_HOMES` changes with every change of its inode.

`Entry.chown` refuses a hard-linked regular file. So `Repair` ends well only if all of these
already are the user's (`Repairable`); otherwise it changes the owner of what it meets first,
raises, and does the same on every retry. A fault can also stop it, before the first change or
half-way.

`Crash` ends one service process, possibly in the middle of writing into a home as root;
`Recreate` ends all and gives the accounts and groups of an image. The registry and the
homes persist. Crashed and failed requests are asked again.

*Properties.* `Separate`, `BindingStable`, `ReturnedReady`, `RefusedByImage`, `Converges`.

### PersonalFiles

Each request is one helper process, and each action one of its system calls (or a few of
which only one changes anything), so that others run in between and `Kill` can end it
there. `files` maps names to inodes, `wrapper` and `data` are a trash wrapper's metadata
and content. `root` is the trash directory: absent, with its marker, or without, and then it is
the helper that made it. When the marker cannot be written, `MarkRoot` rolls back, and the code
passes over an error of that `rmdir`: the directory may be gone, stay without its marker, or,
when the marker could not be unlinked either, stay with it. Flocks are `locks` and
`homeLock`; they end with their process. A helper creates at most one inode and one
wrapper, which carry its name. `Truncate` and `Fill` are one call of the other file API,
`UserFS.write`, which takes no lock; its other calls are not modelled (section 6).

Paths are entries of one directory: the helpers open each path component without following
links, which needs no interleaving, and then work on one entry of an open directory.
`meddled` is a history variable: another helper changed the entry, or the inode, that this
one has looked at and not used yet.

*Properties.* `NothingLost`, `TrashRestorable`, `RootNeverHalfMade`.

## 3. Runs and bounds

| Run | Instance | Why it is enough |
|---|---|---|
| `admission` | 5 requests of owners A (2), B (2), C (1); B's second request resolves to A's account; 3 tasks, 2 per user; queue of 3, 2 per user; two users fit the budget in cpu and three in pids; all faults | Each limit can be the one that refuses (tasks, tasks of a user, budget, queue, user's queue); the ring gets three owners, so order matters; renewals and new users compete |
| `task_lifetime` | two requesting stoppers, the closer, reaper, shutdown, starter, with and without adapter | two stoppers suffice for one to loop while the other forces; all other threads exist once in the code |
| `helper_pool` | 2 tasks, 2 threads, 1 slot, 2 waiting places | both kinds can hold, wait, be refused and be handed the slot by either kind |
| `idempotency` | 3 requests of a terminal key and one of a command key of the same owner; 2 records, 1 per user; 2 waiters; each key created at most twice (519,938 states) | the owner's limit, the waiters' limit, joins during a cancellation and a second creation all happen; more creations of a key repeat the second. A request with other parameters is answered 409 at once and changes nothing, so there is none |
| `notebooks` | 2 creations, 2 cells (474,368 states) | a pass that awaits one session while the other is used; two cells for one session |
| `terminals` | 2 creations, limit 1, 2 WebSockets, 1 input, 2 numbers (895,788 states) | the limit is met and overlapped; two connections to one session; a number of the first session is given to the second |
| `processes` | a command with up to 5 lines and a silent one, 2 DELETEs, 1 number, capacity 2 lines (1,859,404 states) | two rotations under one reader; two DELETEs of one command, and of two that had the same number |
| `provisioning` | 2 users with the same base name and a common second suffix, one of them with two requests; 2 service processes; 4 images; no old home, or one of another owner under each of two names, one of them with a hard-linked file of that owner; 2 faults (726,614 states) | every collision of names and identifiers; a crash during the recovery from another fault; a user whose home cannot be repaired beside others who need the lock |
| `personal_files` | 3 helpers with any of ten requests each, 2 names (115,423 states after symmetry) | a third helper can act in the window between two others, as each violation needs at most |

Four bounds are not in the code: `MaxCreations` of `Idempotency`; `MaxFaults` and `MaxUid`
of `Provisioning`, the latter large enough never to be the reason of a refusal;
and the constraint `LongLogAlone` of `processes`: a log that has output is explored with one
command and one DELETE, two of each with an empty log, since the log and the descriptor
meet nowhere but in the task that owns both.
`personal_files` uses the symmetry of its helpers (its properties are safety properties);
no run with a liveness property uses symmetry.

The deadlock check is on for Admission; the other systems may stop: a task that ended, calls
that have all returned, requests that are all answered.

Type invariants are stated in every module. The runs do not list them: the proofs use
them, or the parts they need.

### Fairness

* `Admission`: weak fairness of the thread's own steps (the OS schedules it and a pass
  is finite) and of the return of `condition.wait` at its timeout. The antecedents of
  the two liveness properties are explicit: `TasksEnd` (granted tasks release; strong
  fairness as `_release` competes for the lock with a thread that takes it again and
  again) is what `TaskEnds` of TaskLifetime provides; `TimePasses` is the clock.
* `TaskLifetime`: strong fairness for the starter and the reaper, which need a lock that
  others take but always give back; weak fairness for a cleanup's next poll, for the kernel
  carrying out a SIGKILL, and for the two clocks. User processes are not assumed to end,
  nor stoppers to call.
* `HelperPool`: steps of the spawn and of the way out, and the exit of a killed process.
  Nothing is assumed of the callers' own work.
* `Idempotency`: the loop runs ready tasks. That a factory ends is justified by its
  parts: the queue wait, the handshake and the cleanup all have timeouts.
* `Terminals`: weak fairness for the threads that run `_cleanup_session` and for the `finally`
  clause of a WebSocket. Clients, shells and creations are not assumed to do anything.
* `Provisioning`: strong fairness for each request's next step, which includes that a caller
  whose call failed calls again. It is strong for the operation lock alone: a caller whose home
  cannot be repaired takes it again and again, and whoever waits gets it in between, since the
  release of the thread lock and of the flock wakes a waiter while that caller's next call is a
  request away. Faults are bounded by `MaxFaults`. `Converges` is that nothing a fault left
  behind makes the next call fail.

`Processes`, `Notebooks` and `PersonalFiles` are checked for safety only: whether a command,
a kernel or a helper ends is the subject of `TaskLifetime` and `HelperPool`.

## 4. Findings

* `refusal_retained`: "Creation failures, including queue `429`, release their key"
  (README.md:228). A terminal refused for the session limit or for lack of PTYs is returned as
  a response and recorded as a success, so its key is kept for the TTL and retries replay it.
* `cleaning_not_pinned`: "pending/running/cleaning resources remain pinned"
  (README.md:228). `_cleanup_session` drops the session before stopping its shell, and the
  record's pin goes with it.
* `forced_kill`: "Use force=true to send SIGKILL" (main.py:1945). A DELETE that finds another
  one waiting sends nothing: it sees the status `killed`, stamps `finished_at` and answers
  `killed` while the command, which ignores the first one's SIGTERM, runs on. Four steps.

Some properties are true only with an exception, which they name, and which describes what the
code does:

* `LimitByOverlap`: creations that are counted while others spawn pass the session limit.
* `ForgottenDead`: after the second DELETE above the record expires and the command is out of
  everybody's reach.
* `MastersKept`: after the log task has closed a runner's number, a DELETE still waiting for
  the same command closes it again, and by then it may be another command's PTY.
* `IdleSparesBusy`: a session used after the idle pass listed it is destroyed mid-cell.
* `CursorExact`: a reader that meets half a line, and then a later one, counts one entry
  too few, and its next offsets are one too small.
* `ReturnedReady`: the account and the home itself always have the user's identifiers, but a
  home that one process has verified, and into which another then wrote as root and crashed, is
  served without another walk, so an entry in it may be another's.
* `Converges`: a user whose home holds a hard-linked regular file of another owner is answered
  with the same error each time (identity_paths.py:127, which tests/test_identity_paths.py:54
  asks for), and never becomes ready; it does not keep the others from the lock.
* `RootNeverHalfMade`: once the helper that made the trash root was killed in it, or could
  neither mark it nor remove it again (file_operations.py:473-478), every later trash and
  restore is refused for the missing marker, until somebody removes the directory.
* `NothingLost`: between the last check of a save and its rename, a writer that takes no lock
  (`UserFS.write`) or another operation on the name can be overwritten.

Two more, seen while modelling and part of the models, but of no property: when the end record
of a log cannot be written, the command's status stays `running` for good (`LogEnd`), and a log
that is not past its retention when its record expires is never deleted (`Expire`).

## 5. Proofs

Every safety invariant and every action property that a passing run checks is a theorem of its
specification, and so are the refinements `ImplementsBudget` and `ImplementsKeyed`. The theorems
hold for every value of the constants under the modules' named assumptions: `RequestAssumption`,
`PolicyAssumption` (what `ExecutionPolicy.__post_init__` enforces), `FaultAssumption`;
`StopperAssumption`; `PoolAssumption`; `ScopeAssumption` and `LimitAssumption` (each key has one
owner, limits are positive); `NotebooksAssumption`, `TerminalsAssumption`,
`ProcessesAssumption`, `ProvisioningAssumption` and `FilesAssumption`, which say that the values
for "nothing" are none of the others and that requests are about the names there are.

**AdmissionProofs.** `TypeCorrect`, `BudgetInvariant` (`BudgetHeld`) and `BudgetImplemented`
(`Spec => Budget!Spec`). The budgets alone are not inductive: a grant serves the head of a
queue, and if that head already held a reservation the owner's set would not grow while a second
grant was counted. The invariant `BudgetInv` adds to `TypeOK` and `BudgetHeld` that each queued
request is pending (and belongs to the queue's owner and occurs there once), so a request that
is granted never held anything. Lemmas state what `RemoveAt`, `InsertAt` and rotation do to
types, that a grant adds exactly one member to one owner's set, and that the number of active
users grows by at most one and only past the test of `HasCapacity`. The refinement needs no more
than `BudgetInv`, since `Cardinality(Active)` equals the abstract number of users.

`QueueAgrees` (`QueueConsistent`) is inductive on top of `BudgetInv`: `QueueInv` is their
conjunction. Its lemmas say how a ticket enters and leaves each of the five structures, what a
rotation of the ring does to positions, and that the count follows. `WakeUpsArrive`
(`NoLostWakeup`) needs `WakeInv`, which adds that a stopping manager
has an empty queue and that the worker ends only then; a
handler that can make an owner eligible is shown to notify, and the worker sleeps only after a
pass that found nobody. The three action properties `QueueRespected` (`GrantRespectsQueue`),
`NewUsersFirst` (`NewUserFirst`) and `TurnsAreKept` (`TurnsKept`) follow from `QueueInv`, the
last from the order of the ring before and after the step.

**TaskLifetimeProofs.** `TypeCorrect`, `TaskIsCovered`, `DescriptorsKept`,
`ShutdownNotOutrun`, and the action properties `GraceIsKept` (`GraceKept`) and `ReasonStays`
(`ReasonIsFinal`). The inductive invariant `LifeInv` is `TypeOK`, `Phases` (what each
position of the starter and the lock's holder implies about registration, descriptors and
the process) and `Covered` (the cgroup, the reservation and `closed` move together, and a
closed launch has no member). `FinishCleanup` preserves it since its guard is the verified
emptiness; `LauncherEnters` since the directory exists exactly as long as the reservation.
The two action properties go through the actions that set `killed` and `endReason`: what their
guards (`PreservesGrace`, `Reason`) decide is enough once `LifeInv` holds.

**HelperPoolProofs.** `HelpersOwnSlots` (`HelperOwnsSlot`), with the invariant `OwnInv`: the
kinds of the variables it needs, and for each phase which of granted, released and spawn it
allows; the queue does not matter to it. `PoolTyped` and `SlotsAddUp` (`SlotsCounted`) do need
the queue: `SlotsInv` adds `Tickets` to the type invariant and the count. A call that asks has
no ticket yet, only a call that left was released, and a ticket in the queue belongs to a call
that waits or has given up. So a slot that is handed over, or returned, changes the holders by
one, in the same direction as the counter.

**IdempotencyProofs.** `RegistryTyped`, `NeverTwice` (`NoDuplicate`), `LimitsHold`
(`RecordsCounted`), `AbandonedCancelled` (`AbandonedIsCancelled`) and `FailureReleases`
(`KeyReleased`), from one invariant of four layers. `Creations` ties a key's record to its
driver and its resources: a driver runs exactly while the outcome is open, the record is then
there, and a live resource is of the latest creation. `Counted` makes the records and the
waiters finite sets, so that the counters can be compared with them. `Settling` adds that who
waits is attached to the latest creation of its key, so that the one who leaves last cancels the
creation it has seen and settles that one. `purge` runs inside the calls; one lemma says what
any of them may drop (`Droppable`), and the three layers use it. `KeyedImplemented`
(`Spec => Keyed!Spec`) follows from the same invariant: `Creations` makes what a purge drops
spent and what `Make` adds the only resource of its key, `Attached` makes a waiter one of the
latest creation; a purge inside a call is the set of keys that the abstract call forgets.

**UserServicesProofs**, notebooks. `NotebooksTyped`, and `KernelsOwned` (`KernelOwned`):
`OwnerInv` adds what ties a session to its creation: it is listed and torn down after its
registration only, never both at once, and its directory exists from the admission on. Without
that a `Delete` of a session whose creation is still failing would start a second teardown.
`IdleSpares` (`IdleSparesBusy`) rests on `ListedSpared`: a listed session that is busy was used
since it was listed.

**UserServicesProofs**, provisioning. `IdentityTyped`, `UsersSeparate` (`Separate`),
`BindingsLast` (`BindingStable`), `ReturnsReady` (`ReturnedReady`) and `ImageRefuses`
(`RefusedByImage`), all from `IdentityInv`. A request that is on its way holds the lock and is
the only one; what it read at one step is still so at the next, since crashes of others touch
nothing but the insides of homes (`Reached`): past the account's step the account that is there
is the user's own, and past the repair so is every entry of the home, unless dirtied since
(`Whole`). What the home itself has is not in the invariant: the steps that return compare it
with the record. A draft that is about to become durable is apart
from every registered user and from every home of another name (`Drafted`, `Apart`). An account
or a group that the image did not bring is the trace of a registration with its identifiers
(`Traces`), so one that refuses a request is the image's.

**TerminalsProofs.** `TerminalsTyped` (with `Aimed`: a WebSocket past its first look has a
target), `MastersHeld` (`MastersOwned`), `OneAttached` (`OneConnection`) and
`LimitUnlessOverlap` (`LimitByOverlap`).
`HeldInv` says who holds a master: the creation up to its registration or failure, then the
listed session, then the cleanup that popped it. The holder's number stands for its PTY, so no
close meets a stranger's; a session is popped once because it is registered once.
`MarkInv` adds that an attached socket's session has its mark. `LimitInv` bounds the sessions
together with the creations that were counted without an overlap (`Placed`): a creation takes
its place when it counts, not when it registers.

**ProcessesProofs.** `CommandsTyped`, `NoneForgotten` (`ForgottenDead`), `RunningKeepsMaster`
(`MastersKept`) and `CursorKept` (`CursorExact`).
`ReapInv`: nobody stamps a command as finished, or closes its master, before it exited, but the
DELETE that does not wait. `NumberInv` adds the history of a number: who lost it before its log
task closed it lost it to a DELETE that has answered, and no command gets its number back.
`FileInv` says what a log file is at any moment: a start record or a marker of what was
dropped, then entries numbered consecutively from there up to what was written, and at the end
perhaps the end record. `ReadInv` follows the reader through the file it has open, replaced or
not: `total` is the number of the next entry, and what it has is what lay between its offset
and there, or the answer says that it is truncated. The number of entries that a rotation
drops is the cardinality of a set of positions (`OutputsIn`), and since entries are contiguous
after the first line it is an interval's (`DroppedCounts`); no induction over the file is needed.

**PersonalFilesProofs.** `TrashStaysRestorable` (`TrashRestorable`) and `NoWorkLost`
(`NothingLost`). `FilesInv` says for each helper by itself what it may rely on at its step: a
save after its check still has its source at the name, with the content that was read, or was
meddled with; a trash before its move has the marked root, its metadata and an entry of the
kind it looked at, or was meddled with; what is in a wrapper was put there by a trash that is
past its move; a restore that removes metadata has removed the data. A step of one helper
keeps the clauses of another because of what it leaves alone (`Frame`) and because it notes
what it touches (`Noting`). The one that does not, the rename of a save, is shown to be noted
or to hold the lock that any other save at this name would need (`ReplaceGrounds`).
`RootSeenWhole` (`RootNeverHalfMade`) has an invariant of its own: the maker of a root without
marker still holds the flock on the home and is about to mark it, or was killed or has answered
with an error (`RootMade`), and who was refused came after that. `FilesTyped` adds to `FilesInv` that a write that
truncated knows its file and that an upload starts at its first candidate name.

**Left to TLC.** The liveness properties `NoStarvation`, `WaitsAreBounded`, `TaskEnds`,
`SlotReturned`, `EveryCallerAnswered`, `ConnectionEndsSession` and `Converges`: fairness and
ENABLED are beyond the proof system. No module here declares a RECURSIVE operator, and facts by
induction over data are avoided.

## 6. Not modelled, and the plan

Left out for good: initialisation of the cgroup tree, policy and configuration parsing, the
container bootstrap (one sequential, fail-closed pass each); the file system API, search,
document conversion, the notebook file helper, ports, skills, compute environment and the MCP
adapter (no state of their own). The file system API does change the personal files, and none of
its calls takes a lock. Of these only `UserFS.write` is in `PersonalFiles`; `UserFS.move`,
`remove`, `write_bytes` and `mkdir` are not. `/files/delete` removes what is under a name at that
moment. `/files/move` (main.py:963-981) finds its destination absent, awaits, and then moves onto
whatever is there by then: a file created meanwhile is overwritten, which `NothingLost` does not
speak of.

Left out of modelled components: input to commands and the runners without a PTY; the bytes and
the size of terminals, and winpty; contents of notebooks; subdirectories, path and size
validation of personal files; the JSON form and the command lines of provisioning.

Two hazards have no property. `Manager.shutdown` over several tasks (manager.py:505): the abort
of one that raises leaves the others unasked; `TaskLifetime` has one task, and a product of two
at its detail is out of reach. The reader and writer of a terminal keep a number whose master
a cleanup closes (main.py:2539): no property holds, as they then read and write whatever the
number stands for.

No safety property of a run is left without a proof. What may follow: abstract specifications
that further modules implement, as `Admission` implements `ComputeBudget` and `Idempotency`
implements `KeyedCreation`: of `Terminals` and `Notebooks`, resources with one owner who returns
each once.
