------------------------------ MODULE Processes ------------------------------
(***************************************************************************)
(* Commands of POST /execute: the process registry of main.py, their       *)
(* runners (PtyRunner), their logs (utils/log.py), DELETE, and a client    *)
(* that polls /execute/{id}/status with the offset of its last answer.     *)
(*                                                                         *)
(* Handlers and log_process are tasks of one event loop; they interleave   *)
(* where they await, and read_log awaits every line.  Sizes are counted in *)
(* lines.  Time is left to chance: an expiry may pass at any step.         *)
(***************************************************************************)
EXTENDS Integers, Sequences, FiniteSets

CONSTANTS
    Commands,
    Watched,       \* the command the client polls
    Output,        \* how many entries each command writes, at most
    Deletes,       \* DELETE requests
    Fds,           \* descriptors for masters
    Capacity,      \* MAX_PROCESS_LOG_SIZE, in lines
    Nobody         \* no descriptor, no command

ASSUME ProcessesAssumption ==
    /\ Watched \in Commands /\ Output \in [Commands -> Nat]
    /\ Nobody \notin Commands \cup Fds
    /\ Capacity \in Nat \ {0}

VARIABLES
    managed,       \* execution mode: cgroup or legacy
    registry,      \* keys of _processes
    status,        \* BackgroundProcess.status
    finished,      \* commands with a finished_at
    life,          \* of the process itself
    fd, table,     \* _master_fd of each runner; the PTY each number stands for
    task,          \* how far log_process is
    entries,       \* output entries written to the log so far
    log,           \* lines of the current file
    torn,          \* its last line is there in part
    written,       \* _bytes_written
    onDisk,        \* commands whose log file exists
    del, target, force,   \* each DELETE, its command and option
    forced,        \* history: commands a DELETE with force was answered for
    hasty,         \* history: commands stamped as finished by a DELETE that
                   \* did not wait
    poll           \* the client's request and what it holds

commands == <<registry, status, finished, life>>
masters == <<fd, table>>
file == <<entries, log, torn, written, onDisk>>
deletes == <<del, target, force>>
history == <<forced, hasty>>
vars == <<managed, commands, masters, task, file, deletes, history, poll>>

(* Between its requests the client remembers its offset.                   *)
Idle(offset, skewed) ==
    [phase |-> "idle", offset |-> offset, tail |-> FALSE, file |-> <<>>, stale |-> FALSE,
     pos |-> 0, total |-> 0, got |-> {}, truncated |-> FALSE, broke |-> FALSE,
     skewed |-> skewed]

Line(kind, n) == [kind |-> kind, n |-> n]

TypeOK ==
    /\ managed \in BOOLEAN
    /\ registry \subseteq Commands /\ finished \subseteq Commands
    /\ status \in [Commands -> {"none", "running", "done", "killed"}]
    /\ life \in [Commands -> {"none", "alive", "exited"}]
    /\ fd \in [Commands -> Fds \cup {Nobody}]
    /\ table \in [Fds -> Commands \cup {Nobody}]
    /\ task \in [Commands -> {"none", "opening", "unlogged", "reading", "rotating",
                              "appending", "waiting", "closing", "rotating end",
                              "ending", "done", "failed"}]
    /\ entries \in [Commands -> Nat] /\ written \in [Commands -> Nat]
    /\ \A c \in Commands : \A i \in DOMAIN log[c] :
         log[c][i].kind \in {"start", "entry", "mark", "end"} /\ log[c][i].n \in Nat
    /\ torn \in [Commands -> BOOLEAN] /\ onDisk \subseteq Commands
    /\ del \in [Deletes -> {"idle", "stopping", "waiting", "closing", "answered", "ended"}]
    /\ target \in [Deletes -> Commands \cup {Nobody}] /\ force \in [Deletes -> BOOLEAN]
    /\ forced \subseteq Commands /\ hasty \subseteq Commands
    /\ poll.phase \in {"idle", "reading"} /\ poll.offset \in Nat

Init ==
    /\ managed \in BOOLEAN
    /\ registry = {} /\ finished = {}
    /\ status = [c \in Commands |-> "none"] /\ life = [c \in Commands |-> "none"]
    /\ fd = [c \in Commands |-> Nobody] /\ table = [f \in Fds |-> Nobody]
    /\ task = [c \in Commands |-> "none"]
    /\ entries = [c \in Commands |-> 0] /\ written = [c \in Commands |-> 0]
    /\ log = [c \in Commands |-> <<>>]
    /\ torn = [c \in Commands |-> FALSE] /\ onDisk = {}
    /\ del = [d \in Deletes |-> "idle"]
    /\ target = [d \in Deletes |-> Nobody] /\ force = [d \in Deletes |-> FALSE]
    /\ forced = {} /\ hasty = {}
    /\ poll = Idle(0, FALSE)

Step(c, phase) == task' = [task EXCEPT ![c] = phase]

-----------------------------------------------------------------------------
(* The command.                                                             *)

(* create_once: the runner, the record and the log task; without an await.  *)
Execute(c) ==
    /\ task[c] = "none"
    /\ \E f \in Fds :
         /\ table[f] = Nobody
         /\ table' = [table EXCEPT ![f] = c] /\ fd' = [fd EXCEPT ![c] = f]
    /\ life' = [life EXCEPT ![c] = "alive"]
    /\ status' = [status EXCEPT ![c] = "running"]
    /\ registry' = registry \cup {c}
    /\ Step(c, "opening")
    /\ UNCHANGED <<managed, finished, file, deletes, history, poll>>

Exit(c) ==
    /\ life[c] = "alive"
    /\ life' = [life EXCEPT ![c] = "exited"]
    /\ UNCHANGED <<managed, registry, status, finished, masters, task, file, deletes,
                   history, poll>>

(* _cleanup_expired, run by the handlers: the record goes five minutes after *)
(* finished_at, and the log with it if it is past its retention by then.    *)
Expire(c) ==
    /\ c \in registry \cap finished
    /\ registry' = registry \ {c}
    /\ onDisk' \in {onDisk, onDisk \ {c}}
    /\ UNCHANGED <<managed, status, finished, life, masters, task, entries, log, torn,
                   written, deletes, history, poll>>

-----------------------------------------------------------------------------
(* log_process and BoundedLogWriter.                                        *)

(* Without a log file the output is read and thrown away.                   *)
OpenLog(c) ==
    /\ task[c] = "opening"
    /\ \/ /\ log' = [log EXCEPT ![c] = <<Line("start", 0)>>]
          /\ onDisk' = onDisk \cup {c}
          /\ Step(c, "reading")
       \/ Step(c, "unlogged") /\ UNCHANGED <<log, onDisk>>
    /\ UNCHANGED <<managed, commands, masters, entries, torn, written, deletes, history, poll>>

Full(c) == written[c] + 1 > Capacity

(* read_output: os.read of the number the runner remembers.                 *)
ReadOutput(c) ==
    /\ task[c] = "reading" /\ table[fd[c]] # Nobody /\ entries[c] < Output[c]
    /\ Step(c, IF Full(c) THEN "rotating" ELSE "appending")
    /\ UNCHANGED <<managed, commands, masters, file, deletes, history, poll>>

(* EIO once the process is gone, EBADF once somebody closed the number.     *)
EndOfOutput(c) ==
    /\ task[c] \in {"reading", "unlogged"}
    /\ life[c] = "exited" \/ table[fd[c]] = Nobody
    /\ Step(c, "waiting")
    /\ UNCHANGED <<managed, commands, masters, file, deletes, history, poll>>

OutputsIn(lines) == Cardinality({i \in DOMAIN lines : lines[i].kind = "entry"})

(* Slip: the entries dropped by earlier rotations are not counted.          *)
SlipDropped(lines) == OutputsIn(lines)

(* The entries that are gone with these lines: a marker among them counts   *)
(* for those before it.                                                     *)
Dropped(lines) ==
    LET marks == {i \in DOMAIN lines : lines[i].kind = "mark"} IN
    IF marks = {} THEN OutputsIn(lines)
    ELSE LET m == CHOOSE i \in marks : \A j \in marks : j <= i IN
         lines[m].n + OutputsIn(SubSeq(lines, m + 1, Len(lines)))

(* A reader that has the replaced file open keeps it.                       *)
Replaced(c) ==
    IF poll.phase = "reading" /\ c = Watched /\ ~poll.stale
      THEN [poll EXCEPT !.file = log[c], !.stale = TRUE] ELSE poll

(* _rotate: the newest half of the lines after a marker, in a new file.     *)
Rotate(c) ==
    /\ task[c] \in {"rotating", "rotating end"}
    /\ LET split == Len(log[c]) \div 2
           keep == SubSeq(log[c], split + 1, Len(log[c])) IN
       /\ log' = [log EXCEPT ![c] =
                    <<Line("mark", Dropped(SubSeq(log[c], 1, split)))>> \o keep]
       /\ written' = [written EXCEPT ![c] = Len(keep)]
    /\ onDisk' = onDisk \cup {c}
    /\ poll' = Replaced(c)
    /\ Step(c, IF task[c] = "rotating" THEN "appending" ELSE "ending")
    /\ UNCHANGED <<managed, commands, masters, entries, torn, deletes, history>>

(* A line longer than the buffer reaches the file in parts.                 *)
Spill(c) ==
    /\ task[c] = "appending" /\ ~torn[c]
    /\ log' = [log EXCEPT ![c] = Append(@, Line("entry", entries[c]))]
    /\ torn' = [torn EXCEPT ![c] = TRUE]
    /\ UNCHANGED <<managed, commands, masters, task, entries, written, onDisk, deletes,
                   history, poll>>

(* The write and its flush.                                                 *)
Flush(c) ==
    /\ task[c] = "appending"
    /\ log' = IF torn[c] THEN log
              ELSE [log EXCEPT ![c] = Append(@, Line("entry", entries[c]))]
    /\ torn' = [torn EXCEPT ![c] = FALSE]
    /\ entries' = [entries EXCEPT ![c] = @ + 1]
    /\ written' = [written EXCEPT ![c] = @ + 1]
    /\ Step(c, "reading")
    /\ UNCHANGED <<managed, commands, masters, onDisk, deletes, history, poll>>

(* Slip: the process is not waited for.                                     *)
SlipExited(c) == TRUE

Exited(c) == life[c] = "exited"

LogWait(c) ==
    /\ task[c] = "waiting" /\ Exited(c)
    /\ Step(c, "closing")
    /\ UNCHANGED <<managed, commands, masters, file, deletes, history, poll>>

(* PtyRunner.close closes the number, whatever it stands for by now.        *)
Close(c) == table' = [table EXCEPT ![fd[c]] = Nobody]

LogClose(c) ==
    /\ task[c] = "closing"
    /\ Close(c)
    /\ Step(c, IF Full(c) THEN "rotating end" ELSE "ending")
    /\ UNCHANGED <<managed, commands, fd, file, deletes, history, poll>>

(* The end record and the final status; an exception of the write skips the *)
(* latter.                                                                  *)
LogEnd(c) ==
    /\ task[c] = "ending"
    /\ \/ /\ log' = IF log[c] = <<>> THEN log
                    ELSE [log EXCEPT ![c] = Append(@, Line("end", 0))]
          /\ status' = [status EXCEPT ![c] = IF @ = "killed" THEN @ ELSE "done"]
          /\ finished' = finished \cup {c}
          /\ Step(c, "done")
       \/ log[c] # <<>> /\ Step(c, "failed") /\ UNCHANGED <<log, status, finished>>
    /\ UNCHANGED <<managed, registry, life, masters, entries, torn, written, onDisk,
                   deletes, history, poll>>

-----------------------------------------------------------------------------
(* kill_process.                                                            *)

Handle(d, phase) == del' = [del EXCEPT ![d] = phase]

(* A running command is marked as killed and signalled (legacy: at once, and *)
(* SIGTERM may be ignored); of any other one only finished_at is set.       *)
Delete(d) ==
    /\ del[d] = "idle"
    /\ \E c \in registry, option \in BOOLEAN :
         /\ target' = [target EXCEPT ![d] = c] /\ force' = [force EXCEPT ![d] = option]
         /\ \/ /\ status[c] = "running"
               /\ status' = [status EXCEPT ![c] = "killed"]
               /\ Handle(d, IF managed THEN "stopping" ELSE "waiting")
               /\ \/ managed /\ UNCHANGED life
                  \/ ~managed /\ life' = [life EXCEPT ![c] = "exited"]
                  \/ ~managed /\ ~option /\ UNCHANGED life
               /\ UNCHANGED <<finished, history>>
            \/ /\ status[c] # "running"
               /\ finished' = finished \cup {c}
               /\ hasty' = IF life[c] = "alive" THEN hasty \cup {c} ELSE hasty
               /\ forced' = IF option THEN forced \cup {c} ELSE forced
               /\ Handle(d, "ended")
               /\ UNCHANGED <<status, life>>
    /\ UNCHANGED <<managed, registry, masters, task, file, poll>>

(* execution_runtime.stop returns when the task's cgroup is empty, or fails. *)
Stop(d) ==
    /\ del[d] = "stopping"
    /\ \/ life' = [life EXCEPT ![target[d]] = "exited"] /\ Handle(d, "waiting")
       \/ Handle(d, "ended") /\ UNCHANGED life
    /\ UNCHANGED <<managed, registry, status, finished, masters, task, file, target, force,
                   history, poll>>

(* runner.wait; the client may leave meanwhile.                             *)
DeleteWait(d) ==
    /\ del[d] = "waiting"
    /\ \/ Exited(target[d]) /\ Handle(d, "closing")
       \/ Handle(d, "ended")
    /\ UNCHANGED <<managed, commands, masters, task, file, target, force, history, poll>>

DeleteClose(d) ==
    /\ del[d] = "closing"
    /\ Close(target[d])
    /\ finished' = finished \cup {target[d]}
    /\ forced' = IF force[d] THEN forced \cup {target[d]} ELSE forced
    /\ Handle(d, "answered")
    /\ UNCHANGED <<managed, registry, status, life, fd, task, file, target, force, hasty, poll>>

-----------------------------------------------------------------------------
(* The client and read_log.                                                 *)

(* GET status with the offset of the last answer, and perhaps tail=1.  The  *)
(* record must be in the registry; without a file the next offset is 0.     *)
Ask ==
    /\ poll.phase = "idle" /\ Watched \in registry
    /\ IF Watched \in onDisk
         THEN \E tail \in BOOLEAN : poll' = [poll EXCEPT !.phase = "reading", !.tail = tail]
         ELSE poll' = Idle(0, poll.skewed)
    /\ UNCHANGED <<managed, commands, masters, task, file, deletes, history>>

Seen == IF poll.stale THEN poll.file ELSE log[Watched]

(* One line.  A part of a line is not JSON, nor is the rest of it: the entry *)
(* is skipped.                                                              *)
ReadLine ==
    /\ poll.phase = "reading" /\ poll.pos < Len(Seen)
    /\ LET line == Seen[poll.pos + 1]
           part == ~poll.stale /\ torn[Watched] /\ poll.pos + 1 = Len(Seen)
           next == [poll EXCEPT !.pos = @ + 1] IN
       poll' =
         IF part THEN [next EXCEPT !.broke = TRUE]
         ELSE CASE line.kind = "mark" ->
                     [next EXCEPT !.total = line.n, !.truncated = poll.offset < line.n]
                [] line.kind = "entry" ->
                     IF poll.total < poll.offset THEN [next EXCEPT !.total = @ + 1]
                     ELSE [next EXCEPT !.total = @ + 1, !.skewed = @ \/ poll.broke,
                             !.got = IF poll.tail THEN {line.n} ELSE @ \cup {line.n},
                             !.truncated = @ \/ (poll.tail /\ poll.got # {})]
                [] OTHER -> next
    /\ UNCHANGED <<managed, commands, masters, task, file, deletes, history>>

Answer ==
    /\ poll.phase = "reading" /\ poll.pos = Len(Seen)
    /\ poll' = Idle(poll.total, poll.skewed)
    /\ UNCHANGED <<managed, commands, masters, task, file, deletes, history>>

Next ==
    \/ \E c \in Commands :
         \/ Execute(c) \/ Exit(c) \/ Expire(c)
         \/ OpenLog(c) \/ ReadOutput(c) \/ EndOfOutput(c) \/ Rotate(c) \/ Spill(c)
         \/ Flush(c) \/ LogWait(c) \/ LogClose(c) \/ LogEnd(c)
    \/ \E d \in Deletes : Delete(d) \/ Stop(d) \/ DeleteWait(d) \/ DeleteClose(d)
    \/ Ask \/ ReadLine \/ Answer

Spec == Init /\ [][Next]_vars

-----------------------------------------------------------------------------
(* Properties.                                                              *)

(* "Use next_offset from the previous response to get only new output":     *)
(* entry n of the command is entry n of every file that still has it, over  *)
(* all rotations and under every reader.  An answer has exactly the entries *)
(* between its offset and its next_offset, or says that it is truncated.    *)
(* Only a client that once read part of a line and then a later entry has   *)
(* lost its place.                                                          *)
CursorExact ==
    poll.phase = "reading" /\ poll.pos = Len(Seen) /\ ~poll.skewed =>
        LET wanted == poll.offset .. (poll.total - 1) IN
        /\ poll.got \subseteq wanted
        /\ poll.got # wanted => poll.truncated

(* A command is dropped from the registry, out of reach of everybody, only  *)
(* when it has exited; unless a DELETE came while another one waited for it *)
(* and stamped it as finished.                                              *)
ForgottenDead ==
    \A c \in Commands : task[c] # "none" /\ c \notin registry =>
        life[c] = "exited" \/ c \in hasty

(* A command that runs keeps its master.  Only a DELETE of another command  *)
(* takes it away: it closes the number after that command's log task did,   *)
(* when the kernel has given it out again.                                  *)
MastersKept ==
    \A c \in Commands : life[c] = "alive" /\ table[fd[c]] # c =>
        \E d \in Deletes : /\ del[d] = "answered"
                           /\ target[d] # c /\ fd[target[d]] = fd[c]

(* "Use force=true to send SIGKILL": a command is dead once a DELETE with   *)
(* force has been answered.                                                 *)
ForceKills == \A c \in forced : life[c] = "exited"
=============================================================================
