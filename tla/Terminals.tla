------------------------------ MODULE Terminals ------------------------------
(***************************************************************************)
(* Interactive terminal sessions of main.py: creation, attachment by       *)
(* WebSocket, input from the other endpoints, deletion and cleanup.        *)
(*                                                                         *)
(* Handlers are tasks of one event loop; they interleave where they await. *)
(* _cleanup_session and the reads from a PTY run in threads.  A file       *)
(* descriptor is a number: the kernel gives a closed one out again.  The   *)
(* session of a creation carries its name.                                 *)
(***************************************************************************)
EXTENDS Integers, FiniteSets

CONSTANTS
    Creators,      \* POST /api/terminals
    Sockets,       \* WebSocket /api/terminals/{id}
    Writers,       \* inputs: POST /api/terminals/user/input, or a frame
    Fds,           \* descriptors for masters
    MaxSessions,   \* MAX_TERMINAL_SESSIONS
    None           \* no session, no descriptor

ASSUME TerminalsAssumption ==
    /\ None \notin Creators \cup Fds \cup Sockets /\ Creators \cap Sockets = {}
    /\ IsFiniteSet(Creators) /\ MaxSessions \in Nat \ {0}

VARIABLES
    sessions,      \* keys of _terminal_sessions
    creation,      \* how far each creation is
    cancelled,     \* creations whose request was cancelled
    doomed,        \* the dead sessions each creation prunes
    overlapped,    \* history: creations that were counted beside others
    fd, table,     \* master_fd of each session; the PTY each number stands for
    shell,         \* process of each session
    connected,     \* session["connected"]
    cleaning,      \* calls of _cleanup_session yet to run
    cleanup,       \* how far the one that popped the session is
    socket, target, reader,   \* each WebSocket, its session and reader thread
    writer, inputOf           \* each input, and its session or its WebSocket

dict == <<sessions, connected>>
creating == <<creation, cancelled, doomed, overlapped>>
ptys == <<fd, table, shell>>
cleanups == <<cleaning, cleanup>>
socketVars == <<socket, target, reader>>
writerVars == <<writer, inputOf>>
vars == <<dict, creating, ptys, cleanups, socketVars, writerVars>>

TypeOK ==
    /\ sessions \subseteq Creators /\ connected \subseteq Creators
    /\ creation \in [Creators -> {"idle", "pruning", "opened", "started",
                                  "failing", "failed", "registered"}]
    /\ cancelled \subseteq Creators /\ overlapped \subseteq Creators
    /\ doomed \in [Creators -> SUBSET Creators]
    /\ fd \in [Creators -> Fds \cup {None}]
    /\ table \in [Fds -> Creators \cup {None}]
    /\ shell \in [Creators -> {"none", "alive", "dead"}]
    /\ cleaning \subseteq Creators
    /\ cleanup \in [Creators -> {"none", "popped", "closed", "done"}]
    /\ socket \in [Sockets -> {"idle", "greeting", "attached", "leaving", "left", "refused"}]
    /\ target \in [Sockets -> Creators \cup {None}]
    /\ reader \in [Sockets -> {"off", "on"}]
    /\ writer \in [Writers -> {"idle", "waiting", "writing"}]
    /\ inputOf \in [Writers -> Creators \cup Sockets \cup {None}]

Init ==
    /\ sessions = {} /\ connected = {}
    /\ creation = [c \in Creators |-> "idle"]
    /\ cancelled = {} /\ overlapped = {}
    /\ doomed = [c \in Creators |-> {}]
    /\ fd = [c \in Creators |-> None] /\ table = [f \in Fds |-> None]
    /\ shell = [c \in Creators |-> "none"]
    /\ cleaning = {} /\ cleanup = [c \in Creators |-> "none"]
    /\ socket = [s \in Sockets |-> "idle"] /\ target = [s \in Sockets |-> None]
    /\ reader = [s \in Sockets |-> "off"]
    /\ writer = [w \in Writers |-> "idle"] /\ inputOf = [w \in Writers |-> None]

-----------------------------------------------------------------------------
(* Creation.                                                                *)

Become(c, phase) == creation' = [creation EXCEPT ![c] = phase]

Dead(c) == shell[c] = "dead"

(* async_call(_cleanup_session, id): a thread will run it, whatever becomes *)
(* of the caller.                                                           *)
Ask(ids) == cleaning' = cleaning \cup ids

(* Dead sessions are pruned first, one by one, and waited for.              *)
Prune(c) ==
    /\ creation[c] = "idle"
    /\ Become(c, "pruning")
    /\ LET dead == {d \in sessions : Dead(d)} IN
       doomed' = [doomed EXCEPT ![c] = dead] /\ Ask(dead)
    /\ UNCHANGED <<dict, cancelled, overlapped, ptys, cleanup, socketVars, writerVars>>

Underway == {c \in Creators : creation[c] \in {"opened", "started"}}

(* Slip: sessions are counted before the dead ones are pruned.              *)
SlipRoom(c) == Cardinality(sessions \ doomed[c]) <= MaxSessions

Room(c) == Cardinality(sessions) < MaxSessions

(* The limit, then the PTY, up to the first await.                          *)
Open(c) ==
    /\ creation[c] = "pruning"
    /\ doomed[c] \cap (sessions \cup cleaning) = {}
    /\ IF Room(c)
         THEN \/ \E f \in Fds :
                   /\ table[f] = None
                   /\ table' = [table EXCEPT ![f] = c]
                   /\ fd' = [fd EXCEPT ![c] = f]
                   /\ Become(c, "opened")
                   /\ overlapped' = IF Underway = {} THEN overlapped
                                                     ELSE overlapped \cup {c}
              \/ \* out of PTY devices
                 Become(c, "failed") /\ UNCHANGED <<fd, table, overlapped>>
         ELSE Become(c, "failed") /\ UNCHANGED <<fd, table, overlapped>>
    /\ doomed' = [doomed EXCEPT ![c] = {}]
    /\ UNCHANGED <<dict, cancelled, shell, cleanups, socketVars, writerVars>>

(* spawn_async: queued, refused or failed, or the shell runs.               *)
Spawn(c) ==
    /\ creation[c] = "opened"
    /\ \/ shell' = [shell EXCEPT ![c] = "alive"] /\ Become(c, "started")
       \/ Become(c, "failing") /\ UNCHANGED shell
    /\ UNCHANGED <<dict, cancelled, doomed, overlapped, fd, table, cleanups,
                   socketVars, writerVars>>

(* Between the count and the spawn nothing is awaited.                      *)
CancelRequest(c) ==
    /\ creation[c] \in {"pruning", "opened", "started"} /\ c \notin cancelled
    /\ cancelled' = cancelled \cup {c}
    /\ creation' = IF creation[c] = "pruning" THEN [creation EXCEPT ![c] = "failed"]
                                              ELSE creation
    /\ UNCHANGED <<dict, doomed, overlapped, ptys, cleanups, socketVars,
                   writerVars>>

(* A cancelled spawn is seen through and undone (cleanup=stop).             *)
Undo(c) ==
    /\ creation[c] = "started" /\ c \in cancelled
    /\ shell' = [shell EXCEPT ![c] = "dead"]
    /\ Become(c, "failing")
    /\ UNCHANGED <<dict, cancelled, doomed, overlapped, fd, table, cleanups,
                   socketVars, writerVars>>

Closed(c) == table' = [table EXCEPT ![fd[c]] = None]

(* The handler's except clause.                                             *)
CloseFailed(c) ==
    /\ creation[c] = "failing"
    /\ Closed(c)
    /\ Become(c, "failed")
    /\ UNCHANGED <<dict, cancelled, doomed, overlapped, fd, shell, cleanups,
                   socketVars, writerVars>>

Register(c) ==
    /\ creation[c] = "started" /\ c \notin cancelled
    /\ sessions' = sessions \cup {c}
    /\ Become(c, "registered")
    /\ UNCHANGED <<connected, cancelled, doomed, overlapped, ptys, cleanups,
                   socketVars, writerVars>>

(* The user types exit.                                                     *)
ShellExits(c) ==
    /\ shell[c] = "alive" /\ creation[c] = "registered"
    /\ shell' = [shell EXCEPT ![c] = "dead"]
    /\ UNCHANGED <<dict, creating, fd, table, cleanups, socketVars, writerVars>>

-----------------------------------------------------------------------------
(* Cleanup.                                                                 *)

(* DELETE; and GET of one or of all, which find it dead.                    *)
Delete(c) ==
    /\ c \in sessions /\ c \notin cleaning
    /\ Ask({c})
    /\ UNCHANGED <<dict, creating, ptys, cleanup, socketVars, writerVars>>

(* Slip: the session is removed at the end.                                 *)
SlipTakenOut(c) == sessions

TakenOut(c) == sessions \ {c}

(* _cleanup_session: the first call pops the session, the others return.    *)
Pop(c) ==
    /\ c \in cleaning
    /\ cleaning' = cleaning \ {c}
    /\ IF c \in sessions
         THEN sessions' = TakenOut(c) /\ cleanup' = [cleanup EXCEPT ![c] = "popped"]
         ELSE UNCHANGED <<sessions, cleanup>>
    /\ UNCHANGED <<connected, creating, ptys, socketVars, writerVars>>

CloseMaster(c) ==
    /\ cleanup[c] = "popped"
    /\ Closed(c)
    /\ cleanup' = [cleanup EXCEPT ![c] = "closed"]
    /\ UNCHANGED <<dict, creating, fd, shell, cleaning, socketVars, writerVars>>

(* execution_runtime.stop, or the reaper when that raises; or SIGTERM,      *)
(* SIGKILL and a wait.                                                      *)
StopShell(c) ==
    /\ cleanup[c] = "closed"
    /\ shell' = [shell EXCEPT ![c] = "dead"]
    /\ cleanup' = [cleanup EXCEPT ![c] = "done"]
    /\ UNCHANGED <<dict, creating, fd, table, cleaning, socketVars, writerVars>>

-----------------------------------------------------------------------------
(* WebSockets.                                                              *)

(* The session is looked up before the authentication is awaited.           *)
Connect(s) ==
    /\ socket[s] = "idle"
    /\ \E c \in sessions :
         IF Dead(c)
           THEN /\ Ask({c})
                /\ socket' = [socket EXCEPT ![s] = "refused"] /\ UNCHANGED target
           ELSE /\ socket' = [socket EXCEPT ![s] = "greeting"]
                /\ target' = [target EXCEPT ![s] = c] /\ UNCHANGED cleaning
    /\ UNCHANGED <<dict, creating, ptys, cleanup, reader, writerVars>>

(* Slip: whether somebody is connected was read before the await.           *)
SlipAttached(s) == FALSE

Attached(s) == target[s] \in connected

(* Refused by the first message, or by another connection; or attached to   *)
(* the session object, wherever that is by now.                             *)
Attach(s) ==
    /\ socket[s] = "greeting"
    /\ \/ /\ socket' = [socket EXCEPT ![s] = "refused"]
          /\ UNCHANGED <<connected, reader>>
       \/ /\ ~Attached(s)
          /\ connected' = connected \cup {target[s]}
          /\ socket' = [socket EXCEPT ![s] = "attached"]
          /\ reader' = [reader EXCEPT ![s] = "on"]
    /\ UNCHANGED <<sessions, creating, ptys, cleanups, target, writerVars>>

(* The client leaves, or its last frame could not be written.               *)
Disconnect(s) ==
    /\ socket[s] = "attached" /\ \A w \in Writers : inputOf[w] # s
    /\ socket' = [socket EXCEPT ![s] = "leaving"]
    /\ UNCHANGED <<dict, creating, ptys, cleanups, target, reader, writerVars>>

(* Slip: the session is left alone.                                         *)
SlipLeft(s) == {}

Left(s) == {target[s]}

Leave(s) ==
    /\ socket[s] = "leaving"
    /\ socket' = [socket EXCEPT ![s] = "left"]
    /\ Ask(Left(s))
    /\ UNCHANGED <<dict, creating, ptys, cleanup, target, reader, writerVars>>

(* _pty_reader and its thread wait for output and read it, from whatever    *)
(* the number they remember stands for by now, over and over (the step that *)
(* changes nothing).  Here they stop: told to, or the shell is dead and     *)
(* nothing more comes, or the frame cannot be sent.                         *)
StopReading(s) ==
    /\ reader[s] = "on"
    /\ reader' = [reader EXCEPT ![s] = "off"]
    /\ UNCHANGED <<dict, creating, ptys, cleanups, socket, target, writerVars>>

-----------------------------------------------------------------------------
(* Input.                                                                   *)

(* _user_terminal: a connected session whose shell runs.                    *)
FindTerminal(w) ==
    /\ writer[w] = "idle"
    /\ \E c \in sessions \cap connected :
         /\ ~Dead(c)
         /\ inputOf' = [inputOf EXCEPT ![w] = c]
    /\ writer' = [writer EXCEPT ![w] = "waiting"]
    /\ UNCHANGED <<dict, creating, ptys, cleanups, socketVars>>

(* A binary frame: the handler receives nothing else before it is written.  *)
Receive(w) ==
    /\ writer[w] = "idle"
    /\ \E s \in Sockets :
         /\ socket[s] = "attached" /\ \A v \in Writers : inputOf[v] # s
         /\ inputOf' = [inputOf EXCEPT ![w] = s]
    /\ writer' = [writer EXCEPT ![w] = "waiting"]
    /\ UNCHANGED <<dict, creating, ptys, cleanups, socketVars>>

InputSession(w) == IF inputOf[w] \in Sockets THEN target[inputOf[w]] ELSE inputOf[w]

(* input_lock.                                                              *)
Lock(w) ==
    /\ writer[w] = "waiting"
    /\ \A v \in Writers : InputSession(v) = InputSession(w) => writer[v] # "writing"
    /\ writer' = [writer EXCEPT ![w] = "writing"]
    /\ UNCHANGED <<dict, creating, ptys, cleanups, socketVars, inputOf>>

(* _write_terminal writes what the number takes, and sleeps while the PTY   *)
(* is full (the step that changes nothing); here it has written the rest,   *)
(* or found the number closed.                                              *)
Written(w) ==
    /\ writer[w] = "writing"
    /\ writer' = [writer EXCEPT ![w] = "idle"]
    /\ inputOf' = [inputOf EXCEPT ![w] = None]
    /\ UNCHANGED <<dict, creating, ptys, cleanups, socketVars>>

Next ==
    \/ \E c \in Creators :
         \/ Prune(c) \/ Open(c) \/ Spawn(c) \/ CancelRequest(c) \/ Undo(c)
         \/ CloseFailed(c) \/ Register(c) \/ ShellExits(c)
         \/ Delete(c) \/ Pop(c) \/ CloseMaster(c) \/ StopShell(c)
    \/ \E s \in Sockets :
         Connect(s) \/ Attach(s) \/ Disconnect(s) \/ Leave(s) \/ StopReading(s)
    \/ \E w \in Writers : FindTerminal(w) \/ Receive(w) \/ Lock(w) \/ Written(w)

Spec == Init /\ [][Next]_vars

(* The threads of cleanups run, and a handler that goes on does.            *)
FairSpec ==
    /\ Spec
    /\ \A c \in Creators : WF_vars(Pop(c)) /\ WF_vars(CloseMaster(c)) /\ WF_vars(StopShell(c))
    /\ \A s \in Sockets : WF_vars(Leave(s))

-----------------------------------------------------------------------------
(* Properties.                                                              *)

(* Every open master is that of a creation under way, of a listed session   *)
(* or of one being cleaned up, none is lost; and a listed session still has *)
(* its own: no cleanup, however often asked for, closes a number twice and  *)
(* with it the PTY of the next session.  Nor is a shell lost whose creation *)
(* was cancelled: it runs for one of those, too.                            *)
MastersOwned ==
    /\ \A f \in Fds : table[f] # None =>
         LET c == table[f] IN
         /\ fd[c] = f
         /\ \/ creation[c] \in {"opened", "started", "failing"}
            \/ c \in sessions \/ cleanup[c] = "popped"
    /\ \A c \in sessions : table[fd[c]] = c
    /\ \A c \in Creators : shell[c] = "alive" =>
         creation[c] = "started" \/ c \in sessions \/ cleanup[c] \in {"popped", "closed"}

(* One connection at a time: two sockets that authenticated meanwhile are   *)
(* not both attached.                                                       *)
OneConnection ==
    \A s, t \in Sockets :
        /\ socket[s] = "attached" /\ socket[t] = "attached" /\ target[s] = target[t]
        => s = t

(* The limit is exceeded only by creations that were counted while others   *)
(* were between their own count and their registration.                     *)
LimitByOverlap == Cardinality(sessions \ overlapped) <= MaxSessions

(* When the connection ends, the session does: nothing of it stays, also if *)
(* a deletion, a prune and the exit of its shell come at the same time.     *)
ConnectionEndsSession ==
    <>[](\A s \in Sockets, c \in Creators :
            socket[s] \in {"leaving", "left"} /\ target[s] = c =>
                c \notin sessions /\ Dead(c) /\ table[fd[c]] # c)
=============================================================================
