--------------------------- MODULE ProcessesProofs ---------------------------
(***************************************************************************)
(* Proofs about Processes, for any number of commands, DELETEs and         *)
(* descriptors, any output and any capacity of the log.                    *)
(*                                                                         *)
(* ReapInv: nobody stamps a command as finished, or closes its master,     *)
(* before it exited, save the hasty DELETE.  NumberInv adds the history of *)
(* a descriptor: a command that has lost its number before its log task    *)
(* closed it lost it to a DELETE, of itself or of an earlier owner of the  *)
(* number, and no command gets its number back.  FileInv: a log file is a  *)
(* start record or a marker, then entries numbered from what it says, up   *)
(* to the count of what was written.  ReadInv: where a reader stands in    *)
(* the file it has open, replaced or not, and what it has by then.         *)
(***************************************************************************)
EXTENDS Processes, FiniteSetTheorems, SequenceTheorems, TLAPS

Lives ==
    /\ life \in [Commands -> {"none", "alive", "exited"}]
    /\ task \in [Commands -> {"none", "opening", "unlogged", "reading", "rotating",
                              "appending", "waiting", "closing", "rotating end",
                              "ending", "done", "failed"}]
    /\ del \in [Deletes -> {"idle", "stopping", "waiting", "closing", "answered", "ended"}]
    /\ target \in [Deletes -> Commands \cup {Nobody}]
    /\ registry \subseteq Commands /\ finished \subseteq Commands

Gone(c) == Exited(c) \/ c \in hasty

Closing(c) == task[c] \in {"closing", "rotating end", "ending", "done", "failed"}

Recorded ==
    \A c \in Commands :
        /\ c \in registry \cup finished => task[c] # "none"
        /\ life[c] = "none" <=> task[c] = "none"
        /\ Closing(c) => Exited(c)
        /\ c \in finished \/ (task[c] # "none" /\ c \notin registry) => Gone(c)

Handled ==
    \A d \in Deletes :
        /\ del[d] \in {"stopping", "waiting", "closing", "answered"} =>
             target[d] \in Commands /\ task[target[d]] # "none"
        /\ del[d] \in {"closing", "answered"} => Exited(target[d])

ReapInv == Lives /\ Recorded /\ Handled

LEMMA InitReap == Init => ReapInv
  BY ProcessesAssumption DEF Init, ReapInv, Lives, Recorded, Handled, Gone, Exited, Closing

(* What the invariant speaks of.                                            *)
Reaping == <<registry, finished, life, task, del, target, hasty>>

LEMMA QuietReap == ASSUME ReapInv, UNCHANGED Reaping PROVE ReapInv'
  BY DEF Reaping, ReapInv, Lives, Recorded, Handled, Gone, Exited, Closing

LEMMA CommandReap ==
  ASSUME ReapInv, NEW c \in Commands, Execute(c) \/ Exit(c) \/ Expire(c)
  PROVE  ReapInv'
  <1> USE DEF ReapInv, Lives, Recorded, Handled, Gone, Exited, Closing, Step, deletes, history
  <1>1. CASE Execute(c) BY <1>1 DEF Execute
  <1>2. CASE Exit(c) BY <1>2 DEF Exit
  <1>3. CASE Expire(c) BY <1>3 DEF Expire
  <1> QED BY <1>1, <1>2, <1>3

LEMMA LogReap ==
  ASSUME ReapInv, NEW c \in Commands,
         \/ OpenLog(c) \/ ReadOutput(c) \/ EndOfOutput(c) \/ Rotate(c) \/ Spill(c)
         \/ Flush(c) \/ LogWait(c) \/ LogClose(c) \/ LogEnd(c)
  PROVE  ReapInv'
  <1> USE DEF commands, deletes, history
  <1>1. UNCHANGED <<registry, life, del, target, hasty>>
    BY DEF OpenLog, ReadOutput, EndOfOutput, Rotate, Spill, Flush, LogWait, LogClose, LogEnd
  <1>2. CASE LogEnd(c)
    BY <1>1, <1>2 DEF LogEnd, ReapInv, Lives, Recorded, Handled, Gone, Exited, Closing, Step
  <1>3. ASSUME finished' = finished, task[c] # "none",
               \/ task' = task
               \/ \E p \in {"reading", "unlogged", "rotating", "appending", "waiting"} :
                    task' = [task EXCEPT ![c] = p]
               \/ \E p \in {"closing", "rotating end", "ending"} :
                    Exited(c) /\ task' = [task EXCEPT ![c] = p]
        PROVE  ReapInv'
    <2> USE DEF ReapInv, Lives, Recorded, Handled, Gone, Exited, Closing
    <2>1. CASE task' = task BY <1>1, <1>3, <2>1
    <2>2. ASSUME NEW p \in {"reading", "unlogged", "rotating", "appending", "waiting"},
                 task' = [task EXCEPT ![c] = p]
          PROVE  ReapInv'
      BY <1>1, <1>3, <2>2
    <2>3. ASSUME NEW p \in {"closing", "rotating end", "ending"}, Exited(c),
                 task' = [task EXCEPT ![c] = p]
          PROVE  ReapInv'
      BY <1>1, <1>3, <2>3
    <2> QED BY <1>3, <2>1, <2>2, <2>3
  <1>4. CASE OpenLog(c) \/ ReadOutput(c) \/ EndOfOutput(c) \/ Spill(c) \/ Flush(c)
    BY <1>3, <1>4 DEF OpenLog, ReadOutput, EndOfOutput, Spill, Flush, Step
  <1>5. CASE LogWait(c) \/ LogClose(c) \/ Rotate(c)
    <2>1. task[c] \in {"closing", "rotating end"} => Exited(c)
      BY DEF ReapInv, Recorded, Closing
    <2> QED BY <1>3, <1>5, <2>1 DEF LogWait, LogClose, Rotate, Step
  <1> QED BY <1>2, <1>4, <1>5

LEMMA DeleteReap ==
  ASSUME ReapInv, NEW d \in Deletes,
         Delete(d) \/ Stop(d) \/ DeleteWait(d) \/ DeleteClose(d)
  PROVE  ReapInv'
  <1> USE DEF ReapInv, Lives, Recorded, Handled, Gone, Exited, Closing, Handle, commands, history
  <1>1. CASE Delete(d)
    <2>1. PICK c \in registry, option \in BOOLEAN :
            /\ target' = [target EXCEPT ![d] = c]
            /\ \/ /\ \E p \in {"stopping", "waiting"} : Handle(d, p)
                  /\ life' = life \/ life' = [life EXCEPT ![c] = "exited"]
                  /\ UNCHANGED <<finished, hasty>>
               \/ /\ finished' = finished \cup {c} /\ life' = life
                  /\ hasty' = IF life[c] = "alive" THEN hasty \cup {c} ELSE hasty
                  /\ Handle(d, "ended")
      BY <1>1 DEF Delete
    <2>2. UNCHANGED <<registry, task>> BY <1>1 DEF Delete
    <2>3. life[c] \in {"alive", "exited"} BY <2>1
    <2>4. ASSUME NEW p \in {"stopping", "waiting"}, Handle(d, p),
                 life' = life \/ life' = [life EXCEPT ![c] = "exited"],
                 UNCHANGED <<finished, hasty>>
          PROVE  ReapInv'
      <3>1. Lives' BY <2>1, <2>2, <2>4
      <3>2. \A x \in Commands : Exited(x) => Exited(x)' BY <2>4
      <3>3. \A x \in Commands : life'[x] = "none" <=> life[x] = "none" BY <2>3, <2>4
      <3>4. c \in Commands /\ task[c] # "none" BY <2>1
      <3>5. Recorded' BY <2>2, <2>4, <3>2, <3>3
      <3>6. ASSUME NEW e \in Deletes, e # d
            PROVE  /\ del'[e] \in {"stopping", "waiting", "closing", "answered"} =>
                        target'[e] \in Commands /\ task'[target'[e]] # "none"
                   /\ del'[e] \in {"closing", "answered"} => Exited(target[e])'
        BY <2>1, <2>2, <2>4, <3>2, <3>6
      <3>7. del'[d] = p /\ target'[d] = c BY <2>1, <2>4
      <3> QED BY <2>2, <3>1, <3>4, <3>5, <3>6, <3>7
    <2>5. ASSUME finished' = finished \cup {c}, life' = life, Handle(d, "ended"),
                 hasty' = IF life[c] = "alive" THEN hasty \cup {c} ELSE hasty
          PROVE  ReapInv'
      BY <2>1, <2>2, <2>3, <2>5
    <2> QED BY <2>1, <2>4, <2>5
  <1>2. CASE Stop(d) BY <1>2 DEF Stop
  <1>3. CASE DeleteWait(d) BY <1>3 DEF DeleteWait
  <1>4. CASE DeleteClose(d) BY <1>4 DEF DeleteClose
  <1> QED BY <1>1, <1>2, <1>3, <1>4

LEMMA NextReap == ReapInv /\ [Next]_vars => ReapInv'
  <1> SUFFICES ASSUME ReapInv, [Next]_vars PROVE ReapInv' OBVIOUS
  <1>1. CASE UNCHANGED vars
    BY <1>1, QuietReap DEF vars, Reaping, commands, deletes, history
  <1>2. CASE Ask \/ ReadLine \/ Answer
    BY <1>2, QuietReap DEF Ask, ReadLine, Answer, Reaping, commands, deletes, history
  <1> QED BY <1>1, <1>2, CommandReap, LogReap, DeleteReap DEF Next

(* A command is never dropped from the registry while it runs, except by    *)
(* the DELETE that found another one waiting.                               *)
THEOREM NoneForgotten == Spec => []ForgottenDead
  <1>1. ReapInv => ForgottenDead
    BY DEF ReapInv, Recorded, Gone, Exited, ForgottenDead
  <1> QED BY <1>1, InitReap, NextReap, PTL DEF Spec

-----------------------------------------------------------------------------

(* The log task has closed the number.                                      *)
Let(c) == task[c] \in {"rotating end", "ending", "done", "failed"}

(* Some DELETE closed this number, and answered.                            *)
ClosedBy(d, f) == del[d] = "answered" /\ fd[target[d]] = f

NumberInv ==
    /\ fd \in [Commands -> Fds \cup {Nobody}]
    /\ table \in [Fds -> Commands \cup {Nobody}]
    /\ \A c \in Commands : task[c] # "none" => fd[c] \in Fds
    /\ \A f \in Fds : table[f] # Nobody => fd[table[f]] = f /\ task[table[f]] # "none"
    /\ \A d \in Deletes : del[d] = "answered" => table[fd[target[d]]] # target[d]
    /\ \A c \in Commands : task[c] # "none" /\ ~Let(c) /\ table[fd[c]] # c =>
         \E d \in Deletes : ClosedBy(d, fd[c])

LEMMA InitNumber == Init => NumberInv
  BY ProcessesAssumption DEF Init, NumberInv, Let, ClosedBy

(* Closing a number is by itself harmless to the invariant if a DELETE is   *)
(* there to answer for it.                                                  *)
LEMMA CloseNumber ==
  ASSUME NumberInv, ReapInv, NEW c \in Commands, fd[c] \in Fds, Close(c), UNCHANGED fd,
         UNCHANGED target,
         \A x \in Commands : (task'[x] = "none") = (task[x] = "none"),
         \A x \in Commands : Let(x) => Let(x)',
         \A d \in Deletes : del[d] = "answered" => del'[d] = "answered",
         \A d \in Deletes : del'[d] = "answered" => del[d] = "answered" \/ target[d] = c,
         \/ Let(c)' /\ (table[fd[c]] = c \/ \E d \in Deletes : ClosedBy(d, fd[c]))
         \/ \E d \in Deletes : ClosedBy(d, fd[c])'
  PROVE  NumberInv'
  <1> USE DEF Close
  <1>1. /\ table' \in [Fds -> Commands \cup {Nobody}]
        /\ \A f \in Fds : table'[f] = IF f = fd[c] THEN Nobody ELSE table[f]
    BY DEF NumberInv
  <1>2. \A d \in Deletes : ClosedBy(d, fd[c]) => ClosedBy(d, fd[c])'
    BY DEF ClosedBy
  <1>3. \A d \in Deletes, x \in Commands : ClosedBy(d, fd[x]) => ClosedBy(d, fd[x])'
    BY DEF ClosedBy
  <1>4. ASSUME NEW d \in Deletes, del'[d] = "answered"
        PROVE  table'[fd'[target'[d]]] # target'[d]
    <2>1. Nobody \notin Commands BY ProcessesAssumption
    <2>2. target[d] \in Commands /\ fd[target[d]] \in Fds
      BY <1>4 DEF ReapInv, Handled, NumberInv
    <2> QED BY <1>1, <1>4, <2>1, <2>2 DEF NumberInv
  <1>5. ASSUME NEW x \in Commands, task'[x] # "none", ~Let(x)', table'[fd'[x]] # x
        PROVE  \E d \in Deletes : ClosedBy(d, fd[x])'
    <2>1. fd[x] \in Fds /\ task[x] # "none" /\ ~Let(x) BY <1>5 DEF NumberInv
    <2>2. CASE table[fd[x]] # x
      BY <1>3, <2>1, <2>2 DEF NumberInv
    <2>3. CASE table[fd[x]] = x
      <3>1. fd[x] = fd[c] BY <1>1, <1>5, <2>1, <2>3
      <3>2. CASE \E d \in Deletes : ClosedBy(d, fd[c])' BY <3>1, <3>2
      <3>3. CASE Let(c)' /\ table[fd[c]] = c BY <1>5, <2>3, <3>1, <3>3
      <3>4. CASE \E d \in Deletes : ClosedBy(d, fd[c]) BY <1>2, <3>1, <3>4
      <3> QED BY <3>2, <3>3, <3>4
    <2> QED BY <2>2, <2>3
  <1> QED BY <1>1, <1>4, <1>5 DEF NumberInv

(* Steps that close nothing.                                                *)
LEMMA OpenNumber ==
  ASSUME NumberInv, UNCHANGED masters,
         \A x \in Commands : (task'[x] = "none") = (task[x] = "none"),
         \A x \in Commands : Let(x) => Let(x)',
         \A d \in Deletes : del[d] = "answered" <=> del'[d] = "answered",
         \A d \in Deletes : del[d] = "answered" => target'[d] = target[d]
  PROVE  NumberInv'
  <1>1. \A d \in Deletes, x \in Commands : ClosedBy(d, fd[x]) => ClosedBy(d, fd[x])'
    BY DEF ClosedBy, masters
  <1>2. \A x \in Commands : task'[x] # "none" /\ ~Let(x)' /\ table'[fd'[x]] # x =>
          \E d \in Deletes : ClosedBy(d, fd[x])'
    BY <1>1 DEF NumberInv, masters
  <1>3. \A f \in Fds : table[f] # Nobody => table[f] \in Commands
    BY DEF NumberInv
  <1>4. \A f \in Fds : table'[f] # Nobody => fd'[table'[f]] = f /\ task'[table'[f]] # "none"
    BY <1>3 DEF NumberInv, masters
  <1> QED BY <1>2, <1>4 DEF NumberInv, masters

LEMMA ExecuteNumber ==
  ASSUME NumberInv, ReapInv, NEW c \in Commands, Execute(c)
  PROVE  NumberInv'
  <1> USE DEF Execute, Step
  <1>1. PICK f \in Fds : /\ table[f] = Nobody
                         /\ table' = [table EXCEPT ![f] = c] /\ fd' = [fd EXCEPT ![c] = f]
    OBVIOUS
  <1>2. task[c] = "none" /\ task' = [task EXCEPT ![c] = "opening"] /\ UNCHANGED <<del, target>>
    BY DEF deletes
  <1>3. \A d \in Deletes : del[d] = "answered" => target[d] \in Commands \ {c}
    BY <1>2 DEF ReapInv, Handled
  <1>4. Nobody \notin Commands BY ProcessesAssumption
  <1>5. \A d \in Deletes : del[d] = "answered" =>
          fd'[target[d]] = fd[target[d]] /\ table'[fd[target[d]]] # target[d]
    BY <1>1, <1>3 DEF NumberInv
  <1>6. ASSUME NEW x \in Commands, task'[x] # "none", ~Let(x)', table'[fd'[x]] # x
        PROVE  \E d \in Deletes : ClosedBy(d, fd[x])'
    <2>1. x # c BY <1>1, <1>6 DEF NumberInv
    <2>2. task[x] # "none" /\ ~Let(x) /\ fd'[x] = fd[x] /\ fd[x] \in Fds
      BY <1>1, <1>2, <1>6, <2>1 DEF Let, NumberInv, ReapInv, Lives
    <2>3. table[fd[x]] # x BY <1>1, <1>4, <1>6, <2>2 DEF NumberInv
    <2>4. PICK d \in Deletes : ClosedBy(d, fd[x]) BY <2>2, <2>3 DEF NumberInv
    <2> QED BY <1>2, <1>5, <2>2, <2>4 DEF ClosedBy
  <1>7. ASSUME NEW g \in Fds, table'[g] # Nobody
        PROVE  fd'[table'[g]] = g /\ task'[table'[g]] # "none"
    <2>1. CASE g = f BY <1>1, <1>2, <2>1 DEF NumberInv, ReapInv, Lives
    <2>2. CASE g # f
      <3>1. table'[g] = table[g] /\ table[g] \in Commands BY <1>1, <1>7, <2>2 DEF NumberInv
      <3>2. table[g] # c BY <1>2, <1>7, <3>1 DEF NumberInv
      <3> QED BY <1>1, <1>2, <1>7, <3>1, <3>2 DEF NumberInv, ReapInv, Lives
    <2> QED BY <2>1, <2>2
  <1>8. \A x \in Commands : task'[x] # "none" => fd'[x] \in Fds
    BY <1>1, <1>2 DEF NumberInv, ReapInv, Lives
  <1> QED BY <1>1, <1>2, <1>3, <1>5, <1>6, <1>7, <1>8 DEF NumberInv

LEMMA LogNumber ==
  ASSUME NumberInv, ReapInv, NEW c \in Commands,
         \/ Exit(c) \/ Expire(c) \/ OpenLog(c) \/ ReadOutput(c) \/ EndOfOutput(c)
         \/ Rotate(c) \/ Spill(c) \/ Flush(c) \/ LogWait(c) \/ LogEnd(c)
  PROVE  NumberInv'
  <1>1. UNCHANGED <<masters, del, target>>
    BY DEF Exit, Expire, OpenLog, ReadOutput, EndOfOutput, Rotate, Spill, Flush, LogWait,
           LogEnd, deletes
  <1>2. \/ task' = task
        \/ task[c] # "none" /\ \E p : p # "none" /\ (Let(c) => p \in {"ending", "done", "failed"})
                                   /\ task' = [task EXCEPT ![c] = p]
    BY DEF Exit, Expire, OpenLog, ReadOutput, EndOfOutput, Rotate, Spill, Flush, LogWait,
           LogEnd, Step, Let
  <1>3. \A x \in Commands : (task'[x] = "none") = (task[x] = "none")
    BY <1>2 DEF ReapInv, Lives
  <1>4. \A x \in Commands : Let(x) => Let(x)'
    BY <1>2 DEF ReapInv, Lives, Let
  <1> QED BY <1>1, <1>3, <1>4, OpenNumber

(* The log task closes the number; if it is another command's by now, its   *)
(* own was closed by a DELETE.                                              *)
LEMMA LogCloseNumber ==
  ASSUME NumberInv, ReapInv, NEW c \in Commands, LogClose(c)
  PROVE  NumberInv'
  <1>1. /\ task[c] = "closing" /\ Close(c) /\ UNCHANGED <<fd, del, target>>
        /\ \E p \in {"rotating end", "ending"} : task' = [task EXCEPT ![c] = p]
    BY DEF LogClose, Step, deletes
  <1>2. /\ \A x \in Commands : (task'[x] = "none") = (task[x] = "none")
        /\ \A x \in Commands : Let(x) => Let(x)'
        /\ Let(c)'
    BY <1>1 DEF ReapInv, Lives, Let
  <1>3. fd[c] \in Fds /\ (table[fd[c]] = c \/ \E d \in Deletes : ClosedBy(d, fd[c]))
    BY <1>1 DEF NumberInv, Let
  <1> QED BY <1>1, <1>2, <1>3, CloseNumber

LEMMA DeleteNumber ==
  ASSUME NumberInv, ReapInv, NEW d \in Deletes,
         Delete(d) \/ Stop(d) \/ DeleteWait(d) \/ DeleteClose(d)
  PROVE  NumberInv'
  <1>1. CASE Delete(d) \/ Stop(d) \/ DeleteWait(d)
    <2>1. /\ UNCHANGED <<masters, task>> /\ del[d] # "answered"
          /\ \E p : p # "answered" /\ del' = [del EXCEPT ![d] = p]
          /\ target' = target \/ \E t : target' = [target EXCEPT ![d] = t]
      BY <1>1 DEF Delete, Stop, DeleteWait, Handle
    <2>2. /\ \A e \in Deletes : del[e] = "answered" <=> del'[e] = "answered"
          /\ \A e \in Deletes : del[e] = "answered" => target'[e] = target[e]
      BY <2>1 DEF ReapInv, Lives
    <2> QED BY <2>1, <2>2, OpenNumber DEF Let
  <1>2. CASE DeleteClose(d)
    <2> DEFINE c == target[d]
    <2>1. /\ Close(c) /\ UNCHANGED <<fd, task, target>>
          /\ del[d] = "closing" /\ del' = [del EXCEPT ![d] = "answered"]
      BY <1>2 DEF DeleteClose, Handle
    <2>2. c \in Commands /\ fd[c] \in Fds
      BY <2>1 DEF ReapInv, Handled, NumberInv
    <2>3. del'[d] = "answered" /\ \A e \in Deletes \ {d} : del'[e] = del[e]
      BY <2>1 DEF ReapInv, Lives
    <2>4. ClosedBy(d, fd[c])' BY <2>1, <2>3 DEF ClosedBy
    <2>5. \A x \in Commands : Let(x) => Let(x)' BY <2>1 DEF Let
    <2> QED BY <2>1, <2>2, <2>3, <2>4, <2>5, CloseNumber
  <1> QED BY <1>1, <1>2

LEMMA NextNumber == ReapInv /\ NumberInv /\ [Next]_vars => NumberInv'
  <1> SUFFICES ASSUME ReapInv, NumberInv, [Next]_vars PROVE NumberInv' OBVIOUS
  <1>1. ASSUME UNCHANGED <<masters, task, del, target>> PROVE NumberInv'
    BY <1>1, OpenNumber DEF Let
  <1>2. CASE UNCHANGED vars
    BY <1>1, <1>2 DEF vars, deletes
  <1>3. CASE Ask \/ ReadLine \/ Answer
    BY <1>1, <1>3 DEF Ask, ReadLine, Answer, deletes
  <1> QED BY <1>2, <1>3, ExecuteNumber, LogNumber, LogCloseNumber, DeleteNumber DEF Next

(* A running command has its PTY, whatever closes what: it can only be lost *)
(* to a DELETE of another command whose number the kernel had given out     *)
(* again.                                                                   *)
THEOREM RunningKeepsMaster == Spec => []MastersKept
  <1>1. ReapInv /\ NumberInv => MastersKept
    <2> SUFFICES ASSUME ReapInv, NumberInv, NEW c \in Commands,
                        life[c] = "alive", table[fd[c]] # c
                 PROVE  \E d \in Deletes : /\ del[d] = "answered"
                                           /\ target[d] # c /\ fd[target[d]] = fd[c]
      BY DEF MastersKept
    <2>1. task[c] # "none" /\ ~Let(c)
      BY DEF ReapInv, Recorded, Closing, Exited, Let
    <2>2. PICK d \in Deletes : ClosedBy(d, fd[c]) BY <2>1 DEF NumberInv
    <2>3. Exited(target[d]) BY <2>2 DEF ClosedBy, ReapInv, Handled
    <2> QED BY <2>2, <2>3 DEF ClosedBy, Exited
  <1> QED BY <1>1, InitReap, NextReap, InitNumber, NextNumber, PTL DEF Spec

-----------------------------------------------------------------------------

Lines == [kind : {"start", "entry", "mark", "end"}, n : Nat]

(* A file: a start record or a marker, then entries numbered from what it   *)
(* says, then perhaps the end record.                                       *)
Numbered(lines) ==
    /\ lines \in Seq(Lines) /\ lines # <<>>
    /\ lines[1].kind \in {"start", "mark"}
    /\ lines[1].kind = "start" => lines[1].n = 0
    /\ \A i \in 2..Len(lines) :
         \/ lines[i].kind = "entry" /\ lines[i].n = lines[1].n + i - 2
         \/ lines[i].kind = "end" /\ i = Len(lines)

Part(c) == IF torn[c] THEN 1 ELSE 0

FileTypes ==
    /\ log \in [Commands -> Seq(Lines)] /\ torn \in [Commands -> BOOLEAN]
    /\ entries \in [Commands -> Nat] /\ written \in [Commands -> Nat]
    /\ task \in [Commands -> {"none", "opening", "unlogged", "reading", "rotating",
                              "appending", "waiting", "closing", "rotating end",
                              "ending", "done", "failed"}]
    /\ onDisk \subseteq Commands

NoFile(c) ==
    /\ written[c] = 0 /\ entries[c] = 0 /\ ~torn[c] /\ c \notin onDisk
    /\ task[c] \notin {"reading", "rotating", "appending", "rotating end"}

(* Until the end record the file accounts for every entry.                  *)
Open(c) ==
    /\ Len(log[c]) = written[c] + 1 + Part(c)
    /\ entries[c] + Part(c) = log[c][1].n + Len(log[c]) - 1
    /\ \A i \in 2..Len(log[c]) : log[c][i].kind = "entry"

File(c) ==
    /\ Numbered(log[c])
    /\ log[c][1].n <= entries[c]
    /\ \A i \in 2..Len(log[c]) :
         log[c][i].kind = "entry" /\ ~(torn[c] /\ i = Len(log[c])) =>
             log[c][i].n < entries[c]
    /\ torn[c] => task[c] = "appending"
    /\ task[c] \notin {"none", "opening", "unlogged"}
    /\ task[c] \in {"rotating", "rotating end"} => Full(c)
    /\ task[c] # "done" => Open(c)

FileInv == FileTypes /\ \A c \in Commands : IF log[c] = <<>> THEN NoFile(c) ELSE File(c)

Polls ==
    [phase : {"idle", "reading"}, offset : Nat, tail : BOOLEAN, file : Seq(Lines),
     stale : BOOLEAN, pos : Nat, total : Nat, got : SUBSET Nat, truncated : BOOLEAN,
     broke : BOOLEAN, skewed : BOOLEAN]

Wanted == poll.offset .. (poll.total - 1)

(* What the reader holds, of a file it has open.                            *)
Reading ==
    /\ Numbered(Seen)
    /\ poll.pos <= Len(Seen)
    /\ poll.stale =>
         /\ poll.file[1].n <= entries[Watched]
         /\ \A i \in 2..Len(poll.file) :
              poll.file[i].kind = "entry" => poll.file[i].n < entries[Watched]
    /\ poll.pos = 0 => poll.total = 0 /\ poll.got = {} /\ ~poll.broke
    /\ ~poll.skewed =>
         /\ poll.total <= entries[Watched]
         /\ poll.got \subseteq Wanted
         /\ poll.got # Wanted => poll.truncated
         /\ poll.broke => poll.offset <= poll.total
         /\ ~poll.broke /\ poll.pos > 0 /\ Seen[poll.pos].kind # "end" =>
              poll.total = Seen[1].n + poll.pos - 1

ReadInv ==
    /\ poll \in Polls
    /\ ~poll.skewed => poll.offset <= entries[Watched]
    /\ poll.phase = "idle" => poll = Idle(poll.offset, poll.skewed)
    /\ poll.phase = "reading" => Reading

LEMMA InitFile == Init => FileInv
  BY DEF Init, FileInv, FileTypes, NoFile

(* A file is a nonempty sequence of lines.                                  *)
LEMMA NumberedLines ==
  ASSUME NEW lines, Numbered(lines)
  PROVE  /\ lines \in Seq(Lines) /\ Len(lines) \in Nat /\ Len(lines) >= 1
         /\ \A i \in 1..Len(lines) : lines[i] \in Lines /\ lines[i].n \in Nat
         /\ lines[1].n \in Nat
  <1>1. lines \in Seq(Lines) /\ lines # <<>> BY DEF Numbered
  <1>2. Len(lines) \in Nat /\ Len(lines) >= 1 BY <1>1
  <1>3. \A i \in 1..Len(lines) : lines[i] \in Lines BY <1>1
  <1>4. \A l \in Lines : l.n \in Nat BY DEF Lines
  <1> QED BY <1>1, <1>2, <1>3, <1>4

(* What the marker says of dropped lines: the number of the next entry.     *)
LEMMA DroppedCounts ==
  ASSUME NEW lines, Numbered(lines), \A i \in 2..Len(lines) : lines[i].kind = "entry",
         NEW k \in 1..Len(lines)
  PROVE  Dropped(SubSeq(lines, 1, k)) = lines[1].n + k - 1
  <1>0. /\ lines \in Seq(Lines) /\ Len(lines) \in Nat /\ lines[1].n \in Nat
        /\ k \in Nat /\ k >= 1
    BY NumberedLines
  <1> DEFINE head == SubSeq(lines, 1, k)
             rest == SubSeq(head, 2, k)
             marks == {i \in DOMAIN head : head[i].kind = "mark"}
             m == CHOOSE i \in marks : \A j \in marks : j <= i
  <1>1. /\ head \in Seq(Lines) /\ Len(head) = k /\ DOMAIN head = 1..k
        /\ \A i \in 1..k : head[i] = lines[i]
    BY <1>0
  <1>2. /\ rest \in Seq(Lines) /\ DOMAIN rest = 1..(k - 1)
        /\ \A i \in 1..(k - 1) : rest[i] = lines[i + 1]
    BY <1>0, <1>1
  <1>3. Dropped(head) = IF marks = {} THEN OutputsIn(head)
                        ELSE head[m].n + OutputsIn(SubSeq(head, m + 1, Len(head)))
    <2> HIDE DEF head
    <2> QED BY DEF Dropped
  <1> HIDE DEF head, rest
  <1>4. \A i \in 2..k : head[i].kind = "entry" BY <1>0, <1>1
  <1>5. CASE lines[1].kind = "start"
    <2>1. head[1].kind = "start" BY <1>0, <1>1, <1>5
    <2>2. \A i \in 1..k : i = 1 \/ i \in 2..k BY <1>0
    <2>3. marks = {} BY <1>1, <1>4, <2>1, <2>2
    <2>4. {i \in DOMAIN head : head[i].kind = "entry"} = 2..k BY <1>0, <1>1, <1>4, <2>1, <2>2
    <2>5. Cardinality(2..k) = k - 1
      <3>1. Cardinality(2..k) = IF 2 > k THEN 0 ELSE k - 2 + 1 BY <1>0, FS_Interval
      <3> QED BY <1>0, <3>1
    <2>6. Dropped(head) = k - 1 BY <1>3, <2>3, <2>4, <2>5 DEF OutputsIn
    <2>7. lines[1].n = 0 BY <1>5 DEF Numbered
    <2> QED BY <1>0, <2>6, <2>7 DEF head
  <1>6. CASE lines[1].kind = "mark"
    <2>1. head[1].kind = "mark" BY <1>0, <1>1, <1>6
    <2>2. \A i \in 1..k : i = 1 \/ i \in 2..k BY <1>0
    <2>3. marks = {1} BY <1>0, <1>1, <1>4, <2>1, <2>2
    <2>4. m = 1
      <3> HIDE DEF marks
      <3>1. \E i \in marks : \A j \in marks : j <= i BY <2>3
      <3>2. m \in marks BY <3>1
      <3> QED BY <2>3, <3>2
    <2>5. {i \in DOMAIN rest : rest[i].kind = "entry"} = 1..(k - 1)
      <3>1. \A i \in 1..(k - 1) : i + 1 \in 2..Len(lines) BY <1>0
      <3> QED BY <1>2, <3>1
    <2>6. Cardinality(1..(k - 1)) = k - 1
      <3>1. Cardinality(1..(k - 1)) = IF 1 > k - 1 THEN 0 ELSE (k - 1) - 1 + 1
        BY <1>0, FS_Interval
      <3> QED BY <1>0, <3>1
    <2>7. OutputsIn(rest) = k - 1 BY <2>5, <2>6 DEF OutputsIn
    <2> HIDE DEF m
    <2>8. SubSeq(head, m + 1, Len(head)) = rest BY <1>1, <2>4 DEF rest
    <2>9. head[m] = lines[1] BY <1>0, <1>1, <2>4
    <2>10. Dropped(head) = lines[1].n + (k - 1) BY <1>3, <2>3, <2>7, <2>8, <2>9
    <2> QED BY <1>0, <2>10 DEF head
  <1> QED BY <1>5, <1>6 DEF Numbered

(* A rotated file goes on where the old one stopped.                        *)
LEMMA RotatedNumbered ==
  ASSUME NEW lines, Numbered(lines), \A i \in 2..Len(lines) : lines[i].kind = "entry",
         NEW k \in 1..Len(lines),
         NEW new, new = <<Line("mark", lines[1].n + k - 1)>> \o SubSeq(lines, k + 1, Len(lines))
  PROVE  /\ Numbered(new) /\ \A i \in 2..Len(new) : new[i].kind = "entry"
         /\ Len(new) = Len(lines) - k + 1
         /\ new[1].n = lines[1].n + k - 1
  <1> DEFINE keep == SubSeq(lines, k + 1, Len(lines))
             mark == Line("mark", lines[1].n + k - 1)
  <1>0. /\ lines \in Seq(Lines) /\ Len(lines) \in Nat /\ lines[1].n \in Nat
        /\ k \in Nat /\ k >= 1 /\ k <= Len(lines)
    BY NumberedLines
  <1>1. mark \in Lines /\ mark.kind = "mark" /\ mark.n = lines[1].n + k - 1
    BY <1>0 DEF Line, Lines
  <1>2. /\ keep \in Seq(Lines) /\ Len(keep) = Len(lines) - k
        /\ \A i \in 1..(Len(lines) - k) : keep[i] = lines[k + i]
    BY <1>0
  <1> HIDE DEF keep, mark
  <1>3. new = <<mark>> \o keep BY DEF keep, mark
  <1>4. /\ new \in Seq(Lines) /\ new # <<>> /\ Len(new) = Len(keep) + 1 /\ new[1] = mark
        /\ \A i \in 2..(Len(keep) + 1) : new[i] = keep[i - 1]
    <2> DEFINE one == <<mark>>
    <2>1. one \in Seq(Lines) /\ Len(one) = 1 /\ one[1] = mark BY <1>1
    <2> HIDE DEF one
    <2>2. /\ one \o keep \in Seq(Lines) /\ Len(one \o keep) = Len(one) + Len(keep)
          /\ \A i \in 1..(Len(one) + Len(keep)) :
               (one \o keep)[i] = IF i <= Len(one) THEN one[i] ELSE keep[i - Len(one)]
      BY <1>2, <2>1, ConcatProperties, ZenonT(30)
    <2>3. new = one \o keep BY <1>3 DEF one
    <2>4. /\ new \in Seq(Lines) /\ Len(new) = 1 + Len(keep)
          /\ \A i \in 1..(1 + Len(keep)) :
               new[i] = IF i <= 1 THEN one[i] ELSE keep[i - 1]
      BY <2>1, <2>2, <2>3
    <2>5. Len(keep) \in Nat BY <1>0, <1>2
    <2>6. new[1] = mark BY <2>1, <2>4, <2>5
    <2>7. \A i \in 2..(Len(keep) + 1) : new[i] = keep[i - 1] BY <2>4, <2>5
    <2>8. new # <<>> BY <2>4, <2>5
    <2>9. new \in Seq(Lines) /\ Len(new) = Len(keep) + 1
      <3>1. \A n \in Nat : 1 + n = n + 1 OBVIOUS
      <3> QED BY <2>4, <2>5, <3>1
    <2> QED BY <2>6, <2>7, <2>8, <2>9
  <1>5. \A i \in 2..Len(new) : new[i].kind = "entry" /\ new[i].n = new[1].n + i - 2
    <2>0. \A a, b, j \in Int : a + (b + (j - 1)) - 2 = (a + b - 1) + j - 2 OBVIOUS
    <2> SUFFICES ASSUME NEW i \in 2..Len(new)
                 PROVE  new[i].kind = "entry" /\ new[i].n = new[1].n + i - 2
      OBVIOUS
    <2>1. i \in Nat /\ i - 1 \in 1..(Len(lines) - k) /\ k + (i - 1) \in 2..Len(lines)
      BY <1>0, <1>2, <1>4
    <2>2. new[i] = lines[k + (i - 1)] BY <1>2, <1>4, <2>1
    <2>3. lines[k + (i - 1)].kind = "entry" BY <2>1
    <2>4. lines[k + (i - 1)].n = lines[1].n + (k + (i - 1)) - 2
      BY <2>1, <2>3 DEF Numbered
    <2>5. new[1].n = lines[1].n + k - 1 BY <1>1, <1>4
    <2>6. new[i].n = lines[1].n + (k + (i - 1)) - 2 BY <2>2, <2>4
    <2>7. lines[1].n + (k + (i - 1)) - 2 = (lines[1].n + k - 1) + i - 2
      <3>1. lines[1].n \in Int /\ k \in Int /\ i \in Int BY <1>0, <2>1
      <3> QED BY <2>0, <3>1
    <2> QED BY <2>2, <2>3, <2>5, <2>6, <2>7
  <1> QED BY <1>0, <1>1, <1>2, <1>4, <1>5 DEF Numbered

(* One more entry.                                                          *)
LEMMA EntryNumbered ==
  ASSUME NEW lines, Numbered(lines), \A i \in 2..Len(lines) : lines[i].kind = "entry",
         NEW new, new = Append(lines, Line("entry", lines[1].n + Len(lines) - 1))
  PROVE  /\ Numbered(new) /\ \A i \in 2..Len(new) : new[i].kind = "entry"
         /\ Len(new) = Len(lines) + 1 /\ \A i \in 1..Len(lines) : new[i] = lines[i]
  <1> DEFINE n == lines[1].n + Len(lines) - 1
  <1>1. lines \in Seq(Lines) /\ Len(lines) \in Nat /\ Len(lines) >= 1 /\ lines[1].n \in Nat
    BY NumberedLines
  <1>2. n \in Nat BY <1>1
  <1> HIDE DEF n
  <1>3. Line("entry", n) \in Lines BY <1>2 DEF Line, Lines
  <1>4. /\ new \in Seq(Lines) /\ new # <<>> /\ Len(new) = Len(lines) + 1
        /\ \A i \in 1..Len(lines) : new[i] = lines[i]
        /\ new[Len(new)] = Line("entry", n)
    BY <1>1, <1>3 DEF n
  <1>5. new[1] = lines[1] BY <1>1, <1>4
  <1>6. \A i \in 2..Len(new) : new[i].kind = "entry" /\ new[i].n = new[1].n + i - 2
    <2> SUFFICES ASSUME NEW i \in 2..Len(new)
                 PROVE  new[i].kind = "entry" /\ new[i].n = new[1].n + i - 2
      OBVIOUS
    <2>1. CASE i = Len(new)
      <3>1. new[i].kind = "entry" /\ new[i].n = n BY <1>4, <2>1 DEF Line
      <3>2. \A a \in Nat : a + Len(lines) - 1 = a + (Len(lines) + 1) - 2 BY <1>1
      <3> QED BY <1>1, <1>4, <1>5, <2>1, <3>1, <3>2 DEF n
    <2>2. CASE i \in 2..Len(lines)
      <3>1. lines[i].kind = "entry" /\ lines[i].n = lines[1].n + i - 2 BY <2>2 DEF Numbered
      <3> QED BY <1>1, <1>4, <1>5, <2>2, <3>1
    <2> QED BY <1>1, <1>4, <2>1, <2>2
  <1>7. Numbered(new) BY <1>4, <1>5, <1>6 DEF Numbered
  <1> QED BY <1>4, <1>6, <1>7

(* The end record.                                                          *)
LEMMA EndNumbered ==
  ASSUME NEW lines, Numbered(lines), \A i \in 2..Len(lines) : lines[i].kind = "entry",
         NEW new, new = Append(lines, Line("end", 0))
  PROVE  /\ Numbered(new)
         /\ Len(new) = Len(lines) + 1 /\ \A i \in 1..Len(lines) : new[i] = lines[i]
         /\ new[Len(new)] = Line("end", 0)
  <1>1. lines \in Seq(Lines) /\ Len(lines) \in Nat /\ Len(lines) >= 1 /\ lines[1].n \in Nat
    BY NumberedLines
  <1>2. Line("end", 0) \in Lines BY DEF Line, Lines
  <1>3. /\ new \in Seq(Lines) /\ new # <<>> /\ Len(new) = Len(lines) + 1
        /\ \A i \in 1..Len(lines) : new[i] = lines[i]
        /\ new[Len(new)] = Line("end", 0)
    BY <1>1, <1>2
  <1>4. new[1] = lines[1] BY <1>1, <1>3
  <1>5. ASSUME NEW i \in 2..Len(new)
        PROVE  \/ new[i].kind = "entry" /\ new[i].n = new[1].n + i - 2
               \/ new[i].kind = "end" /\ i = Len(new)
    <2>1. CASE i = Len(new) BY <1>3, <2>1 DEF Line
    <2>2. CASE i \in 2..Len(lines)
      <3>1. lines[i].kind = "entry" /\ lines[i].n = lines[1].n + i - 2 BY <2>2 DEF Numbered
      <3> QED BY <1>3, <1>4, <2>2, <3>1
    <2> QED BY <1>1, <1>3, <1>5, <2>1, <2>2
  <1> QED BY <1>3, <1>4, <1>5 DEF Numbered

(* A step of one command's log, the others' untouched.                      *)
LEMMA OneFile ==
  ASSUME FileInv, FileTypes', NEW c \in Commands,
         \A x \in Commands \ {c} :
            /\ log'[x] = log[x] /\ torn'[x] = torn[x] /\ entries'[x] = entries[x]
            /\ written'[x] = written[x] /\ task'[x] = task[x]
            /\ x \in onDisk' => x \in onDisk,
         IF log'[c] = <<>> THEN NoFile(c)' ELSE File(c)'
  PROVE  FileInv'
  <1>1. ASSUME NEW x \in Commands \ {c}
        PROVE  IF log'[x] = <<>> THEN NoFile(x)' ELSE File(x)'
    <2>1. IF log[x] = <<>> THEN NoFile(x) ELSE File(x) BY DEF FileInv
    <2>2. NoFile(x) => NoFile(x)' BY DEF NoFile
    <2>3. File(x) => File(x)' BY DEF File, Open, Part, Full
    <2> QED BY <2>1, <2>2, <2>3
  <1> QED BY <1>1 DEF FileInv

LEMMA QuietFile ==
  ASSUME FileInv, UNCHANGED <<entries, log, torn, written, task>>, onDisk' \subseteq onDisk
  PROVE  FileInv'
  <1>1. ASSUME NEW x \in Commands
        PROVE  IF log'[x] = <<>> THEN NoFile(x)' ELSE File(x)'
    <2>1. IF log[x] = <<>> THEN NoFile(x) ELSE File(x) BY DEF FileInv
    <2>2. NoFile(x) => NoFile(x)' BY DEF NoFile
    <2>3. File(x) => File(x)' BY DEF File, Open, Part, Full
    <2> QED BY <2>1, <2>2, <2>3
  <1>2. FileTypes' BY DEF FileInv, FileTypes
  <1> QED BY <1>1, <1>2 DEF FileInv

(* A step of the log task that leaves its file alone.                       *)
LEMMA TaskFile ==
  ASSUME FileInv, NEW c \in Commands, UNCHANGED file,
         NEW p \in {"opening", "rotating", "appending", "waiting", "closing",
                    "rotating end", "ending", "failed"},
         Step(c, p), task[c] \notin {"appending", "done"},
         log[c] = <<>> => p \notin {"rotating", "appending", "rotating end"},
         log[c] # <<>> => p # "opening",
         p \in {"rotating", "rotating end"} => Full(c)
  PROVE  FileInv'
  <1>1. FileTypes' BY DEF FileInv, FileTypes, Step, file
  <1>2. task'[c] = p /\ \A x \in Commands \ {c} : task'[x] = task[x]
    BY DEF Step, FileInv, FileTypes
  <1>3. CASE log[c] = <<>>
    <2>1. NoFile(c) BY <1>3 DEF FileInv
    <2>2. NoFile(c)' BY <1>2, <1>3, <2>1 DEF NoFile, file
    <2> QED BY <1>1, <1>2, <1>3, <2>2, OneFile DEF file
  <1>4. CASE log[c] # <<>>
    <2>1. File(c) BY <1>4 DEF FileInv
    <2>2. File(c)' BY <1>2, <1>4, <2>1 DEF File, Open, Part, Full, file
    <2> QED BY <1>1, <1>2, <1>4, <2>2, OneFile DEF file
  <1> QED BY <1>3, <1>4

(* What the log task is doing says whether there is a file.                 *)
LEMMA FileByTask ==
  ASSUME FileInv, NEW c \in Commands
  PROVE  /\ task[c] \in {"none", "opening", "unlogged"} => log[c] = <<>>
         /\ task[c] \in {"reading", "rotating", "appending", "rotating end"} =>
              log[c] # <<>> /\ File(c)
         /\ log[c] = <<>> => ~Full(c)
  <1>1. CASE log[c] = <<>>
    <2>1. NoFile(c) BY <1>1 DEF FileInv
    <2>2. Capacity \in Nat /\ Capacity >= 1 BY ProcessesAssumption
    <2>3. written[c] = 0 BY <2>1 DEF NoFile
    <2>4. ~Full(c) BY <2>2, <2>3 DEF Full
    <2> QED BY <1>1, <2>1, <2>4 DEF NoFile
  <1>2. CASE log[c] # <<>>
    <2>1. File(c) BY <1>2 DEF FileInv
    <2>2. task[c] \notin {"none", "opening", "unlogged"} BY <2>1 DEF File
    <2> QED BY <1>2, <2>1, <2>2
  <1> QED BY <1>1, <1>2

LEMMA CommandFile ==
  ASSUME FileInv, NEW c \in Commands,
         \/ Execute(c) \/ Exit(c) \/ Expire(c) \/ ReadOutput(c) \/ EndOfOutput(c)
         \/ LogWait(c) \/ LogClose(c)
  PROVE  FileInv'
  <1>1. CASE Execute(c)
    <2>1. log[c] = <<>> BY <1>1, FileByTask DEF Execute
    <2> QED BY <1>1, <2>1, TaskFile DEF Execute
  <1>2. CASE Exit(c) BY <1>2, QuietFile DEF Exit, file
  <1>3. CASE Expire(c)
    <2>1. onDisk' \subseteq onDisk BY <1>3 DEF Expire
    <2> QED BY <1>3, <2>1, QuietFile DEF Expire
  <1>4. CASE ReadOutput(c)
    <2>1. log[c] # <<>> /\ task[c] = "reading" /\ UNCHANGED file
      BY <1>4, FileByTask DEF ReadOutput
    <2>2. CASE Full(c) BY <1>4, <2>1, <2>2, TaskFile DEF ReadOutput
    <2>3. CASE ~Full(c) BY <1>4, <2>1, <2>3, TaskFile DEF ReadOutput
    <2> QED BY <2>2, <2>3
  <1>5. CASE EndOfOutput(c) BY <1>5, TaskFile DEF EndOfOutput
  <1>6. CASE LogWait(c) BY <1>6, TaskFile DEF LogWait
  <1>7. CASE LogClose(c)
    <2>1. Full(c) => log[c] # <<>> BY FileByTask
    <2>2. CASE Full(c) BY <1>7, <2>1, <2>2, TaskFile DEF LogClose
    <2>3. CASE ~Full(c) BY <1>7, <2>3, TaskFile DEF LogClose
    <2> QED BY <2>2, <2>3
  <1> QED BY <1>1, <1>2, <1>3, <1>4, <1>5, <1>6, <1>7

LEMMA OpenFile ==
  ASSUME FileInv, NEW c \in Commands, OpenLog(c)
  PROVE  FileInv'
  <1>1. log[c] = <<>> /\ NoFile(c) BY FileByTask DEF OpenLog, FileInv
  <1>2. CASE Step(c, "unlogged") /\ UNCHANGED <<log, onDisk>>
    <2>1. FileTypes' BY <1>2 DEF OpenLog, FileInv, FileTypes, Step
    <2>2. NoFile(c)' BY <1>1, <1>2 DEF OpenLog, NoFile, FileInv, FileTypes, Step
    <2>3. \A x \in Commands \ {c} : task'[x] = task[x] BY <1>2 DEF Step, FileInv, FileTypes
    <2> QED BY <1>1, <1>2, <2>1, <2>2, <2>3, OneFile DEF OpenLog
  <1>3. CASE /\ log' = [log EXCEPT ![c] = <<Line("start", 0)>>]
             /\ onDisk' = onDisk \cup {c} /\ Step(c, "reading")
    <2>1. Line("start", 0) \in Lines BY DEF Line, Lines
    <2>2. FileTypes'
      <3>1. <<Line("start", 0)>> \in Seq(Lines) BY <2>1
      <3> QED BY <1>3, <3>1 DEF OpenLog, FileInv, FileTypes, Step
    <2>3. log'[c] = <<Line("start", 0)>> /\ task'[c] = "reading"
      BY <1>3 DEF FileInv, FileTypes, Step
    <2>4. Len(log'[c]) = 1 /\ log'[c][1] = Line("start", 0) /\ log'[c] # <<>>
      BY <2>1, <2>3
    <2>5. Numbered(log'[c])
      <3>1. <<Line("start", 0)>> \in Seq(Lines) BY <2>1
      <3>2. Line("start", 0).kind = "start" /\ Line("start", 0).n = 0 BY DEF Line
      <3> QED BY <2>3, <2>4, <3>1, <3>2 DEF Numbered
    <2>6. UNCHANGED <<entries, torn, written>> BY DEF OpenLog
    <2>7. File(c)'
      <3>1. log'[c][1].n = 0 BY <2>4 DEF Line
      <3>2. entries'[c] = 0 /\ written'[c] = 0 /\ ~torn'[c] BY <1>1, <2>6 DEF NoFile
      <3>3. 2..Len(log'[c]) = {} BY <2>4
      <3>4. Open(c)' BY <2>4, <3>1, <3>2, <3>3 DEF Open, Part
      <3> QED BY <2>3, <2>5, <3>1, <3>2, <3>3, <3>4 DEF File
    <2>8. \A x \in Commands \ {c} :
            log'[x] = log[x] /\ task'[x] = task[x] /\ (x \in onDisk' => x \in onDisk)
      BY <1>3 DEF FileInv, FileTypes, Step
    <2> QED BY <2>2, <2>4, <2>6, <2>7, <2>8, OneFile
  <1> QED BY <1>2, <1>3 DEF OpenLog

LEMMA SpillFile ==
  ASSUME FileInv, NEW c \in Commands, Spill(c)
  PROVE  FileInv'
  <1> DEFINE new == Append(log[c], Line("entry", entries[c]))
  <1>1. /\ log[c] # <<>> /\ File(c) /\ ~torn[c] /\ task[c] = "appending"
        /\ log' = [log EXCEPT ![c] = new] /\ torn' = [torn EXCEPT ![c] = TRUE]
        /\ UNCHANGED <<task, entries, written, onDisk>>
    BY FileByTask DEF Spill
  <1>2. /\ log \in [Commands -> Seq(Lines)] /\ torn \in [Commands -> BOOLEAN]
        /\ entries[c] \in Nat /\ written[c] \in Nat
    BY DEF FileInv, FileTypes
  <1>3. Numbered(log[c]) /\ Open(c) BY <1>1 DEF File
  <1>4. Len(log[c]) \in Nat /\ Len(log[c]) >= 1 /\ log[c][1].n \in Nat
    BY <1>3, NumberedLines
  <1>5. /\ entries[c] = log[c][1].n + Len(log[c]) - 1 /\ Len(log[c]) = written[c] + 1
        /\ \A i \in 2..Len(log[c]) : log[c][i].kind = "entry"
    <2>1. Part(c) = 0 BY <1>1 DEF Part
    <2> QED BY <1>2, <1>3, <1>4, <2>1 DEF Open
  <1>6. /\ Numbered(new) /\ \A i \in 2..Len(new) : new[i].kind = "entry"
        /\ Len(new) = Len(log[c]) + 1 /\ \A i \in 1..Len(log[c]) : new[i] = log[c][i]
    <2>1. entries[c] = log[c][1].n + Len(log[c]) - 1 BY <1>5
    <2> QED BY <1>3, <1>5, <2>1, EntryNumbered
  <1> HIDE DEF new
  <1>7. new \in Seq(Lines) /\ new # <<>> BY <1>6 DEF Numbered
  <1>8. log'[c] = new /\ torn'[c] = TRUE BY <1>1, <1>2
  <1>9. FileTypes' BY <1>1, <1>7 DEF FileInv, FileTypes
  <1>10. new[1] = log[c][1] BY <1>4, <1>6
  <1>11. Open(c)'
    <2>1. Part(c)' = 1 BY <1>8 DEF Part
    <2>2. Len(log'[c]) = written'[c] + 1 + 1 BY <1>1, <1>2, <1>4, <1>5, <1>6, <1>8
    <2>3. entries'[c] + 1 = log'[c][1].n + Len(log'[c]) - 1
      <3>1. \A a, l \in Nat : (a + l - 1) + 1 = a + (l + 1) - 1 OBVIOUS
      <3>2. entries[c] + 1 = log[c][1].n + (Len(log[c]) + 1) - 1 BY <1>4, <1>5, <3>1
      <3> QED BY <1>1, <1>6, <1>8, <1>10, <3>2
    <2>4. \A i \in 2..Len(log'[c]) : log'[c][i].kind = "entry" BY <1>6, <1>8
    <2> QED BY <2>1, <2>2, <2>3, <2>4 DEF Open
  <1>12. \A i \in 2..Len(new) : i # Len(new) => new[i].n < entries[c]
    <2> SUFFICES ASSUME NEW i \in 2..Len(new), i # Len(new) PROVE new[i].n < entries[c]
      OBVIOUS
    <2>1. i \in 2..Len(log[c]) BY <1>4, <1>6
    <2>2. new[i] = log[c][i] BY <1>6, <2>1
    <2> QED BY <1>1, <1>5, <2>1, <2>2 DEF File
  <1>13. log[c][1].n <= entries[c] BY <1>1 DEF File
  <1>14. File(c)' BY <1>1, <1>6, <1>8, <1>10, <1>11, <1>12, <1>13 DEF File
  <1> QED BY <1>1, <1>2, <1>7, <1>8, <1>9, <1>14, OneFile

LEMMA FlushFile ==
  ASSUME FileInv, NEW c \in Commands, Flush(c)
  PROVE  FileInv'
  <1> DEFINE new == IF torn[c] THEN log[c] ELSE Append(log[c], Line("entry", entries[c]))
  <1>1. /\ log[c] # <<>> /\ File(c) /\ task[c] = "appending"
        /\ torn' = [torn EXCEPT ![c] = FALSE]
        /\ entries' = [entries EXCEPT ![c] = @ + 1]
        /\ written' = [written EXCEPT ![c] = @ + 1]
        /\ task' = [task EXCEPT ![c] = "reading"] /\ UNCHANGED onDisk
    BY FileByTask DEF Flush, Step
  <1>2. /\ log \in [Commands -> Seq(Lines)] /\ torn \in [Commands -> BOOLEAN]
        /\ entries \in [Commands -> Nat] /\ written \in [Commands -> Nat]
        /\ DOMAIN task = Commands
    BY DEF FileInv, FileTypes
  <1>3. Numbered(log[c]) /\ Open(c) BY <1>1 DEF File
  <1>4. Len(log[c]) \in Nat /\ Len(log[c]) >= 1 /\ log[c][1].n \in Nat
    BY <1>3, NumberedLines
  <1>5. log' = [log EXCEPT ![c] = new] BY <1>2 DEF Flush
  <1>6. /\ Numbered(new) /\ \A i \in 2..Len(new) : new[i].kind = "entry"
        /\ Len(new) = written[c] + 2 /\ new[1] = log[c][1]
        /\ entries[c] + 1 = new[1].n + Len(new) - 1
    <2>1. CASE torn[c] BY <1>2, <1>3, <1>4, <2>1 DEF Open, Part
    <2>2. CASE ~torn[c]
      <3>1. /\ entries[c] = log[c][1].n + Len(log[c]) - 1 /\ Len(log[c]) = written[c] + 1
            /\ \A i \in 2..Len(log[c]) : log[c][i].kind = "entry"
        <4>1. Part(c) = 0 BY <2>2 DEF Part
        <4> QED BY <1>2, <1>3, <1>4, <4>1 DEF Open
      <3> DEFINE more == Append(log[c], Line("entry", entries[c]))
      <3>2. entries[c] = log[c][1].n + Len(log[c]) - 1 BY <3>1
      <3>3. /\ Numbered(more) /\ \A i \in 2..Len(more) : more[i].kind = "entry"
            /\ Len(more) = Len(log[c]) + 1 /\ \A i \in 1..Len(log[c]) : more[i] = log[c][i]
        BY <1>3, <3>1, <3>2, EntryNumbered
      <3>4. new = more BY <2>2
      <3> HIDE DEF new, more
      <3>5. new[1] = log[c][1] BY <1>4, <3>3, <3>4
      <3>6. Len(new) = written[c] + 2
        <4>1. written[c] \in Nat BY <1>2
        <4> QED BY <1>4, <3>1, <3>3, <3>4, <4>1
      <3>7. entries[c] + 1 = new[1].n + Len(new) - 1
        <4>1. \A a, l \in Nat : (a + l - 1) + 1 = a + (l + 1) - 1 OBVIOUS
        <4>2. (log[c][1].n + Len(log[c]) - 1) + 1 = log[c][1].n + (Len(log[c]) + 1) - 1
          BY <1>4, <4>1
        <4> QED BY <3>2, <3>3, <3>4, <3>5, <4>2
      <3> QED BY <3>3, <3>4, <3>5, <3>6, <3>7
    <2> QED BY <2>1, <2>2
  <1> HIDE DEF new
  <1>7. /\ log'[c] = new /\ torn'[c] = FALSE /\ entries'[c] = entries[c] + 1
        /\ written'[c] = written[c] + 1 /\ task'[c] = "reading"
    BY <1>1, <1>2, <1>5
  <1>8. new \in Seq(Lines) /\ new # <<>> BY <1>6 DEF Numbered
  <1>9. FileTypes'
    <2>1. log' \in [Commands -> Seq(Lines)] BY <1>2, <1>5, <1>8
    <2>2. entries' \in [Commands -> Nat] /\ written' \in [Commands -> Nat] BY <1>1, <1>2
    <2> QED BY <1>1, <2>1, <2>2 DEF FileInv, FileTypes
  <1>10. Open(c)' BY <1>2, <1>6, <1>7 DEF Open, Part
  <1>11. \A i \in 2..Len(new) : new[i].n < entries[c] + 1
    <2> SUFFICES ASSUME NEW i \in 2..Len(new) PROVE new[i].n < entries[c] + 1 OBVIOUS
    <2>1. new[i].n = new[1].n + i - 2 BY <1>6 DEF Numbered
    <2> QED BY <1>2, <1>4, <1>6, <2>1
  <1>12. new[1].n <= entries[c] + 1 BY <1>2, <1>4, <1>6
  <1>13. File(c)' BY <1>6, <1>7, <1>10, <1>11, <1>12 DEF File
  <1> QED BY <1>1, <1>2, <1>5, <1>7, <1>8, <1>9, <1>13, OneFile

LEMMA RotateFile ==
  ASSUME FileInv, NEW c \in Commands, Rotate(c)
  PROVE  FileInv'
  <1> DEFINE split == Len(log[c]) \div 2
             new == <<Line("mark", Dropped(SubSeq(log[c], 1, split)))>>
                      \o SubSeq(log[c], split + 1, Len(log[c]))
  <1>1. /\ log[c] # <<>> /\ File(c) /\ Full(c) /\ ~torn[c]
        /\ task[c] \in {"rotating", "rotating end"}
        /\ log' = [log EXCEPT ![c] = new]
        /\ written' = [written EXCEPT ![c] = Len(SubSeq(log[c], split + 1, Len(log[c])))]
        /\ onDisk' = onDisk \cup {c} /\ UNCHANGED <<entries, torn>>
        /\ task' = [task EXCEPT ![c] = IF task[c] = "rotating" THEN "appending" ELSE "ending"]
    BY FileByTask DEF Rotate, File, Step
  <1>2. /\ log \in [Commands -> Seq(Lines)] /\ torn \in [Commands -> BOOLEAN]
        /\ entries \in [Commands -> Nat] /\ written \in [Commands -> Nat]
        /\ DOMAIN task = Commands
    BY DEF FileInv, FileTypes
  <1>3. Numbered(log[c]) /\ Open(c) BY <1>1 DEF File
  <1>4. /\ log[c] \in Seq(Lines) /\ Len(log[c]) \in Nat /\ Len(log[c]) >= 1
        /\ log[c][1].n \in Nat
    BY <1>3, NumberedLines
  <1>5. /\ entries[c] = log[c][1].n + Len(log[c]) - 1 /\ Len(log[c]) = written[c] + 1
        /\ \A i \in 2..Len(log[c]) : log[c][i].kind = "entry"
    <2>1. Part(c) = 0 BY <1>1 DEF Part
    <2> QED BY <1>2, <1>3, <1>4, <2>1 DEF Open
  <1>6. Len(log[c]) >= 2
    <2>1. Capacity \in Nat /\ Capacity >= 1 BY ProcessesAssumption
    <2>2. written[c] + 1 > Capacity BY <1>1 DEF Full
    <2>3. written[c] \in Nat BY <1>2
    <2> QED BY <1>5, <2>1, <2>2, <2>3
  <1>7. split \in 1..Len(log[c]) /\ split + 1 \in Nat
    <2>1. \A n \in Nat : n >= 2 => n \div 2 \in 1..n /\ n \div 2 + 1 \in Nat OBVIOUS
    <2> QED BY <1>4, <1>6, <2>1
  <1> HIDE DEF split
  <1>8. Len(SubSeq(log[c], split + 1, Len(log[c]))) = Len(log[c]) - split BY <1>4, <1>7
  <1>9. Dropped(SubSeq(log[c], 1, split)) = log[c][1].n + split - 1
    BY <1>3, <1>5, <1>7, DroppedCounts
  <1>10. /\ Numbered(new) /\ \A i \in 2..Len(new) : new[i].kind = "entry"
         /\ Len(new) = Len(log[c]) - split + 1 /\ new[1].n = log[c][1].n + split - 1
    BY <1>3, <1>5, <1>7, <1>9, RotatedNumbered
  <1> HIDE DEF new
  <1>11. /\ log'[c] = new /\ torn'[c] = FALSE /\ entries'[c] = entries[c]
         /\ written'[c] = Len(log[c]) - split /\ task'[c] \in {"appending", "ending"}
    BY <1>1, <1>2, <1>8
  <1>12. new \in Seq(Lines) /\ new # <<>> BY <1>10 DEF Numbered
  <1>13. FileTypes'
    <2>1. Len(log[c]) - split \in Nat BY <1>4, <1>7
    <2>2. written' \in [Commands -> Nat] BY <1>1, <1>2, <1>8, <2>1
    <2> QED BY <1>1, <1>12, <2>2 DEF FileInv, FileTypes
  <1>14. Open(c)'
    <2>1. Part(c)' = 0 BY <1>11 DEF Part
    <2>2. entries[c] \in Nat BY <1>2
    <2>3. Len(log'[c]) = written'[c] + 1 + 0 BY <1>4, <1>7, <1>10, <1>11
    <2>4. entries'[c] + 0 = log'[c][1].n + Len(log'[c]) - 1
      <3>1. \A a, b, k \in Int : (a + b - 1) + 0 = (a + k - 1) + (b - k + 1) - 1 OBVIOUS
      <3>2. split \in Int /\ Len(log[c]) \in Int /\ log[c][1].n \in Int BY <1>4, <1>7
      <3>3. (log[c][1].n + Len(log[c]) - 1) + 0
              = (log[c][1].n + split - 1) + (Len(log[c]) - split + 1) - 1
        BY <3>1, <3>2
      <3> QED BY <1>5, <1>10, <1>11, <3>3
    <2>5. \A i \in 2..Len(log'[c]) : log'[c][i].kind = "entry" BY <1>10, <1>11
    <2> QED BY <2>1, <2>3, <2>4, <2>5 DEF Open
  <1>15. \A i \in 2..Len(new) : new[i].n < entries[c]
    <2> SUFFICES ASSUME NEW i \in 2..Len(new) PROVE new[i].n < entries[c] OBVIOUS
    <2>1. new[i].n = new[1].n + i - 2 BY <1>10 DEF Numbered
    <2>2. \A a, b, k, j \in Int : j <= b - k + 1 => (a + k - 1) + j - 2 < a + b - 1 OBVIOUS
    <2>3. i \in Int /\ i <= Len(log[c]) - split + 1 BY <1>4, <1>7, <1>10
    <2>4. split \in Int /\ Len(log[c]) \in Int /\ log[c][1].n \in Int BY <1>4, <1>7
    <2>5. (log[c][1].n + split - 1) + i - 2 < log[c][1].n + Len(log[c]) - 1
      BY <2>2, <2>3, <2>4
    <2> QED BY <1>5, <1>10, <2>1, <2>5
  <1>16. new[1].n <= entries[c]
    <2>1. \A a, b, k \in Int : k <= b => a + k - 1 <= a + b - 1 OBVIOUS
    <2>2. /\ split \in Int /\ Len(log[c]) \in Int /\ log[c][1].n \in Int
          /\ split <= Len(log[c])
      BY <1>4, <1>7
    <2>3. log[c][1].n + split - 1 <= log[c][1].n + Len(log[c]) - 1 BY <2>1, <2>2
    <2> QED BY <1>5, <1>10, <2>3
  <1>17. File(c)' BY <1>10, <1>11, <1>14, <1>15, <1>16 DEF File
  <1> QED BY <1>1, <1>2, <1>11, <1>12, <1>13, <1>17, OneFile

LEMMA EndFile ==
  ASSUME FileInv, NEW c \in Commands, LogEnd(c)
  PROVE  FileInv'
  <1>1. task[c] = "ending" /\ UNCHANGED <<entries, torn, written, onDisk>> BY DEF LogEnd
  <1>2. /\ log \in [Commands -> Seq(Lines)] /\ torn[c] \in BOOLEAN
        /\ entries[c] \in Nat /\ DOMAIN task = Commands
    BY DEF FileInv, FileTypes
  <1>3. CASE UNCHANGED log /\ Step(c, "failed") BY <1>1, <1>3, TaskFile DEF file
  <1>4. CASE UNCHANGED log /\ log[c] = <<>> /\ Step(c, "done")
    <2>1. NoFile(c) BY <1>4 DEF FileInv
    <2>2. task'[c] = "done" /\ \A x \in Commands \ {c} : task'[x] = task[x]
      BY <1>2, <1>4 DEF Step
    <2>3. NoFile(c)' BY <1>1, <2>1, <2>2 DEF NoFile
    <2>4. FileTypes' BY <1>1, <1>4 DEF FileInv, FileTypes, Step
    <2> QED BY <1>1, <1>4, <2>2, <2>3, <2>4, OneFile
  <1>5. CASE /\ log[c] # <<>> /\ Step(c, "done")
             /\ log' = [log EXCEPT ![c] = Append(log[c], Line("end", 0))]
    <2> DEFINE new == Append(log[c], Line("end", 0))
    <2>1. File(c) /\ Numbered(log[c]) /\ Open(c) /\ ~torn[c]
      BY <1>1, <1>5 DEF FileInv, File
    <2>2. Len(log[c]) \in Nat /\ Len(log[c]) >= 1 BY <2>1, NumberedLines
    <2>3. \A i \in 2..Len(log[c]) : log[c][i].kind = "entry" BY <2>1 DEF Open
    <2>4. /\ Numbered(new) /\ Len(new) = Len(log[c]) + 1
          /\ \A i \in 1..Len(log[c]) : new[i] = log[c][i]
          /\ new[Len(new)] = Line("end", 0)
      BY <2>1, <2>3, EndNumbered
    <2> HIDE DEF new
    <2>5. new \in Seq(Lines) /\ new # <<>> BY <2>4 DEF Numbered
    <2>6. FileTypes' BY <1>1, <1>5, <2>5 DEF FileInv, FileTypes, Step, new
    <2>7. log'[c] = new /\ task'[c] = "done"
      BY <1>2, <1>5 DEF Step, new
    <2>8. new[1] = log[c][1] BY <2>2, <2>4
    <2>9. ASSUME NEW i \in 2..Len(new), new[i].kind = "entry" PROVE new[i].n < entries[c]
      <3>1. i # Len(new) BY <2>4, <2>9 DEF Line
      <3>2. i \in 2..Len(log[c]) BY <2>2, <2>4, <3>1
      <3>3. new[i] = log[c][i] /\ log[c][i].kind = "entry" BY <2>3, <2>4, <3>2
      <3>4. log[c][i].n < entries[c] BY <2>1, <3>2, <3>3 DEF File
      <3> QED BY <3>3, <3>4
    <2>10. File(c)' BY <1>1, <2>1, <2>4, <2>7, <2>8, <2>9 DEF File
    <2>11. \A x \in Commands \ {c} : task'[x] = task[x] /\ log'[x] = log[x]
      BY <1>2, <1>5 DEF Step
    <2> QED BY <1>1, <2>5, <2>6, <2>7, <2>10, <2>11, OneFile
  <1> QED BY <1>3, <1>4, <1>5 DEF LogEnd

LEMMA NextFile == FileInv /\ [Next]_vars => FileInv'
  <1> SUFFICES ASSUME FileInv, [Next]_vars PROVE FileInv' OBVIOUS
  <1>1. ASSUME UNCHANGED <<task, file>> PROVE FileInv' BY <1>1, QuietFile DEF file
  <1>2. CASE UNCHANGED vars BY <1>1, <1>2 DEF vars
  <1>3. CASE Ask \/ ReadLine \/ Answer BY <1>1, <1>3 DEF Ask, ReadLine, Answer
  <1>4. CASE \E d \in Deletes : Delete(d) \/ Stop(d) \/ DeleteWait(d) \/ DeleteClose(d)
    BY <1>1, <1>4 DEF Delete, Stop, DeleteWait, DeleteClose
  <1> QED
    BY <1>2, <1>3, <1>4, CommandFile, OpenFile, SpillFile, FlushFile, RotateFile, EndFile
       DEF Next

(* The reader.                                                              *)

LEMMA InitRead == Init => ReadInv
  <1> SUFFICES ASSUME Init PROVE ReadInv OBVIOUS
  <1>1. poll = Idle(0, FALSE) BY DEF Init
  <1>2. poll \in Polls /\ poll.phase = "idle" /\ poll.offset = 0 /\ poll.skewed = FALSE
    <2>1. <<>> \in Seq(Lines) OBVIOUS
    <2> QED BY <1>1, <2>1 DEF Idle, Polls
  <1>3. entries[Watched] = 0 BY ProcessesAssumption DEF Init
  <1>4. poll.offset <= entries[Watched] BY <1>2, <1>3
  <1>5. poll = Idle(poll.offset, poll.skewed) BY <1>1, <1>2
  <1> QED BY <1>2, <1>4, <1>5 DEF ReadInv

(* Steps of the log that leave what was read so far where it is.            *)
LEMMA GrowRead ==
  ASSUME ReadInv, FileInv, FileInv', UNCHANGED poll, entries'[Watched] >= entries[Watched],
         \/ log'[Watched] = log[Watched]
         \/ /\ log[Watched] # <<>> => /\ Len(log'[Watched]) >= Len(log[Watched])
                                      /\ \A i \in 1..Len(log[Watched]) :
                                           log'[Watched][i] = log[Watched][i]
            /\ log'[Watched] # <<>>
  PROVE  ReadInv'
  <1>1. poll \in Polls /\ Watched \in Commands /\ entries'[Watched] \in Nat
        /\ entries[Watched] \in Nat
    BY ProcessesAssumption DEF ReadInv, FileInv, FileTypes
  <1>2. CASE poll.phase = "idle"
    BY <1>1, <1>2 DEF ReadInv, Idle, Polls
  <1>3. CASE poll.phase = "reading"
    <2>1. Reading BY <1>3 DEF ReadInv
    <2>2. /\ Numbered(Seen') /\ poll.pos <= Len(Seen')
          /\ Len(Seen') >= 1 /\ Seen'[1] = Seen[1]
          /\ poll.pos > 0 => Seen'[poll.pos] = Seen[poll.pos]
      <3>1. Numbered(Seen) /\ poll.pos <= Len(Seen) BY <2>1 DEF Reading
      <3>2. Len(Seen) \in Nat /\ Len(Seen) >= 1 BY <3>1, NumberedLines
      <3>3. poll.pos \in Nat BY <1>1 DEF Polls
      <3>4. CASE Seen' = Seen BY <3>1, <3>2, <3>4
      <3>5. CASE Seen' # Seen
        <4>1. Seen = log[Watched] /\ Seen' = log'[Watched] BY <3>5 DEF Seen
        <4>2. log[Watched] # <<>> BY <3>1, <4>1 DEF Numbered
        <4>3. /\ Len(log'[Watched]) >= Len(log[Watched]) /\ log'[Watched] # <<>>
              /\ \A i \in 1..Len(log[Watched]) : log'[Watched][i] = log[Watched][i]
          BY <3>5, <4>1, <4>2
        <4>4. Numbered(log'[Watched]) BY <1>1, <4>3 DEF FileInv, File
        <4>5. Len(log'[Watched]) \in Nat BY <4>4, NumberedLines
        <4> QED BY <3>1, <3>2, <3>3, <4>1, <4>3, <4>4, <4>5
      <3> QED BY <3>4, <3>5
    <2>3. poll.stale =>
            /\ poll.file[1].n <= entries'[Watched]
            /\ \A i \in 2..Len(poll.file) :
                 poll.file[i].kind = "entry" => poll.file[i].n < entries'[Watched]
      <3> SUFFICES ASSUME poll.stale
                   PROVE  /\ poll.file[1].n <= entries'[Watched]
                          /\ \A i \in 2..Len(poll.file) :
                               poll.file[i].kind = "entry" =>
                                   poll.file[i].n < entries'[Watched]
        OBVIOUS
      <3>1. Numbered(poll.file) BY <2>1 DEF Reading, Seen
      <3>2. Len(poll.file) \in Nat /\ Len(poll.file) >= 1
            /\ \A i \in 1..Len(poll.file) : poll.file[i].n \in Nat
        BY <3>1, NumberedLines
      <3>3. poll.file[1].n <= entries[Watched] BY <2>1 DEF Reading
      <3>4. ASSUME NEW i \in 2..Len(poll.file), poll.file[i].kind = "entry"
            PROVE  poll.file[i].n < entries'[Watched]
        <4>1. poll.file[i].n < entries[Watched] BY <2>1, <3>4 DEF Reading
        <4>2. poll.file[i].n \in Nat BY <3>2
        <4> QED BY <1>1, <4>1, <4>2
      <3>5. poll.file[1].n <= entries'[Watched]
        <4>1. poll.file[1].n \in Nat BY <3>2
        <4> QED BY <1>1, <3>3, <4>1
      <3> QED BY <3>4, <3>5
    <2>4. ~poll.skewed => /\ poll.total <= entries'[Watched]
                          /\ poll.offset <= entries'[Watched]
      <3>1. poll.total \in Nat /\ poll.offset \in Nat BY <1>1 DEF Polls
      <3>2. ~poll.skewed => poll.total <= entries[Watched] /\ poll.offset <= entries[Watched]
        BY <2>1 DEF ReadInv, Reading
      <3> QED BY <1>1, <3>1, <3>2
    <2>5. Wanted' = Wanted BY DEF Wanted
    <2>6. Reading' BY <2>1, <2>2, <2>3, <2>4, <2>5 DEF Reading
    <2> QED BY <1>1, <1>3, <2>4, <2>6 DEF ReadInv
  <1> QED BY <1>1, <1>2, <1>3 DEF Polls

(* A rotation replaces the file of the reader by what it has open.          *)
LEMMA RotateRead ==
  ASSUME ReadInv, FileInv, FileInv', NEW c \in Commands, Rotate(c)
  PROVE  ReadInv'
  <1>1. poll \in Polls /\ UNCHANGED entries /\ poll' = Replaced(c)
        /\ log[c] # <<>> /\ File(c) /\ ~torn[c]
        /\ \A x \in Commands \ {c} : log'[x] = log[x]
    BY FileByTask DEF ReadInv, Rotate, File, FileInv, FileTypes
  <1>2. Watched \in Commands /\ entries[Watched] \in Nat
    BY ProcessesAssumption DEF FileInv, FileTypes
  <1>3. CASE poll.phase = "reading" /\ c = Watched /\ ~poll.stale
    <2>1. poll' = [poll EXCEPT !.file = log[c], !.stale = TRUE] BY <1>1, <1>3 DEF Replaced
    <2>2. log[c] \in Seq(Lines) /\ Numbered(log[c]) BY <1>1 DEF File, Numbered
    <2>3. /\ poll' \in Polls /\ poll'.file = log[c] /\ poll'.stale
          /\ poll'.phase = "reading" /\ poll'.offset = poll.offset /\ poll'.pos = poll.pos
          /\ poll'.total = poll.total /\ poll'.got = poll.got
          /\ poll'.truncated = poll.truncated /\ poll'.broke = poll.broke
          /\ poll'.skewed = poll.skewed
      BY <1>1, <1>3, <2>1, <2>2 DEF Polls
    <2>4. Seen' = Seen BY <1>3, <2>3 DEF Seen
    <2>5. Reading BY <1>3 DEF ReadInv
    <2>6. Wanted' = Wanted BY <2>3 DEF Wanted
    <2>7. /\ poll'.file[1].n <= entries'[Watched]
          /\ \A i \in 2..Len(poll'.file) :
               poll'.file[i].kind = "entry" => poll'.file[i].n < entries'[Watched]
      BY <1>1, <1>3, <2>3 DEF File
    <2>8. Reading' BY <1>1, <2>3, <2>4, <2>5, <2>6, <2>7 DEF Reading
    <2> QED BY <1>1, <2>3, <2>8 DEF ReadInv
  <1>4. CASE ~(poll.phase = "reading" /\ c = Watched /\ ~poll.stale)
    <2>1. poll' = poll BY <1>1, <1>4 DEF Replaced
    <2>2. CASE poll.phase = "idle" BY <1>1, <2>1, <2>2 DEF ReadInv, Idle, Polls
    <2>3. CASE poll.phase = "reading"
      <3>1. Seen' = Seen BY <1>1, <1>2, <1>4, <2>1, <2>3 DEF Seen
      <3>2. Reading BY <2>3 DEF ReadInv
      <3>3. Wanted' = Wanted BY <2>1 DEF Wanted
      <3>4. Reading' BY <1>1, <2>1, <3>1, <3>2, <3>3 DEF Reading
      <3> QED BY <1>1, <2>1, <2>3, <3>4 DEF ReadInv
    <2> QED BY <1>1, <2>2, <2>3 DEF Polls
  <1> QED BY <1>3, <1>4

LEMMA AskRead ==
  ASSUME ReadInv, FileInv, Ask
  PROVE  ReadInv'
  <1>1. poll \in Polls /\ poll = Idle(poll.offset, poll.skewed)
        /\ UNCHANGED <<entries, log, torn>>
        /\ (~poll.skewed => poll.offset <= entries[Watched])
    BY DEF Ask, ReadInv, file
  <1>2. Watched \in Commands /\ entries[Watched] \in Nat
    BY ProcessesAssumption DEF FileInv, FileTypes
  <1>3. CASE Watched \in onDisk
    <2>1. PICK tail \in BOOLEAN : poll' = [poll EXCEPT !.phase = "reading", !.tail = tail]
      BY <1>3 DEF Ask
    <2>2. /\ poll.pos = 0 /\ poll.total = 0 /\ poll.got = {} /\ ~poll.broke /\ ~poll.stale
      BY <1>1 DEF Idle
    <2>3. /\ poll' \in Polls /\ poll'.phase = "reading" /\ poll'.offset = poll.offset
          /\ poll'.pos = 0 /\ poll'.total = 0 /\ poll'.got = {} /\ ~poll'.broke
          /\ ~poll'.stale /\ poll'.skewed = poll.skewed
      BY <1>1, <2>1, <2>2 DEF Polls
    <2>4. log[Watched] # <<>> /\ File(Watched) BY <1>2, <1>3 DEF FileInv, NoFile
    <2>5. Numbered(log[Watched]) BY <2>4 DEF File
    <2>6. Seen' = log[Watched] BY <1>1, <2>3 DEF Seen
    <2>7. Len(log[Watched]) \in Nat BY <2>5, NumberedLines
    <2>8. Wanted' = {}
      <3>1. poll.offset \in Nat BY <1>1 DEF Polls
      <3> QED BY <2>3, <3>1 DEF Wanted
    <2>9. Reading' BY <1>1, <1>2, <2>3, <2>5, <2>6, <2>7, <2>8 DEF Reading
    <2> QED BY <1>1, <2>3, <2>9 DEF ReadInv
  <1>4. CASE Watched \notin onDisk
    <2>1. poll' = Idle(0, poll.skewed) BY <1>4 DEF Ask
    <2>2. /\ poll' \in Polls /\ poll'.phase = "idle" /\ poll'.offset = 0
          /\ poll'.skewed = poll.skewed
      <3>1. <<>> \in Seq(Lines) /\ poll.skewed \in BOOLEAN BY <1>1 DEF Polls
      <3> QED BY <2>1, <3>1 DEF Idle, Polls
    <2> QED BY <1>1, <1>2, <2>1, <2>2 DEF ReadInv
  <1> QED BY <1>3, <1>4

LEMMA AnswerRead ==
  ASSUME ReadInv, FileInv, Answer
  PROVE  ReadInv'
  <1>1. /\ poll \in Polls /\ Reading /\ UNCHANGED entries
        /\ poll' = Idle(poll.total, poll.skewed)
    BY DEF Answer, ReadInv, file
  <1>2. poll.total \in Nat /\ poll.skewed \in BOOLEAN BY <1>1 DEF Polls
  <1>3. /\ poll' \in Polls /\ poll'.phase = "idle" /\ poll'.offset = poll.total
        /\ poll'.skewed = poll.skewed
    <2>1. <<>> \in Seq(Lines) OBVIOUS
    <2> QED BY <1>1, <1>2, <2>1 DEF Idle, Polls
  <1>4. ~poll.skewed => poll.total <= entries[Watched] BY <1>1 DEF Reading
  <1> QED BY <1>1, <1>3, <1>4 DEF ReadInv

(* What the answer needs of the line it takes.                              *)
LEMMA LineRead ==
  ASSUME ReadInv, FileInv, poll.phase = "reading", poll.pos < Len(Seen),
         UNCHANGED <<entries, log>>,
         poll' \in Polls, poll'.phase = "reading", poll'.pos = poll.pos + 1,
         poll'.stale = poll.stale, poll'.file = poll.file, poll'.offset = poll.offset,
         ~poll'.skewed =>
           /\ ~poll.skewed
           /\ poll'.total <= entries[Watched]
           /\ poll'.got \subseteq poll.offset .. (poll'.total - 1)
           /\ poll'.got # poll.offset .. (poll'.total - 1) => poll'.truncated
           /\ poll'.broke => poll.offset <= poll'.total
           /\ ~poll'.broke /\ Seen[poll.pos + 1].kind # "end" =>
                poll'.total = Seen[1].n + poll.pos
  PROVE  ReadInv'
  <1>1. Reading /\ poll \in Polls BY DEF ReadInv
  <1>2. poll.pos \in Nat /\ Len(Seen) \in Nat /\ Seen[1].n \in Nat
    BY <1>1, NumberedLines DEF Polls, Reading
  <1>3. Seen' = Seen BY DEF Seen
  <1>4. Wanted' = poll.offset .. (poll'.total - 1) BY DEF Wanted
  <1>5. poll'.pos > 0 /\ poll'.pos # 0 /\ poll'.pos <= Len(Seen) BY <1>2
  <1>6. \A a \in Nat : a + (poll.pos + 1) - 1 = a + poll.pos BY <1>2
  <1>7. Seen[1].n + poll'.pos - 1 = Seen[1].n + poll.pos BY <1>2, <1>6
  <1>8. Reading' BY <1>1, <1>3, <1>4, <1>5, <1>7 DEF Reading
  <1> QED BY <1>8 DEF ReadInv

LEMMA ReadLineRead ==
  ASSUME ReadInv, FileInv, ReadLine
  PROVE  ReadInv'
  <1> DEFINE line == Seen[poll.pos + 1]
             part == ~poll.stale /\ torn[Watched] /\ poll.pos + 1 = Len(Seen)
             next == [poll EXCEPT !.pos = @ + 1]
             count == entries[Watched]
  <1>1. /\ poll.phase = "reading" /\ poll.pos < Len(Seen)
        /\ Reading /\ poll \in Polls /\ UNCHANGED <<entries, log>>
        /\ (~poll.skewed => poll.offset <= count)
    BY DEF ReadLine, ReadInv, file
  <1>2. Numbered(Seen) BY <1>1 DEF Reading
  <1>3. /\ poll.pos \in Nat /\ Len(Seen) \in Nat /\ Seen[1].n \in Nat
        /\ poll.offset \in Nat /\ poll.total \in Nat /\ poll.got \subseteq Nat
        /\ poll.truncated \in BOOLEAN /\ poll.broke \in BOOLEAN /\ poll.skewed \in BOOLEAN
        /\ poll.tail \in BOOLEAN
    BY <1>1, <1>2, NumberedLines DEF Polls
  <1>4. poll.pos + 1 \in 1..Len(Seen) /\ line \in Lines /\ line.n \in Nat
    BY <1>1, <1>2, <1>3, NumberedLines
  <1>5. /\ next \in Polls /\ next.phase = "reading" /\ next.pos = poll.pos + 1
        /\ next.stale = poll.stale /\ next.file = poll.file /\ next.offset = poll.offset
        /\ next.total = poll.total /\ next.got = poll.got
        /\ next.truncated = poll.truncated /\ next.broke = poll.broke
        /\ next.skewed = poll.skewed /\ next.tail = poll.tail
    BY <1>1, <1>3 DEF Polls
  <1>6. count \in Nat /\ Watched \in Commands
    BY ProcessesAssumption DEF FileInv, FileTypes
  <1>7. ~poll.stale => Seen = log[Watched] /\ log[Watched] # <<>> /\ File(Watched)
    BY <1>2, <1>6 DEF Seen, FileInv, Numbered
  (* Where the reader is, unless it lost its place.                         *)
  <1>8. ~poll.skewed /\ ~poll.broke => poll.total = IF poll.pos = 0 THEN 0
                                                    ELSE Seen[1].n + poll.pos - 1
    <2>1. poll.pos = 0 => poll.total = 0 BY <1>1 DEF Reading
    <2>2. ASSUME ~poll.skewed, ~poll.broke, poll.pos # 0
          PROVE  poll.total = Seen[1].n + poll.pos - 1
      <3>1. Seen[poll.pos].kind # "end"
        <4>1. CASE poll.pos = 1 BY <1>2, <4>1 DEF Numbered
        <4>2. CASE poll.pos # 1
          <5>1. poll.pos \in 2..Len(Seen) /\ poll.pos # Len(Seen) BY <1>1, <1>3, <2>2, <4>2
          <5> QED BY <1>2, <5>1 DEF Numbered
        <4> QED BY <4>1, <4>2
      <3>2. poll.pos > 0 BY <1>3, <2>2
      <3> QED BY <1>1, <2>2, <3>1, <3>2 DEF Reading
    <2> QED BY <2>1, <2>2
  <1>9. line.kind = "mark" => poll.pos = 0
    <2>1. poll.pos # 0 => poll.pos + 1 \in 2..Len(Seen) BY <1>3, <1>4
    <2> QED BY <1>2, <2>1 DEF Numbered
  <1>10. line.kind = "entry" => poll.pos > 0 /\ line.n = Seen[1].n + poll.pos - 1
    <2>1. CASE poll.pos = 0 BY <1>2, <2>1 DEF Numbered
    <2>2. CASE poll.pos # 0
      <3>1. poll.pos + 1 \in 2..Len(Seen) BY <1>3, <1>4, <2>2
      <3>2. line.kind = "entry" => line.n = Seen[1].n + (poll.pos + 1) - 2
        BY <1>2, <3>1 DEF Numbered
      <3>3. \A a \in Nat : a + (poll.pos + 1) - 2 = a + poll.pos - 1 BY <1>3
      <3>4. Seen[1].n + (poll.pos + 1) - 2 = Seen[1].n + poll.pos - 1 BY <1>3, <3>3
      <3>5. poll.pos > 0 BY <1>3, <2>2
      <3> QED BY <3>2, <3>4, <3>5
    <2> QED BY <2>1, <2>2
  <1>11. ~part /\ line.kind = "entry" => line.n < count
    <2>1. line.kind = "entry" => poll.pos + 1 \in 2..Len(Seen) BY <1>3, <1>4, <1>10
    <2>2. CASE poll.stale
      <3>1. Seen = poll.file BY <2>2 DEF Seen
      <3> QED BY <1>1, <2>1, <2>2, <3>1 DEF Reading
    <2>3. CASE ~poll.stale
      <3>1. Seen = log[Watched] /\ File(Watched) BY <1>7, <2>3
      <3> QED BY <2>1, <2>3, <3>1 DEF File
    <2> QED BY <2>2, <2>3
  <1>12. line.kind = "mark" => line.n <= count /\ line = Seen[1]
    <2>1. line.kind = "mark" => line = Seen[1] BY <1>9
    <2>2. CASE poll.stale BY <1>1, <2>1, <2>2 DEF Reading, Seen
    <2>3. CASE ~poll.stale
      <3>1. Seen = log[Watched] /\ File(Watched) BY <1>7, <2>3
      <3> QED BY <2>1, <3>1 DEF File
    <2> QED BY <2>2, <2>3
  <1>13. ~poll.skewed =>
           /\ poll.total <= count /\ poll.got \subseteq Wanted
           /\ poll.got # Wanted => poll.truncated
           /\ poll.broke => poll.offset <= poll.total
    BY <1>1 DEF Reading
  <1> HIDE DEF line
  <1>14. CASE part
    <2>1. poll' = [next EXCEPT !.broke = TRUE] BY <1>14 DEF ReadLine
    <2>2. /\ poll' \in Polls /\ poll'.phase = "reading" /\ poll'.pos = poll.pos + 1
          /\ poll'.stale = poll.stale /\ poll'.file = poll.file
          /\ poll'.offset = poll.offset /\ poll'.total = poll.total /\ poll'.got = poll.got
          /\ poll'.truncated = poll.truncated /\ poll'.broke = TRUE
          /\ poll'.skewed = poll.skewed
      <3> HIDE DEF next
      <3> QED BY <1>5, <2>1 DEF Polls
    <2>3. ASSUME ~poll.skewed PROVE poll.offset <= poll.total
      <3>1. CASE poll.broke BY <1>13, <2>3, <3>1
      <3>2. CASE ~poll.broke
        <4>1. Seen = log[Watched] /\ File(Watched) /\ torn[Watched] BY <1>7, <1>14
        <4>2. Open(Watched) BY <4>1 DEF File
        <4>3. count + 1 = Seen[1].n + Len(Seen) - 1 /\ Len(Seen) = written[Watched] + 1 + 1
          BY <4>1, <4>2 DEF Open, Part
        <4>4. written[Watched] \in Nat BY <1>6 DEF FileInv, FileTypes
        <4>5. poll.pos # 0 /\ Len(Seen) = poll.pos + 1 BY <1>3, <1>14, <4>3, <4>4
        <4>6. poll.total = Seen[1].n + poll.pos - 1 BY <1>8, <2>3, <3>2, <4>5
        <4>7. count = Seen[1].n + poll.pos - 1
          <5>1. \A a, b, k \in Nat : k + 1 = a + (b + 1) - 1 => k = a + b - 1 OBVIOUS
          <5>2. count + 1 = Seen[1].n + (poll.pos + 1) - 1 BY <4>3, <4>5
          <5> HIDE DEF count
          <5> QED BY <1>3, <1>6, <5>1, <5>2
        <4> QED BY <1>1, <2>3, <4>6, <4>7
      <3> QED BY <3>1, <3>2
    <2> QED BY <1>1, <1>13, <2>2, <2>3, LineRead DEF Wanted
  <1>15. CASE ~part /\ line.kind = "mark"
    <2>1. poll' = [next EXCEPT !.total = line.n, !.truncated = poll.offset < line.n]
      BY <1>15 DEF ReadLine, line
    <2>2. /\ poll' \in Polls /\ poll'.phase = "reading" /\ poll'.pos = poll.pos + 1
          /\ poll'.stale = poll.stale /\ poll'.file = poll.file
          /\ poll'.offset = poll.offset /\ poll'.total = line.n /\ poll'.got = poll.got
          /\ poll'.truncated = (poll.offset < line.n) /\ poll'.broke = poll.broke
          /\ poll'.skewed = poll.skewed
      <3> DEFINE late == poll.offset < line.n
      <3>1. late \in BOOLEAN OBVIOUS
      <3> HIDE DEF next, late
      <3>2. poll' = [next EXCEPT !.total = line.n, !.truncated = late] BY <2>1 DEF late
      <3>3. poll' \in Polls BY <1>4, <1>5, <3>1, <3>2 DEF Polls
      <3>4. /\ poll'.phase = "reading" /\ poll'.pos = poll.pos + 1
            /\ poll'.stale = poll.stale /\ poll'.file = poll.file
            /\ poll'.offset = poll.offset /\ poll'.total = line.n /\ poll'.got = poll.got
            /\ poll'.truncated = late /\ poll'.broke = poll.broke
            /\ poll'.skewed = poll.skewed
        BY <1>5, <3>2 DEF Polls
      <3> QED BY <3>3, <3>4 DEF late
    <2>3. poll.pos = 0 /\ poll.got = {} /\ ~poll.broke BY <1>1, <1>9, <1>15 DEF Reading
    <2>4. poll.offset .. (line.n - 1) # {} => poll.offset < line.n BY <1>3, <1>4
    <2>5. line.n = Seen[1].n + poll.pos BY <1>3, <1>12, <1>15, <2>3
    <2> QED BY <1>1, <1>12, <1>15, <2>2, <2>3, <2>4, <2>5, LineRead
  <1>16. CASE ~part /\ line.kind = "entry" /\ poll.total < poll.offset
    <2>1. poll' = [next EXCEPT !.total = @ + 1] BY <1>16 DEF ReadLine, line
    <2>2. /\ poll' \in Polls /\ poll'.phase = "reading" /\ poll'.pos = poll.pos + 1
          /\ poll'.stale = poll.stale /\ poll'.file = poll.file
          /\ poll'.offset = poll.offset /\ poll'.total = poll.total + 1
          /\ poll'.got = poll.got /\ poll'.truncated = poll.truncated
          /\ poll'.broke = poll.broke /\ poll'.skewed = poll.skewed
      <3>1. poll.total + 1 \in Nat BY <1>3
      <3> HIDE DEF next
      <3>2. next.total + 1 = poll.total + 1 BY <1>5
      <3>3. poll' \in Polls BY <1>5, <2>1, <3>1, <3>2 DEF Polls
      <3> QED BY <1>5, <2>1, <3>2, <3>3 DEF Polls
    <2>3. ASSUME ~poll.skewed
          PROVE  /\ poll'.total <= count /\ ~poll.broke /\ poll.got = {}
                 /\ poll.offset .. (poll'.total - 1) = {}
                 /\ poll'.total = Seen[1].n + poll.pos
      <3>1. ~poll.broke BY <1>3, <1>13, <1>16, <2>3
      <3>2. poll.got = {} BY <1>3, <1>13, <1>16, <2>3 DEF Wanted
      <3>3. poll.total = Seen[1].n + poll.pos - 1
        <4>1. poll.pos # 0 BY <1>3, <1>10, <1>16
        <4> QED BY <1>8, <2>3, <3>1, <4>1
      <3>4. poll.total < count BY <1>10, <1>11, <1>16, <3>3
      <3>5. poll'.total <= count
        <4> HIDE DEF count
        <4> QED BY <1>3, <1>6, <2>2, <3>4
      <3>6. poll.offset .. (poll'.total - 1) = {} BY <1>3, <1>16, <2>2
      <3>7. \A a \in Nat : (a + poll.pos - 1) + 1 = a + poll.pos BY <1>3
      <3>8. poll'.total = Seen[1].n + poll.pos BY <1>3, <2>2, <3>3, <3>7
      <3> QED BY <3>1, <3>2, <3>5, <3>6, <3>8
    <2> QED BY <1>1, <2>2, <2>3, LineRead
  <1>17. CASE ~part /\ line.kind = "entry" /\ ~(poll.total < poll.offset)
    <2>1. poll' = [next EXCEPT !.total = @ + 1, !.skewed = @ \/ poll.broke,
                     !.got = IF poll.tail THEN {line.n} ELSE @ \cup {line.n},
                     !.truncated = @ \/ (poll.tail /\ poll.got # {})]
      BY <1>17 DEF ReadLine, line
    <2>2. /\ poll' \in Polls /\ poll'.phase = "reading" /\ poll'.pos = poll.pos + 1
          /\ poll'.stale = poll.stale /\ poll'.file = poll.file
          /\ poll'.offset = poll.offset /\ poll'.total = poll.total + 1
          /\ poll'.got = (IF poll.tail THEN {line.n} ELSE poll.got \cup {line.n})
          /\ poll'.truncated = (poll.truncated \/ (poll.tail /\ poll.got # {}))
          /\ poll'.broke = poll.broke /\ poll'.skewed = (poll.skewed \/ poll.broke)
      <3> DEFINE got == IF poll.tail THEN {line.n} ELSE poll.got \cup {line.n}
                 truncated == poll.truncated \/ (poll.tail /\ poll.got # {})
                 skewed == poll.skewed \/ poll.broke
      <3>1. /\ poll.total + 1 \in Nat /\ got \in SUBSET Nat
            /\ truncated \in BOOLEAN /\ skewed \in BOOLEAN
        BY <1>3, <1>4
      <3>2. poll' = [next EXCEPT !.total = poll.total + 1, !.skewed = skewed, !.got = got,
                       !.truncated = truncated]
        <4>1. poll' = [next EXCEPT !.total = next.total + 1,
                         !.skewed = next.skewed \/ poll.broke,
                         !.got = IF poll.tail THEN {line.n} ELSE next.got \cup {line.n},
                         !.truncated = next.truncated \/ (poll.tail /\ poll.got # {})]
          BY <2>1
        <4> HIDE DEF next
        <4> QED BY <1>5, <4>1
      <3> HIDE DEF next, got, truncated, skewed
      <3>3. poll' \in Polls BY <1>5, <3>1, <3>2 DEF Polls
      <3>4. /\ poll'.phase = "reading" /\ poll'.pos = poll.pos + 1
            /\ poll'.stale = poll.stale /\ poll'.file = poll.file
            /\ poll'.offset = poll.offset /\ poll'.total = poll.total + 1
            /\ poll'.got = got /\ poll'.truncated = truncated
            /\ poll'.broke = poll.broke /\ poll'.skewed = skewed
        BY <1>5, <3>2 DEF Polls
      <3> QED BY <3>3, <3>4 DEF got, truncated, skewed
    <2>3. ASSUME ~poll'.skewed
          PROVE  /\ ~poll.skewed /\ ~poll.broke
                 /\ poll'.total <= count
                 /\ poll'.got \subseteq poll.offset .. (poll'.total - 1)
                 /\ poll'.got # poll.offset .. (poll'.total - 1) => poll'.truncated
                 /\ poll'.total = Seen[1].n + poll.pos
      <3>1. ~poll.skewed /\ ~poll.broke BY <1>3, <2>2, <2>3
      <3>2. poll.total = Seen[1].n + poll.pos - 1
        <4>1. poll.pos # 0 BY <1>3, <1>10, <1>17
        <4> QED BY <1>8, <3>1, <4>1
      <3>3. line.n = poll.total BY <1>10, <1>17, <3>2
      <3>4. poll'.total <= count
        <4>1. poll.total < count BY <1>11, <1>17, <3>3
        <4> HIDE DEF count
        <4> QED BY <1>3, <1>6, <2>2, <4>1
      <3>5. \A a \in Nat : (a + poll.pos - 1) + 1 = a + poll.pos BY <1>3
      <3>6. poll'.total = Seen[1].n + poll.pos BY <1>3, <2>2, <3>2, <3>5
      <3>7. poll.offset .. (poll'.total - 1) = Wanted \cup {poll.total}
        <4>1. \A a, b \in Nat : ~(b < a) => a .. ((b + 1) - 1) = (a .. (b - 1)) \cup {b}
          OBVIOUS
        <4> QED BY <1>3, <1>17, <2>2, <4>1 DEF Wanted
      <3>8. poll.got \subseteq Wanted /\ (poll.got # Wanted => poll.truncated)
        BY <1>13, <3>1
      <3>9. poll'.got \subseteq Wanted \cup {poll.total} BY <2>2, <3>3, <3>8
      <3>10. poll'.got # Wanted \cup {poll.total} => poll'.truncated
        <4>1. CASE poll.truncated BY <2>2, <4>1
        <4>2. CASE ~poll.truncated
          <5>1. poll.got = Wanted BY <3>8, <4>2
          <5>2. CASE poll.tail /\ poll.got # {} BY <2>2, <5>2
          <5>3. CASE ~(poll.tail /\ poll.got # {})
            <6>1. poll'.got = poll.got \cup {poll.total} BY <2>2, <3>3, <5>3
            <6> QED BY <5>1, <6>1
          <5> QED BY <5>2, <5>3
        <4> QED BY <4>1, <4>2
      <3> QED BY <3>1, <3>4, <3>6, <3>7, <3>9, <3>10
    <2> QED BY <1>1, <2>2, <2>3, LineRead
  <1>18. CASE ~part /\ line.kind \notin {"mark", "entry"}
    <2>1. poll' = next BY <1>18 DEF ReadLine, line
    <2>2. ASSUME ~poll.skewed, ~poll.broke, line.kind # "end"
          PROVE  poll.total = Seen[1].n + poll.pos
      <3>1. line.kind = "start" BY <1>4, <1>18, <2>2 DEF Lines
      <3>2. poll.pos = 0
        <4>1. poll.pos # 0 => poll.pos + 1 \in 2..Len(Seen) BY <1>3, <1>4
        <4> QED BY <1>2, <3>1, <4>1 DEF Numbered, line
      <3>3. Seen[1].n = 0 BY <1>2, <3>1, <3>2 DEF Numbered, line
      <3> QED BY <1>8, <2>2, <3>2, <3>3
    <2>3. Seen[poll.pos + 1].kind = line.kind BY DEF line
    <2> HIDE DEF next
    <2>4. ~poll.skewed =>
            /\ poll'.got \subseteq poll.offset .. (poll'.total - 1)
            /\ poll'.got # poll.offset .. (poll'.total - 1) => poll'.truncated
      BY <1>5, <1>13, <2>1 DEF Wanted
    <2> QED BY <1>1, <1>5, <1>13, <2>1, <2>2, <2>3, <2>4, LineRead
  <1> QED BY <1>14, <1>15, <1>16, <1>17, <1>18

LEMMA NextRead == ReadInv /\ FileInv /\ FileInv' /\ [Next]_vars => ReadInv'
  <1> SUFFICES ASSUME ReadInv, FileInv, FileInv', [Next]_vars PROVE ReadInv' OBVIOUS
  <1>0. Watched \in Commands /\ entries \in [Commands -> Nat] /\ DOMAIN log = Commands
    BY ProcessesAssumption DEF FileInv, FileTypes
  <1>1. ASSUME UNCHANGED <<poll, entries, log>> PROVE ReadInv'
    BY <1>0, <1>1, GrowRead
  <1>2. CASE UNCHANGED vars BY <1>1, <1>2 DEF vars, file
  <1>3. CASE \E d \in Deletes : Delete(d) \/ Stop(d) \/ DeleteWait(d) \/ DeleteClose(d)
    BY <1>1, <1>3 DEF Delete, Stop, DeleteWait, DeleteClose, file
  <1>4. ASSUME NEW c \in Commands,
               \/ Execute(c) \/ Exit(c) \/ Expire(c) \/ ReadOutput(c) \/ EndOfOutput(c)
               \/ LogWait(c) \/ LogClose(c)
        PROVE  ReadInv'
    BY <1>1, <1>4
       DEF Execute, Exit, Expire, ReadOutput, EndOfOutput, LogWait, LogClose, file
  (* The steps that write add to the end.                                   *)
  <1>5. ASSUME NEW c \in Commands, OpenLog(c) \/ Spill(c) \/ Flush(c) \/ LogEnd(c)
        PROVE  ReadInv'
    <2>1. /\ UNCHANGED poll /\ entries'[Watched] >= entries[Watched]
      BY <1>0, <1>5 DEF OpenLog, Spill, Flush, LogEnd
    <2>2. CASE log' = log BY <2>1, <2>2, GrowRead
    <2>3. CASE /\ log[c] = <<>> /\ log' = [log EXCEPT ![c] = <<Line("start", 0)>>]
      <3>1. log'[Watched] = log[Watched] \/ (log[Watched] = <<>> /\ log'[Watched] # <<>>)
        BY <1>0, <2>3
      <3> QED BY <2>1, <3>1, GrowRead
    <2>4. ASSUME NEW l \in Lines, log[c] # <<>>, log' = [log EXCEPT ![c] = Append(@, l)]
          PROVE  ReadInv'
      <3>1. CASE c # Watched BY <1>0, <2>1, <2>4, <3>1, GrowRead
      <3>2. CASE c = Watched
        <4>1. log[c] \in Seq(Lines) BY DEF FileInv, FileTypes
        <4>2. log'[c] = Append(log[c], l) BY <1>0, <2>4
        <4>3. /\ Len(log'[c]) >= Len(log[c]) /\ log'[c] # <<>>
              /\ \A i \in 1..Len(log[c]) : log'[c][i] = log[c][i]
          BY <2>4, <4>1, <4>2
        <4> QED BY <2>1, <3>2, <4>3, GrowRead
      <3> QED BY <3>1, <3>2
    <2>5. CASE OpenLog(c)
      <3>1. log[c] = <<>> BY <2>5, FileByTask DEF OpenLog
      <3> QED BY <2>2, <2>3, <2>5, <3>1 DEF OpenLog
    <2>6. CASE Spill(c) \/ Flush(c)
      <3>1. log[c] # <<>> /\ entries[c] \in Nat BY <1>0, <2>6, FileByTask DEF Spill, Flush
      <3>2. Line("entry", entries[c]) \in Lines BY <3>1 DEF Line, Lines
      <3> QED BY <2>2, <2>4, <2>6, <3>1, <3>2 DEF Spill, Flush
    <2>7. CASE LogEnd(c)
      <3>1. Line("end", 0) \in Lines BY DEF Line, Lines
      <3> QED BY <2>2, <2>4, <2>7, <3>1 DEF LogEnd
    <2> QED BY <1>5, <2>5, <2>6, <2>7
  <1> QED
    BY <1>2, <1>3, <1>4, <1>5, RotateRead, AskRead, AnswerRead, ReadLineRead DEF Next

(* A client that polls with the offset it was given gets every entry once,  *)
(* or is told that it did not.                                              *)
THEOREM CursorKept == Spec => []CursorExact
  <1>1. ReadInv => CursorExact BY DEF ReadInv, Reading, Wanted, CursorExact
  <1> QED BY <1>1, InitFile, NextFile, InitRead, NextRead, PTL DEF Spec

(* What the other invariants leave untyped.                                 *)
MarksTyped ==
    /\ managed \in BOOLEAN /\ force \in [Deletes -> BOOLEAN]
    /\ status \in [Commands -> {"none", "running", "done", "killed"}]
    /\ forced \subseteq Commands /\ hasty \subseteq Commands

LEMMA InitMarks == Init => MarksTyped
  BY DEF Init, MarksTyped

LEMMA NextMarks == ReapInv /\ MarksTyped /\ [Next]_vars => MarksTyped'
  <1> SUFFICES ASSUME ReapInv, MarksTyped, [Next]_vars PROVE MarksTyped' OBVIOUS
  <1> USE DEF MarksTyped
  <1>1. CASE UNCHANGED vars BY <1>1 DEF vars, commands, deletes, history
  <1>2. CASE Ask \/ ReadLine \/ Answer
    BY <1>2 DEF Ask, ReadLine, Answer, commands, deletes, history
  <1>3. ASSUME NEW c \in Commands,
               \/ Execute(c) \/ Exit(c) \/ Expire(c) \/ OpenLog(c) \/ ReadOutput(c)
               \/ EndOfOutput(c) \/ Rotate(c) \/ Spill(c) \/ Flush(c) \/ LogWait(c)
               \/ LogClose(c)
        PROVE  MarksTyped'
    <2>1. /\ UNCHANGED <<managed, force, forced, hasty>>
          /\ status' = status \/ status' = [status EXCEPT ![c] = "running"]
      BY <1>3 DEF Execute, Exit, Expire, OpenLog, ReadOutput, EndOfOutput, Rotate, Spill,
                  Flush, LogWait, LogClose, commands, deletes, history
    <2> QED BY <2>1
  <1>4. ASSUME NEW c \in Commands, LogEnd(c) PROVE MarksTyped'
    BY <1>4 DEF LogEnd, deletes, history
  <1>5. ASSUME NEW d \in Deletes, Delete(d) PROVE MarksTyped'
    <2>1. PICK c \in registry, option \in BOOLEAN :
            /\ force' = [force EXCEPT ![d] = option] /\ managed' = managed
            /\ status' = status \/ status' = [status EXCEPT ![c] = "killed"]
            /\ hasty' \in {hasty, hasty \cup {c}} /\ forced' \in {forced, forced \cup {c}}
      BY <1>5 DEF Delete, history
    <2>2. c \in Commands BY DEF ReapInv, Lives
    <2> QED BY <2>1, <2>2
  <1>6. ASSUME NEW d \in Deletes, Stop(d) \/ DeleteWait(d) PROVE MarksTyped'
    BY <1>6 DEF Stop, DeleteWait, commands, history
  <1>7. ASSUME NEW d \in Deletes, DeleteClose(d) PROVE MarksTyped'
    <2>1. target[d] \in Commands BY <1>7 DEF DeleteClose, ReapInv, Handled
    <2> QED BY <1>7, <2>1 DEF DeleteClose
  <1> QED BY <1>1, <1>2, <1>3, <1>4, <1>5, <1>6, <1>7 DEF Next

(* The registry, its logs and the reader keep to their types.               *)
THEOREM CommandsTyped == Spec => []TypeOK
  <1>1. ReapInv /\ NumberInv /\ FileInv /\ ReadInv /\ MarksTyped => TypeOK
    <2> SUFFICES ASSUME ReapInv, NumberInv, FileInv, ReadInv, MarksTyped PROVE TypeOK
      OBVIOUS
    <2>1. ASSUME NEW c \in Commands, NEW i \in DOMAIN log[c]
          PROVE  log[c][i].kind \in {"start", "entry", "mark", "end"} /\ log[c][i].n \in Nat
      <3>1. log[c] \in Seq(Lines) BY DEF FileInv, FileTypes
      <3>2. log[c][i] \in Lines BY <3>1
      <3> QED BY <3>2 DEF Lines
    <2>2. poll.phase \in {"idle", "reading"} /\ poll.offset \in Nat BY DEF ReadInv, Polls
    <2> QED
      BY <2>1, <2>2
         DEF TypeOK, ReapInv, Lives, NumberInv, FileInv, FileTypes, MarksTyped
  <1> QED
    BY <1>1, InitReap, NextReap, InitNumber, NextNumber, InitFile, NextFile, InitRead,
       NextRead, InitMarks, NextMarks, PTL
       DEF Spec
=============================================================================
