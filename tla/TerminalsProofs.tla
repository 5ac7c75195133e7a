--------------------------- MODULE TerminalsProofs ---------------------------
(***************************************************************************)
(* Proofs about Terminals, for any number of creations, WebSockets, inputs *)
(* and descriptors, and any limit.                                         *)
(*                                                                         *)
(* HeldInv says who holds a master: a creation from the PTY to the         *)
(* registration or the failure, then the listed session, then the cleanup  *)
(* that popped it.  A session is popped once, so its number is closed once *)
(* and never after the kernel could give it out again.  LimitInv counts    *)
(* a creation as placed from its own look at the limit on.                 *)
(***************************************************************************)
EXTENDS Terminals, TLAPS, FiniteSetTheorems

Kinds ==
    /\ creation \in [Creators -> {"idle", "pruning", "opened", "started",
                                  "failing", "failed", "registered"}]
    /\ fd \in [Creators -> Fds \cup {None}]
    /\ table \in [Fds -> Creators \cup {None}]
    /\ shell \in [Creators -> {"none", "alive", "dead"}]
    /\ cleanup \in [Creators -> {"none", "popped", "closed", "done"}]
    /\ sessions \subseteq Creators

Opening(c) == creation[c] \in {"opened", "started", "failing"}

Holding(c) == Opening(c) \/ c \in sessions \/ cleanup[c] = "popped"

HeldInv ==
    /\ Kinds
    /\ \A c \in Creators :
         /\ Holding(c) => fd[c] \in Fds /\ table[fd[c]] = c
         /\ c \in sessions => creation[c] = "registered" /\ cleanup[c] = "none"
         /\ cleanup[c] # "none" => creation[c] = "registered"
         /\ shell[c] = "alive" =>
              creation[c] = "started" \/ c \in sessions \/ cleanup[c] \in {"popped", "closed"}
    /\ \A f \in Fds : table[f] # None => fd[table[f]] = f /\ Holding(table[f])

LEMMA InitHeld == Init => HeldInv
  BY TerminalsAssumption DEF Init, HeldInv, Kinds, Holding, Opening

(* What the invariant speaks of.                                            *)
Holdings == <<sessions, creation, ptys, cleanup>>

LEMMA QuietHeld == ASSUME HeldInv, UNCHANGED Holdings PROVE HeldInv'
  BY DEF Holdings, ptys, HeldInv, Kinds, Holding, Opening

(* A creation opens a PTY under a number that stands for none...            *)
LEMMA OpenHeld == ASSUME HeldInv, NEW c \in Creators, Open(c) PROVE HeldInv'
  <1> USE TerminalsAssumption DEF HeldInv, Kinds, Holding, Opening, Become, dict, cleanups
  <1>1. CASE Become(c, "failed") /\ UNCHANGED <<fd, table>>
    BY <1>1 DEF Open
  <1>2. ASSUME NEW f \in Fds, table[f] = None, table' = [table EXCEPT ![f] = c],
               fd' = [fd EXCEPT ![c] = f], Become(c, "opened")
        PROVE  HeldInv'
    <2>1. UNCHANGED <<sessions, shell, cleanup>> /\ creation[c] = "pruning" BY DEF Open
    <2>2. ~Holding(c) BY <2>1
    <2>3. \A d \in Creators \ {c} : Holding(d) => fd[d] # f BY <1>2
    <2>4. \A g \in Fds : table[g] # c BY <2>2
    <2> QED BY <1>2, <2>1, <2>2, <2>3, <2>4
  <1> QED BY <1>1, <1>2 DEF Open

(* ... and closes it when it fails.                                         *)
LEMMA CreationHeld ==
  ASSUME HeldInv, NEW c \in Creators,
         \/ Prune(c) \/ Spawn(c) \/ CancelRequest(c) \/ Undo(c) \/ CloseFailed(c)
         \/ Register(c) \/ ShellExits(c)
  PROVE  HeldInv'
  <1> USE TerminalsAssumption DEF HeldInv, Kinds, Holding, Opening, Become, dict,
          creating, ptys, cleanups
  <1>1. CASE Prune(c) BY <1>1 DEF Prune
  <1>2. CASE Spawn(c) BY <1>2 DEF Spawn
  <1>3. CASE CancelRequest(c) BY <1>3 DEF CancelRequest
  <1>4. CASE Undo(c) BY <1>4 DEF Undo
  <1>5. CASE CloseFailed(c) BY <1>5 DEF CloseFailed, Closed
  <1>6. CASE Register(c) BY <1>6 DEF Register
  <1>7. CASE ShellExits(c) BY <1>7 DEF ShellExits
  <1> QED BY <1>1, <1>2, <1>3, <1>4, <1>5, <1>6, <1>7

LEMMA CleanupHeld ==
  ASSUME HeldInv, NEW c \in Creators, Pop(c) \/ CloseMaster(c) \/ StopShell(c)
  PROVE  HeldInv'
  <1> USE TerminalsAssumption DEF HeldInv, Kinds, Holding, Opening, dict, creating, ptys
  <1>1. CASE Pop(c) BY <1>1 DEF Pop, TakenOut
  <1>2. CASE CloseMaster(c) BY <1>2 DEF CloseMaster, Closed
  <1>3. CASE StopShell(c) BY <1>3 DEF StopShell
  <1> QED BY <1>1, <1>2, <1>3

LEMMA NextHeld == HeldInv /\ [Next]_vars => HeldInv'
  <1> SUFFICES ASSUME HeldInv, [Next]_vars PROVE HeldInv' OBVIOUS
  <1>1. CASE UNCHANGED vars
    BY <1>1, QuietHeld DEF vars, Holdings, dict, creating, ptys, cleanups
  <1>2. ASSUME NEW c \in Creators,
               \/ Prune(c) \/ Open(c) \/ Spawn(c) \/ CancelRequest(c) \/ Undo(c)
               \/ CloseFailed(c) \/ Register(c) \/ ShellExits(c)
               \/ Pop(c) \/ CloseMaster(c) \/ StopShell(c)
        PROVE  HeldInv'
    BY <1>2, OpenHeld, CreationHeld, CleanupHeld
  <1>3. ASSUME NEW c \in Creators, Delete(c) PROVE HeldInv'
    BY <1>3, QuietHeld DEF Delete, Holdings, dict, creating, ptys
  <1>4. ASSUME NEW s \in Sockets,
               Connect(s) \/ Attach(s) \/ Disconnect(s) \/ Leave(s) \/ StopReading(s)
        PROVE  HeldInv'
    BY <1>4, QuietHeld DEF Connect, Attach, Disconnect, Leave, StopReading, Holdings,
                           dict, creating, ptys, cleanups
  <1>5. ASSUME NEW w \in Writers, FindTerminal(w) \/ Receive(w) \/ Lock(w) \/ Written(w)
        PROVE  HeldInv'
    BY <1>5, QuietHeld DEF FindTerminal, Receive, Lock, Written, Holdings,
                           dict, creating, ptys, cleanups
  <1> QED BY <1>1, <1>2, <1>3, <1>4, <1>5 DEF Next

(* No master and no shell is lost, and none is closed by a cleanup that is  *)
(* not its own, in whatever order creations fail or are cancelled, shells   *)
(* exit, deletions and prunes meet and the kernel gives numbers out again.  *)
THEOREM MastersHeld == Spec => []MastersOwned
  <1>1. HeldInv => MastersOwned
    BY DEF HeldInv, MastersOwned, Kinds, Holding, Opening
  <1> QED BY <1>1, InitHeld, NextHeld, PTL DEF Spec

-----------------------------------------------------------------------------

(* Whoever is attached has marked its session.                              *)
MarkInv ==
    /\ socket \in [Sockets -> {"idle", "greeting", "attached", "leaving", "left", "refused"}]
    /\ target \in [Sockets -> Creators \cup {None}]
    /\ \A s \in Sockets : socket[s] = "attached" => target[s] \in connected
    /\ OneConnection

LEMMA SocketMark ==
  ASSUME MarkInv, sessions \subseteq Creators, NEW s \in Sockets,
         Connect(s) \/ Attach(s) \/ Disconnect(s) \/ Leave(s) \/ StopReading(s)
  PROVE  MarkInv'
  <1> USE DEF MarkInv, OneConnection, dict
  <1>1. CASE Connect(s)
    <2>1. PICK c \in sessions :
            \/ socket' = [socket EXCEPT ![s] = "refused"] /\ target' = target
            \/ /\ socket' = [socket EXCEPT ![s] = "greeting"]
               /\ target' = [target EXCEPT ![s] = c]
      BY <1>1 DEF Connect
    <2> QED BY <1>1, <2>1 DEF Connect
  <1>2. CASE Attach(s) BY <1>2 DEF Attach, Attached
  <1>3. CASE Disconnect(s) BY <1>3 DEF Disconnect
  <1>4. CASE Leave(s) BY <1>4 DEF Leave
  <1>5. CASE StopReading(s) BY <1>5 DEF StopReading
  <1> QED BY <1>1, <1>2, <1>3, <1>4, <1>5

LEMMA NextMark == sessions \subseteq Creators /\ MarkInv /\ [Next]_vars => MarkInv'
  <1> SUFFICES ASSUME sessions \subseteq Creators, MarkInv, [Next]_vars PROVE MarkInv'
    OBVIOUS
  <1>1. ASSUME UNCHANGED <<socket, target, connected>> PROVE MarkInv'
    BY <1>1 DEF MarkInv, OneConnection
  <1>2. CASE UNCHANGED vars BY <1>1, <1>2 DEF vars, dict, socketVars
  <1>3. ASSUME NEW c \in Creators,
               \/ Prune(c) \/ Open(c) \/ Spawn(c) \/ CancelRequest(c) \/ Undo(c)
               \/ CloseFailed(c) \/ Register(c) \/ ShellExits(c)
               \/ Delete(c) \/ Pop(c) \/ CloseMaster(c) \/ StopShell(c)
        PROVE  MarkInv'
    BY <1>1, <1>3 DEF Prune, Open, Spawn, CancelRequest, Undo, CloseFailed, Register,
                      ShellExits, Delete, Pop, CloseMaster, StopShell, dict, socketVars
  <1>4. ASSUME NEW s \in Sockets,
               Connect(s) \/ Attach(s) \/ Disconnect(s) \/ Leave(s) \/ StopReading(s)
        PROVE  MarkInv'
    BY <1>4, SocketMark
  <1>5. ASSUME NEW w \in Writers, FindTerminal(w) \/ Receive(w) \/ Lock(w) \/ Written(w)
        PROVE  MarkInv'
    BY <1>1, <1>5 DEF FindTerminal, Receive, Lock, Written, dict, socketVars
  <1> QED BY <1>2, <1>3, <1>4, <1>5 DEF Next

(* At most one WebSocket is attached to a session, although every one looks *)
(* it up before it authenticates.                                           *)
THEOREM OneAttached == Spec => []OneConnection
  <1>1. Init => MarkInv BY DEF Init, MarkInv, OneConnection
  <1>2. HeldInv => sessions \subseteq Creators BY DEF HeldInv, Kinds
  <1>3. MarkInv => OneConnection BY DEF MarkInv
  <1> QED BY <1>1, <1>2, <1>3, InitHeld, NextHeld, NextMark, PTL DEF Spec

-----------------------------------------------------------------------------
(***************************************************************************)
(* The limit.  LimitByOverlap is not inductive alone: a creation that was  *)
(* counted alone must still find its place when it registers.  So Placed   *)
(* counts it from its own count on.                                        *)
(***************************************************************************)
Placed == (sessions \cup Underway) \ overlapped

LimitInv == Cardinality(Placed) <= MaxSessions

(* Only a creation that is counted while no other is under way adds to the  *)
(* placed ones, and it found room.                                          *)
LEMMA PlacedGrows ==
  ASSUME Kinds, [Next]_vars
  PROVE  \/ Placed' \subseteq Placed
         \/ \E c \in Creators : /\ Placed' \subseteq (sessions \ overlapped) \cup {c}
                               /\ Room(c)
  <1> USE DEF Placed, Underway, Kinds
  <1>1. CASE UNCHANGED <<sessions, creation, overlapped>>
    BY <1>1
  <1>2. ASSUME NEW c \in Creators, Open(c)
        PROVE  \/ Placed' \subseteq Placed
               \/ Placed' \subseteq (sessions \ overlapped) \cup {c} /\ Room(c)
    <2>1. UNCHANGED sessions
      BY <1>2 DEF Open, dict
    <2>2. CASE creation' = [creation EXCEPT ![c] = "failed"] /\ UNCHANGED overlapped
      BY <2>1, <2>2
    <2>3. CASE /\ Room(c) /\ creation' = [creation EXCEPT ![c] = "opened"]
               /\ overlapped' = IF Underway = {} THEN overlapped ELSE overlapped \cup {c}
      BY <2>1, <2>3
    <2> QED BY <1>2, <2>2, <2>3 DEF Open, Become
  <1>3. ASSUME NEW c \in Creators,
               \/ Prune(c) \/ Spawn(c) \/ CancelRequest(c) \/ Undo(c) \/ CloseFailed(c)
               \/ Register(c) \/ Pop(c)
        PROVE  Placed' \subseteq Placed
    <2>1. CASE Prune(c)
      BY <2>1 DEF Prune, Become, dict
    <2>2. CASE Spawn(c)
      BY <2>2 DEF Spawn, Become, dict
    <2>3. CASE CancelRequest(c)
      BY <2>3 DEF CancelRequest, dict
    <2>4. CASE Undo(c) \/ CloseFailed(c)
      BY <2>4 DEF Undo, CloseFailed, Become, dict
    <2>5. CASE Register(c)
      BY <2>5 DEF Register, Become
    <2>6. CASE Pop(c)
      BY <2>6 DEF Pop, TakenOut, creating
    <2> QED BY <1>3, <2>1, <2>2, <2>3, <2>4, <2>5, <2>6
  <1>4. ASSUME NEW c \in Creators, ShellExits(c) \/ Delete(c) \/ CloseMaster(c) \/ StopShell(c)
        PROVE  UNCHANGED <<sessions, creation, overlapped>>
    BY <1>4 DEF ShellExits, Delete, CloseMaster, StopShell, dict, creating
  <1>5. ASSUME NEW s \in Sockets,
               Connect(s) \/ Attach(s) \/ Disconnect(s) \/ Leave(s) \/ StopReading(s)
        PROVE  UNCHANGED <<sessions, creation, overlapped>>
    BY <1>5 DEF Connect, Attach, Disconnect, Leave, StopReading, dict, creating
  <1>6. ASSUME NEW w \in Writers, FindTerminal(w) \/ Receive(w) \/ Lock(w) \/ Written(w)
        PROVE  UNCHANGED <<sessions, creation, overlapped>>
    BY <1>6 DEF FindTerminal, Receive, Lock, Written, dict, creating
  <1>7. CASE UNCHANGED vars
    BY <1>1, <1>7 DEF vars, dict, creating
  <1> QED BY <1>1, <1>2, <1>3, <1>4, <1>5, <1>6, <1>7 DEF Next

LEMMA NextLimit == Kinds /\ LimitInv /\ [Next]_vars => LimitInv'
  <1> SUFFICES ASSUME Kinds, LimitInv, [Next]_vars PROVE LimitInv'
    OBVIOUS
  <1>1. /\ IsFiniteSet(Placed) /\ Cardinality(Placed) \in Nat
        /\ IsFiniteSet(sessions) /\ Cardinality(sessions) \in Nat /\ MaxSessions \in Nat
    <2>1. Placed \in SUBSET Creators /\ sessions \in SUBSET Creators
      BY DEF Placed, Underway, Kinds
    <2> QED BY <2>1, TerminalsAssumption, FS_Subset, FS_CardinalityType
  <1>2. CASE Placed' \subseteq Placed
    <2>1. /\ IsFiniteSet(Placed') /\ Cardinality(Placed') <= Cardinality(Placed)
          /\ Cardinality(Placed') \in Nat
      BY <1>1, <1>2, FS_Subset, FS_CardinalityType
    <2> QED BY <1>1, <2>1 DEF LimitInv
  <1>3. ASSUME NEW c \in Creators, Placed' \subseteq (sessions \ overlapped) \cup {c}, Room(c)
        PROVE  LimitInv'
    <2> DEFINE S == sessions \cup {c}
    <2>1. IsFiniteSet(S) /\ Cardinality(S) <= Cardinality(sessions) + 1
      BY <1>1, FS_AddElement
    <2>2. Placed' \in SUBSET S
      BY <1>3
    <2>3. Cardinality(Placed') <= Cardinality(S) /\ IsFiniteSet(Placed')
      BY <2>1, <2>2, FS_Subset
    <2>4. Cardinality(S) \in Nat /\ Cardinality(Placed') \in Nat
      BY <2>1, <2>3, FS_CardinalityType
    <2>5. Cardinality(sessions) < MaxSessions
      BY <1>3 DEF Room
    <2> HIDE DEF S
    <2> QED BY <1>1, <2>1, <2>3, <2>4, <2>5 DEF LimitInv
  <1> QED BY <1>2, <1>3, PlacedGrows

(* More sessions than the limit only by creations that were counted while   *)
(* another one was between its own count and its registration.              *)
THEOREM LimitUnlessOverlap == Spec => []LimitByOverlap
  <1>1. Init => LimitInv
    <2> SUFFICES ASSUME Init PROVE LimitInv
      OBVIOUS
    <2>1. Placed = {}
      BY DEF Init, Placed, Underway
    <2> QED BY <2>1, FS_EmptySet, TerminalsAssumption DEF LimitInv
  <1>2. HeldInv => Kinds
    BY DEF HeldInv
  <1>3. Kinds /\ LimitInv => LimitByOverlap
    <2> SUFFICES ASSUME Kinds, LimitInv PROVE LimitByOverlap
      OBVIOUS
    <2>1. Placed \in SUBSET Creators /\ sessions \ overlapped \in SUBSET Placed
      BY DEF Placed, Underway, Kinds
    <2>2. IsFiniteSet(Placed) /\ IsFiniteSet(sessions \ overlapped)
          /\ Cardinality(sessions \ overlapped) <= Cardinality(Placed)
      BY <2>1, TerminalsAssumption, FS_Subset
    <2>3. Cardinality(Placed) \in Nat /\ Cardinality(sessions \ overlapped) \in Nat
      BY <2>2, FS_CardinalityType
    <2> QED BY <2>2, <2>3, TerminalsAssumption DEF LimitInv, LimitByOverlap
  <1> QED BY <1>1, <1>2, <1>3, InitHeld, NextHeld, NextLimit, PTL DEF Spec

-----------------------------------------------------------------------------
(* Types: a WebSocket that went past its first look has a target.           *)

Aimed == \A s \in Sockets : socket[s] \in {"greeting", "attached", "leaving"} =>
                               target[s] \in Creators

LEMMA CreatorTyped ==
  ASSUME TypeOK, NEW c \in Creators,
         \/ Prune(c) \/ Open(c) \/ Spawn(c) \/ CancelRequest(c) \/ Undo(c)
         \/ CloseFailed(c) \/ Register(c) \/ ShellExits(c)
         \/ Delete(c) \/ Pop(c) \/ CloseMaster(c) \/ StopShell(c)
  PROVE  TypeOK' /\ UNCHANGED <<socket, target>>
  <1> USE DEF TypeOK, Become, Ask, dict, creating, ptys, cleanups, socketVars, writerVars
  <1>1. CASE Prune(c) BY <1>1 DEF Prune
  <1>2. CASE Open(c)
    <2>1. UNCHANGED <<sessions, connected, cancelled, shell, cleaning, cleanup, socket,
                      target, reader, writer, inputOf>>
      BY <1>2 DEF Open
    <2>2. doomed' \in [Creators -> SUBSET Creators] BY <1>2 DEF Open
    <2>3. \/ /\ \E f \in Fds : table' = [table EXCEPT ![f] = c] /\ fd' = [fd EXCEPT ![c] = f]
             /\ Become(c, "opened") /\ overlapped' \in {overlapped, overlapped \cup {c}}
          \/ Become(c, "failed") /\ UNCHANGED <<fd, table, overlapped>>
      BY <1>2 DEF Open
    <2> QED BY <2>1, <2>2, <2>3
  <1>3. CASE Spawn(c) BY <1>3 DEF Spawn
  <1>4. CASE CancelRequest(c) BY <1>4 DEF CancelRequest
  <1>5. CASE Undo(c) BY <1>5 DEF Undo
  <1>6. CASE CloseFailed(c) BY <1>6 DEF CloseFailed, Closed
  <1>7. CASE Register(c) BY <1>7 DEF Register
  <1>8. CASE ShellExits(c) BY <1>8 DEF ShellExits
  <1>9. CASE Delete(c) BY <1>9 DEF Delete
  <1>10. CASE Pop(c) BY <1>10 DEF Pop, TakenOut
  <1>11. CASE CloseMaster(c) BY <1>11 DEF CloseMaster, Closed
  <1>12. CASE StopShell(c) BY <1>12 DEF StopShell
  <1> QED BY <1>1, <1>2, <1>3, <1>4, <1>5, <1>6, <1>7, <1>8, <1>9, <1>10, <1>11, <1>12

LEMMA SocketTyped ==
  ASSUME TypeOK, Aimed, NEW s \in Sockets,
         Connect(s) \/ Attach(s) \/ Disconnect(s) \/ Leave(s) \/ StopReading(s)
  PROVE  TypeOK' /\ Aimed'
  <1> USE DEF TypeOK, Aimed, Ask, dict, creating, ptys, cleanups, writerVars
  <1>1. CASE Connect(s)
    <2>1. PICK c \in sessions :
            \/ /\ cleaning' = cleaning \cup {c} /\ UNCHANGED target
               /\ socket' = [socket EXCEPT ![s] = "refused"]
            \/ /\ socket' = [socket EXCEPT ![s] = "greeting"]
               /\ target' = [target EXCEPT ![s] = c] /\ UNCHANGED cleaning
      BY <1>1 DEF Connect
    <2> QED BY <1>1, <2>1 DEF Connect
  <1>2. CASE Attach(s) BY <1>2 DEF Attach
  <1>3. CASE Disconnect(s) BY <1>3 DEF Disconnect
  <1>4. CASE Leave(s) BY <1>4 DEF Leave, Left
  <1>5. CASE StopReading(s) BY <1>5 DEF StopReading
  <1> QED BY <1>1, <1>2, <1>3, <1>4, <1>5

LEMMA NextTyped == TypeOK /\ Aimed /\ [Next]_vars => TypeOK' /\ Aimed'
  <1> SUFFICES ASSUME TypeOK, Aimed, [Next]_vars PROVE TypeOK' /\ Aimed' OBVIOUS
  <1> USE DEF dict, creating, ptys, cleanups, socketVars, writerVars
  <1>1. CASE UNCHANGED vars BY <1>1 DEF vars, TypeOK, Aimed
  <1>2. ASSUME NEW c \in Creators,
               \/ Prune(c) \/ Open(c) \/ Spawn(c) \/ CancelRequest(c) \/ Undo(c)
               \/ CloseFailed(c) \/ Register(c) \/ ShellExits(c)
               \/ Delete(c) \/ Pop(c) \/ CloseMaster(c) \/ StopShell(c)
        PROVE  TypeOK' /\ Aimed'
    BY <1>2, CreatorTyped DEF Aimed
  <1>3. ASSUME NEW w \in Writers, FindTerminal(w) \/ Receive(w) \/ Lock(w) \/ Written(w)
        PROVE  TypeOK' /\ Aimed'
    BY <1>3 DEF FindTerminal, Receive, Lock, Written, TypeOK, Aimed
  <1> QED BY <1>1, <1>2, <1>3, SocketTyped DEF Next

(* Sessions, creations, descriptors, sockets and inputs keep their types.   *)
THEOREM TerminalsTyped == Spec => []TypeOK
  <1>1. Init => TypeOK /\ Aimed BY DEF Init, TypeOK, Aimed
  <1> QED BY <1>1, NextTyped, PTL DEF Spec
=============================================================================
