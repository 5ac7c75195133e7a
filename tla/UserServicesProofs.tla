------------------------- MODULE UserServicesProofs -------------------------
(***************************************************************************)
(* Proofs about what the service does for an upstream user: its notebook   *)
(* sessions, for any number of creations and of cells, and its identity,   *)
(* for any users, names, images, service processes and number of crashes.  *)
(* The two specifications have no variable in common.                      *)
(***************************************************************************)
EXTENDS Notebooks, Provisioning, TLAPS

-----------------------------------------------------------------------------
(***************************************************************************)
(* Notebooks.  OwnerInv adds to KernelOwned what ties a session to the     *)
(* creation that made it: it is listed and torn down only after its        *)
(* registration, never both at once, and its directory is there from the   *)
(* admission on; the kernel is let go before the directory.                *)
(***************************************************************************)
Starts == {"idle", "reading", "admission", "withdrawing", "launching", "undoing",
           "connecting", "failing", "removing", "failed", "registered"}

Kinds ==
    /\ start \in [Creations -> Starts]
    /\ kernel \in [Creations -> {"none", "reserved", "running", "ended"}]
    /\ teardown \in [Creations -> {"none", "stopping", "removing", "done"}]

(* From the client with its directory to the session or to the failure.     *)
InHand(c) ==
    start[c] \in {"admission", "withdrawing", "launching", "undoing", "connecting"}

Housed(c) ==
    /\ c \in sessions => start[c] = "registered" /\ teardown[c] = "none"
    /\ teardown[c] # "none" => start[c] = "registered"
    /\ InHand(c) \/ c \in sessions => c \in directories

Owned(c) ==
    /\ kernel[c] \in {"reserved", "running"} =>
         \/ Starting(c) /\ start[c] # "removing"
         \/ c \in sessions \/ teardown[c] = "stopping" \/ c \in incomplete
    /\ c \in directories =>
         Starting(c) \/ c \in sessions \/ teardown[c] \in {"stopping", "removing"}

OwnerInv == Kinds /\ \A c \in Creations : Housed(c) /\ Owned(c)

LEMMA InitOwner == Init => OwnerInv
  BY DEF Init, OwnerInv, Kinds, Starts, Housed, Owned, InHand, Starting

(* The steps of a creation, up to its session or its failure.               *)
LEMMA CreationOwner ==
  ASSUME OwnerInv, NEW c \in Creations,
         \/ Begin(c) \/ Cancel(c) \/ ReadNotebook(c) \/ Grant(c) \/ Admit(c) \/ Withdraw(c)
         \/ Launch(c) \/ Undo(c) \/ Connect(c) \/ Expire(c) \/ StopFailed(c) \/ RemoveFailed(c)
  PROVE  OwnerInv'
  <1> USE DEF OwnerInv, Kinds, Starts, Housed, Owned, InHand, Starting, Go, Kernel,
              creating, resources, table
  <1>1. CASE Begin(c) \/ Cancel(c)
    BY <1>1 DEF Begin, Cancel
  <1>2. CASE ReadNotebook(c)
    BY <1>2 DEF ReadNotebook
  <1>3. CASE Grant(c)
    BY <1>3 DEF Grant
  <1>4. CASE Admit(c)
    BY <1>4 DEF Admit
  <1>5. CASE Withdraw(c)
    BY <1>5 DEF Withdraw, Stopped
  <1>6. CASE Launch(c)
    BY <1>6 DEF Launch, Stopped
  <1>7. CASE Undo(c)
    BY <1>7 DEF Undo, Undone, Stopped
  <1>8. CASE Connect(c)
    BY <1>8 DEF Connect
  <1>9. CASE Expire(c)
    BY <1>9 DEF Expire
  <1>10. CASE StopFailed(c)
    BY <1>10 DEF StopFailed, Stopped
  <1>11. CASE RemoveFailed(c)
    BY <1>11 DEF RemoveFailed
  <1> QED BY <1>1, <1>2, <1>3, <1>4, <1>5, <1>6, <1>7, <1>8, <1>9, <1>10, <1>11

(* Whoever takes a session out starts its teardown in the same step.        *)
LEMMA DestroyOwner ==
  ASSUME OwnerInv, NEW c, Destroy(c), UNCHANGED <<start, resources>>
  PROVE  OwnerInv'
  BY DEF Destroy, OwnerInv, Kinds, Starts, Housed, Owned, InHand, Starting, resources

LEMMA TeardownOwner ==
  ASSUME OwnerInv, NEW c \in Creations, StopKernel(c) \/ RemoveDirectory(c)
  PROVE  OwnerInv'
  <1> USE DEF OwnerInv, Kinds, Starts, Housed, Owned, InHand, Starting,
              creating, resources, table
  <1>1. CASE StopKernel(c)
    BY <1>1 DEF StopKernel, Stopped
  <1>2. CASE RemoveDirectory(c)
    BY <1>2 DEF RemoveDirectory
  <1> QED BY <1>1, <1>2

(* What the invariant speaks of.                                            *)
Holdings == <<start, resources, sessions, teardown>>

LEMMA QuietOwner == ASSUME OwnerInv, UNCHANGED Holdings PROVE OwnerInv'
  BY DEF Holdings, resources, OwnerInv, Kinds, Housed, Owned, InHand, Starting

LEMMA NextOwner == OwnerInv /\ [Next]_vars => OwnerInv'
  <1> SUFFICES ASSUME OwnerInv, [Next]_vars PROVE OwnerInv' OBVIOUS
  <1>1. CASE UNCHANGED vars
    BY <1>1, QuietOwner DEF vars, Holdings, creating, table
  <1>2. ASSUME NEW c \in Creations,
               \/ Begin(c) \/ Cancel(c) \/ ReadNotebook(c) \/ Grant(c) \/ Admit(c)
               \/ Withdraw(c) \/ Launch(c) \/ Undo(c) \/ Connect(c) \/ Expire(c)
               \/ StopFailed(c) \/ RemoveFailed(c) \/ StopKernel(c) \/ RemoveDirectory(c)
        PROVE  OwnerInv'
    BY <1>2, CreationOwner, TeardownOwner
  <1>3. ASSUME NEW c \in Creations, Delete(c) PROVE OwnerInv'
    BY <1>3, DestroyOwner DEF Delete, creating
  <1>4. CASE DestroyIdle
    <2>1. PICK c \in listed : Destroy(c) BY <1>4 DEF DestroyIdle
    <2> QED BY <1>4, <2>1, DestroyOwner DEF DestroyIdle, creating
  <1>5. ASSUME NEW e \in Cells, CancelCell(e) PROVE OwnerInv'
    BY <1>5, DestroyOwner DEF CancelCell, creating
  <1>6. ASSUME NEW e \in Cells, Execute(e) \/ Run(e) \/ Save(e) \/ CellDestroyed(e)
        PROVE  OwnerInv'
    BY <1>6, QuietOwner DEF Execute, Run, Save, CellDestroyed, Holdings, creating
  <1>7. ASSUME NEW c \in Creations, Age(c) PROVE OwnerInv'
    BY <1>7, QuietOwner DEF Age, Holdings, creating
  <1>8. CASE ListIdle \/ Destroyed
    BY <1>8, QuietOwner DEF ListIdle, Destroyed, Holdings, creating, table
  <1> QED BY <1>1, <1>2, <1>3, <1>4, <1>5, <1>6, <1>7, <1>8 DEF Next

(* No kernel, reservation or connection directory is ever forgotten: at     *)
(* whichever await a creation is cancelled, a teardown is shielded, an idle *)
(* pass and a DELETE meet, somebody still has it.                           *)
THEOREM KernelsOwned == Spec => []KernelOwned
  <1>1. OwnerInv => KernelOwned
    BY DEF OwnerInv, KernelOwned, Housed, Owned
  <1> QED BY <1>1, InitOwner, NextOwner, PTL DEF Spec

-----------------------------------------------------------------------------
(* Types.                                                                   *)

(* Only the session that is there is torn down, whoever asks.               *)
LEMMA DestroyTyped ==
  ASSUME TypeOK, NEW c \in Creations \cup {Nothing}, Destroy(c)
  PROVE  /\ sessions' \subseteq Creations
         /\ teardown' \in [Creations -> {"none", "stopping", "removing", "done"}]
  BY DEF TypeOK, Destroy

LEMMA CreationTyped ==
  ASSUME TypeOK, NEW c \in Creations,
         \/ Begin(c) \/ Cancel(c) \/ ReadNotebook(c) \/ Grant(c) \/ Admit(c)
         \/ Withdraw(c) \/ Launch(c) \/ Undo(c) \/ Connect(c) \/ Expire(c)
         \/ StopFailed(c) \/ RemoveFailed(c)
  PROVE  TypeOK'
  <1> USE DEF TypeOK, Go, Kernel, creating, resources, table, pass, executions
  <1>1. Stopped(c) => /\ kernel' \in [Creations -> {"none", "reserved", "running", "ended"}]
                      /\ incomplete' \subseteq Creations
    BY DEF Stopped
  <1>2. CASE Begin(c) BY <1>2 DEF Begin
  <1>3. CASE Cancel(c) BY <1>3 DEF Cancel
  <1>4. CASE ReadNotebook(c) BY <1>4 DEF ReadNotebook
  <1>5. CASE Grant(c) BY <1>5 DEF Grant
  <1>6. CASE Admit(c) BY <1>6 DEF Admit
  <1>7. CASE Withdraw(c) BY <1>1, <1>7 DEF Withdraw
  <1>8. CASE Launch(c) BY <1>1, <1>8 DEF Launch
  <1>9. CASE Undo(c) BY <1>1, <1>9 DEF Undo, Undone
  <1>10. CASE Connect(c) BY <1>10 DEF Connect
  <1>11. CASE Expire(c) BY <1>11 DEF Expire
  <1>12. CASE StopFailed(c) BY <1>1, <1>12 DEF StopFailed
  <1>13. CASE RemoveFailed(c) BY <1>13 DEF RemoveFailed
  <1> QED BY <1>2, <1>3, <1>4, <1>5, <1>6, <1>7, <1>8, <1>9, <1>10, <1>11, <1>12, <1>13

LEMMA SessionTyped ==
  ASSUME TypeOK, NEW c \in Creations,
         Delete(c) \/ StopKernel(c) \/ RemoveDirectory(c) \/ Age(c)
  PROVE  TypeOK'
  <1> USE DEF TypeOK, creating, resources, table, pass, executions
  <1>1. CASE Delete(c) BY <1>1, DestroyTyped DEF Delete
  <1>2. CASE StopKernel(c)
    <2>1. /\ kernel' \in [Creations -> {"none", "reserved", "running", "ended"}]
          /\ incomplete' \subseteq Creations
      BY <1>2 DEF StopKernel, Stopped
    <2> QED BY <1>2, <2>1 DEF StopKernel
  <1>3. CASE RemoveDirectory(c) BY <1>3 DEF RemoveDirectory
  <1>4. CASE Age(c) BY <1>4 DEF Age
  <1> QED BY <1>1, <1>2, <1>3, <1>4

LEMMA CellTyped ==
  ASSUME TypeOK, NEW e \in Cells,
         Execute(e) \/ Run(e) \/ Save(e) \/ CancelCell(e) \/ CellDestroyed(e)
  PROVE  TypeOK'
  <1> USE DEF TypeOK, At, creating, resources, table, pass
  <1>1. CASE Execute(e)
    <2>1. PICK c \in sessions :
            \/ /\ busy' = busy \cup {c} /\ unused' = unused \ {c}
               /\ on' = [on EXCEPT ![e] = c] /\ At(e, "running")
               /\ late' \in {late, late \cup {c}}
            \/ At(e, "done") /\ UNCHANGED <<busy, unused, on, late>>
      BY <1>1 DEF Execute
    <2> QED BY <1>1, <2>1 DEF Execute
  <1>2. CASE Run(e) BY <1>2 DEF Run, Finish
  <1>3. CASE Save(e) BY <1>3 DEF Save, Finish
  <1>4. CASE CancelCell(e)
    <2>1. on[e] \in Creations \cup {Nothing} OBVIOUS
    <2> QED BY <1>4, <2>1, DestroyTyped DEF CancelCell
  <1>5. CASE CellDestroyed(e) BY <1>5 DEF CellDestroyed, Finish
  <1> QED BY <1>1, <1>2, <1>3, <1>4, <1>5

LEMMA NextTyped == TypeOK /\ [Next]_vars => TypeOK'
  <1> SUFFICES ASSUME TypeOK, [Next]_vars PROVE TypeOK' OBVIOUS
  <1> USE DEF creating, resources, table, pass, executions
  <1>1. CASE UNCHANGED vars BY <1>1 DEF vars, TypeOK
  <1>2. CASE ListIdle BY <1>2 DEF ListIdle, TypeOK
  <1>3. CASE DestroyIdle
    <2>1. PICK c \in listed :
            /\ Destroy(c) /\ listed' = listed \ {c}
            /\ sweeping' = IF c \in sessions THEN c ELSE Nothing
      BY <1>3 DEF DestroyIdle
    <2>2. c \in Creations BY DEF TypeOK
    <2> QED BY <1>3, <2>1, <2>2, DestroyTyped DEF DestroyIdle, TypeOK
  <1>4. CASE Destroyed BY <1>4 DEF Destroyed, TypeOK
  <1> QED BY <1>1, <1>2, <1>3, <1>4, CreationTyped, SessionTyped, CellTyped DEF Next

(* The creations, sessions, kernels and cells keep their types.             *)
THEOREM NotebooksTyped == Spec => []TypeOK
  <1>1. Init => TypeOK BY DEF Init, TypeOK
  <1> QED BY <1>1, NextTyped, PTL DEF Spec

-----------------------------------------------------------------------------
(* Idle cleanup.                                                            *)

(* What the idle pass has yet to destroy was idle when it was listed: it is *)
(* busy only if it was used since.                                          *)
ListedSpared == \A c \in listed : c \in busy => c \in late

(* Only a cell that starts makes a session busy, and it is noted as late    *)
(* when the pass has the session on its list; a new list has no busy one.   *)
LEMMA NextSpared == ListedSpared /\ [Next]_vars => ListedSpared'
  <1> SUFFICES ASSUME ListedSpared, [Next]_vars PROVE ListedSpared' OBVIOUS
  <1>1. CASE UNCHANGED <<busy, listed, late>>
    BY <1>1 DEF ListedSpared
  <1>2. CASE ListIdle
    BY <1>2 DEF ListIdle, Idle, ListedSpared, table
  <1>3. CASE DestroyIdle
    BY <1>3 DEF DestroyIdle, ListedSpared
  <1>4. ASSUME NEW e \in Cells, Execute(e) PROVE ListedSpared'
    BY <1>4 DEF Execute, ListedSpared, pass
  <1>5. ASSUME NEW e \in Cells, Run(e) \/ Save(e) \/ CellDestroyed(e) PROVE ListedSpared'
    BY <1>5 DEF Run, Save, CellDestroyed, Finish, ListedSpared, pass
  <1>6. \/ UNCHANGED <<busy, listed, late>>
        \/ ListIdle \/ DestroyIdle
        \/ \E e \in Cells : Execute(e) \/ Run(e) \/ Save(e) \/ CellDestroyed(e)
    BY DEF Next, vars, table, pass, Begin, Cancel, ReadNotebook, Grant, Admit, Withdraw,
           Launch, Undo, Connect, Expire, StopFailed, RemoveFailed, Delete, StopKernel,
           RemoveDirectory, Age, Destroyed, CancelCell
  <1> QED BY <1>1, <1>2, <1>3, <1>4, <1>5, <1>6

(* Idle cleanup destroys a session in the middle of a cell only when that   *)
(* cell started after the pass had listed the session as idle.              *)
THEOREM IdleSpares == Spec => IdleSparesBusy
  <1>1. Init => ListedSpared
    BY DEF Init, ListedSpared
  <1>2. ListedSpared /\ [Next]_vars =>
          [\A c \in sessions \ sessions' :
              sweeping' = c /\ sweeping # c /\ c \in busy => c \in late]_vars
    <2> SUFFICES ASSUME ListedSpared, Next, NEW c \in sessions \ sessions',
                        sweeping' = c, sweeping # c, c \in busy
                 PROVE  c \in late
      BY DEF vars
    <2>1. sweeping' # sweeping
      OBVIOUS
    <2>2. DestroyIdle \/ Destroyed
      BY <2>1 DEF Next, pass, table, Begin, Cancel, ReadNotebook, Grant, Admit, Withdraw,
             Launch, Undo, Connect, Expire, StopFailed, RemoveFailed, Delete, StopKernel,
             RemoveDirectory, Age, ListIdle, Execute, Run, Save, CancelCell, CellDestroyed
    <2>3. DestroyIdle
      BY <2>2 DEF Destroyed, table
    <2>4. PICK d \in listed : Destroy(d)
      BY <2>3 DEF DestroyIdle
    <2>5. c = d
      BY <2>4 DEF Destroy
    <2> QED BY <2>4, <2>5 DEF ListedSpared
  <1> QED BY <1>1, <1>2, NextSpared, PTL DEF Spec, IdleSparesBusy

-----------------------------------------------------------------------------
(***************************************************************************)
(* Provisioning.  Only the holder of the operation lock is on its way, so  *)
(* what it read at one step is still so at the next; the others' crashes   *)
(* touch the insides of homes at most.                                     *)
(***************************************************************************)
Recorded == {"account", "group", "add", "check", "repair", "members", "finish"}

OnItsWay == {"look", "allocate"} \cup Recorded

(* The identity d is nobody's, and nobody else's home has it.               *)
Apart(d) ==
    /\ \A u \in Registered :
         users[u].name # d.name /\ users[u].uid # d.uid /\ users[u].gid # d.gid
    /\ \A n \in Names : homes[n] # None /\ n # d.name =>
         homes[n].uid # d.uid /\ homes[n].gid # d.gid

Drafted(r) ==
    /\ Record(r) = None /\ copy[r] = users
    /\ draft[r] \in Identities /\ Apart(draft[r])

OwnAccount(r) ==
    /\ accounts[Name(r)].uid = Record(r).uid /\ accounts[Name(r)].gid = Record(r).gid

(* The entries of the home are the user's, unless a crash dirtied some.     *)
Whole(r) ==
    /\ homes[Name(r)].deep \/ Name(r) \in dirtied
    /\ homes[Name(r)].linked \subseteq {Record(r).uid}

(* What the steps before its own have established for a request.            *)
Reached(r) ==
    /\ pc[r] \in OnItsWay => lock = r
    /\ pc[r] = "allocate" => Drafted(r)
    /\ pc[r] \in Recorded => Record(r) # None
    /\ pc[r] \in Recorded \ {"account"} /\ Account(Name(r)) => OwnAccount(r)
    /\ pc[r] \in {"check", "repair", "members", "finish"} => Account(Name(r))
    /\ pc[r] \in {"members", "finish"} => Whole(r)

(* An account or group that is not the image's is due to a registration.    *)
AccountOf(n, u) ==
    /\ users[u].name = n /\ accounts[n].managed
    /\ accounts[n].uid = users[u].uid /\ accounts[n].gid = users[u].gid

GroupOf(n, u) == users[u].name = n /\ groups[n] = users[u].gid

Traces ==
    \A n \in Names :
      /\ Account(n) /\ accounts[n] # image.accounts[n] =>
           \E u \in Registered : AccountOf(n, u)
      /\ groups[n] # NoId /\ groups[n] # image.groups[n] =>
           \E u \in Registered : GroupOf(n, u)

IdentityInv ==
    /\ IdentityTypeOK /\ Separate /\ Traces
    /\ \A r \in Requests : Reached(r)

(* A step that gives nobody another identity.                               *)
Same ==
    \A u \in Users :
      /\ users'[u] = None <=> users[u] = None
      /\ users[u] # None => /\ users'[u].name = users[u].name
                            /\ users'[u].uid = users[u].uid
                            /\ users'[u].gid = users[u].gid

LEMMA Typed ==
    ASSUME IdentityTypeOK, NEW r \in Requests
    PROVE  /\ User(r) \in Users /\ ProcessOf[r] \in Processes
           /\ Record(r) # None =>
                /\ User(r) \in Registered /\ Record(r) \in Identities
                /\ Name(r) \in Names
                /\ Record(r).uid \in 1..MaxUid /\ Record(r).gid \in 1..MaxUid
BY ProvisioningAssumption
   DEF IdentityTypeOK, User, Record, Name, Registered, Identities

(* A record and a home are not None.                                        *)
LEMMA Something == None \notin Identities /\ None \notin Accounts /\ None \notin Homes
<1>1. None.uid = 0
  BY DEF None, NoId
<1>2. \A d \in Identities : d.uid # 0
  BY ProvisioningAssumption DEF Identities
<1>3. \A a \in Accounts : a.uid # 0
  BY ProvisioningAssumption DEF Accounts
<1>4. ASSUME None \in Homes PROVE FALSE
  <2>1. DOMAIN None = {"uid", "gid", "mode", "deep", "linked"} /\ DOMAIN None = {"uid"}
    BY <1>4 DEF Homes, None
  <2>2. "gid" \in {"uid", "gid", "mode", "deep", "linked"} /\ "gid" \notin {"uid"}
    OBVIOUS
  <2> QED BY <2>1, <2>2
<1> QED BY <1>1, <1>2, <1>3, <1>4

(* mark writes the state alone.                                             *)
LEMMA MarkedSame ==
    ASSUME IdentityTypeOK, NEW r \in Requests, Record(r) # None,
           NEW state \in {"allocated", "provisioning", "ready"}, Marked(r, state)
    PROVE  /\ users' \in [Users -> Identities \cup {None}] /\ Same
           /\ Record(r)'.state = state
<1> DEFINE u == User(r)
           d == [users[u] EXCEPT !.state = state]
<1>1. u \in Users /\ users[u] \in Identities
  BY Typed DEF Record
<1>2. /\ d \in Identities /\ d.name = users[u].name
      /\ d.uid = users[u].uid /\ d.gid = users[u].gid /\ d.state = state
  BY <1>1 DEF Identities
<1>3. users' = [users EXCEPT ![u] = d]
  BY DEF Marked
<1> HIDE DEF d
<1>4. users'[u] = d /\ \A v \in Users \ {u} : users'[v] = users[v]
  BY <1>1, <1>3 DEF IdentityTypeOK
<1>5. users' \in [Users -> Identities \cup {None}]
  BY <1>1, <1>2, <1>3 DEF IdentityTypeOK
<1>6. Same
  BY <1>1, <1>2, <1>4, Something DEF Same
<1> QED BY <1>2, <1>4, <1>5, <1>6 DEF Record, User

LEMMA NobodyMoved == ASSUME users' = users PROVE Same
BY DEF Same

-----------------------------------------------------------------------------
(* Identities stay apart.                                                   *)

(* Where the owners of a home can come from.                                *)
OwnersKept ==
    \A n \in Names : homes'[n] # None =>
      \/ /\ homes[n] # None
         /\ homes'[n].uid = homes[n].uid /\ homes'[n].gid = homes[n].gid
      \/ homes'[n].uid = NoId /\ homes'[n].gid = NoId
      \/ \E u \in Registered : /\ users[u].name = n
                               /\ homes'[n].uid = users[u].uid
                               /\ homes'[n].gid = users[u].gid

LEMMA SameRegistered ==
    ASSUME Same
    PROVE  /\ Registered' = Registered
           /\ \A u \in Registered : /\ u \in Users
                                    /\ users'[u].name = users[u].name
                                    /\ users'[u].uid = users[u].uid
                                    /\ users'[u].gid = users[u].gid
BY DEF Same, Registered

LEMMA SeparateKept ==
    ASSUME IdentityTypeOK, Separate, Same, OwnersKept
    PROVE  Separate'
<1>1. /\ Registered' = Registered
      /\ \A u \in Registered : /\ u \in Users
                               /\ users'[u].name = users[u].name
                               /\ users'[u].uid = users[u].uid
                               /\ users'[u].gid = users[u].gid
  BY SameRegistered
<1>2. ASSUME NEW u \in Registered, NEW v \in Registered, u # v
      PROVE  /\ users'[u].name # users'[v].name
             /\ users'[u].uid # users'[v].uid /\ users'[u].gid # users'[v].gid
  BY <1>1, <1>2 DEF Separate
<1>3. ASSUME NEW u \in Registered, NEW n \in Names, homes'[n] # None, n # users'[u].name
      PROVE  homes'[n].uid # users'[u].uid /\ homes'[n].gid # users'[u].gid
  <2>1. n # users[u].name
    BY <1>1, <1>3
  <2>2. users[u].uid # NoId /\ users[u].gid # NoId
    BY <1>1, ProvisioningAssumption DEF IdentityTypeOK, Registered, Identities, NoId
  <2>3. CASE /\ homes[n] # None
             /\ homes'[n].uid = homes[n].uid /\ homes'[n].gid = homes[n].gid
    BY <1>1, <2>1, <2>3 DEF Separate
  <2>4. CASE homes'[n].uid = NoId /\ homes'[n].gid = NoId
    BY <1>1, <2>2, <2>4
  <2>5. ASSUME NEW w \in Registered, users[w].name = n,
               homes'[n].uid = users[w].uid, homes'[n].gid = users[w].gid
        PROVE  homes'[n].uid # users'[u].uid /\ homes'[n].gid # users'[u].gid
    <3>1. w # u
      BY <2>1, <2>5
    <3> QED BY <1>1, <2>5, <3>1 DEF Separate
  <2> QED BY <1>3, <2>3, <2>4, <2>5 DEF OwnersKept
<1> QED BY <1>1, <1>2, <1>3 DEF Separate

(* A new identity that is apart from the others.                            *)
LEMMA SeparateGrows ==
    ASSUME IdentityTypeOK, Separate, NEW u \in Users, users[u] = None,
           NEW d \in Identities, Apart(d),
           users' = [users EXCEPT ![u] = d], homes' = homes
    PROVE  Separate'
<1>1. users'[u] = d /\ \A v \in Users \ {u} : users'[v] = users[v]
  BY DEF IdentityTypeOK
<1>2. Registered' = Registered \cup {u} /\ Registered \subseteq Users \ {u}
  BY <1>1, Something DEF Registered
<1>3. \A v \in Registered : users'[v] = users[v]
  BY <1>1, <1>2
<1>4. ASSUME NEW v \in Registered', NEW w \in Registered', v # w
      PROVE  /\ users'[v].name # users'[w].name
             /\ users'[v].uid # users'[w].uid /\ users'[v].gid # users'[w].gid
  <2>1. CASE v = u
    BY <1>1, <1>2, <1>3, <1>4, <2>1 DEF Apart
  <2>2. CASE w = u
    BY <1>1, <1>2, <1>3, <1>4, <2>2 DEF Apart
  <2>3. CASE v # u /\ w # u
    BY <1>2, <1>3, <1>4, <2>3 DEF Separate
  <2> QED BY <2>1, <2>2, <2>3
<1>5. ASSUME NEW v \in Registered', NEW n \in Names, homes[n] # None, n # users'[v].name
      PROVE  homes[n].uid # users'[v].uid /\ homes[n].gid # users'[v].gid
  <2>1. CASE v = u
    BY <1>1, <1>5, <2>1 DEF Apart
  <2>2. CASE v # u
    BY <1>2, <1>3, <1>5, <2>2 DEF Separate
  <2> QED BY <2>1, <2>2
<1> QED BY <1>4, <1>5 DEF Separate

-----------------------------------------------------------------------------
(* Traces in passwd and group.                                              *)

(* What a step may add to passwd and group: what is due to somebody.        *)
TracesAdded ==
    \A n \in Names :
      /\ \/ accounts'[n] = accounts[n]
         \/ \E u \in Registered :
              /\ users[u].name = n
              /\ accounts'[n] = [uid |-> users[u].uid, gid |-> users[u].gid, managed |-> TRUE]
      /\ \/ groups'[n] = groups[n]
         \/ \E u \in Registered : users[u].name = n /\ groups'[n] = users[u].gid

LEMMA TracesKept ==
    ASSUME Traces, image' = image, TracesAdded,
           Registered \subseteq Registered',
           \A u \in Registered : /\ users'[u].name = users[u].name
                                /\ users'[u].uid = users[u].uid
                                /\ users'[u].gid = users[u].gid
    PROVE  Traces'
<1> SUFFICES ASSUME NEW n \in Names
             PROVE  /\ Account(n)' /\ accounts'[n] # image.accounts[n] =>
                         \E u \in Registered' : AccountOf(n, u)'
                    /\ groups'[n] # NoId /\ groups'[n] # image.groups[n] =>
                         \E u \in Registered' : GroupOf(n, u)'
  BY DEF Traces
<1>2. ASSUME Account(n)', accounts'[n] # image.accounts[n]
      PROVE  \E u \in Registered' : AccountOf(n, u)'
  <2>1. CASE accounts'[n] = accounts[n]
    <3>1. PICK u \in Registered : AccountOf(n, u)
      BY <1>2, <2>1 DEF Traces, Account
    <3>2. AccountOf(n, u)'
      BY <2>1, <3>1 DEF AccountOf
    <3> QED BY <3>2
  <2>2. ASSUME NEW u \in Registered, users[u].name = n,
               accounts'[n] = [uid |-> users[u].uid, gid |-> users[u].gid, managed |-> TRUE]
        PROVE  AccountOf(n, u)'
    BY <2>2 DEF AccountOf
  <2> QED BY <2>1, <2>2 DEF TracesAdded
<1>3. ASSUME groups'[n] # NoId, groups'[n] # image.groups[n]
      PROVE  \E u \in Registered' : GroupOf(n, u)'
  <2>1. CASE groups'[n] = groups[n]
    <3>1. PICK u \in Registered : GroupOf(n, u)
      BY <1>3, <2>1 DEF Traces
    <3>2. GroupOf(n, u)'
      BY <2>1, <3>1 DEF GroupOf
    <3> QED BY <3>2
  <2>2. ASSUME NEW u \in Registered, users[u].name = n, groups'[n] = users[u].gid
        PROVE  GroupOf(n, u)'
    BY <2>2 DEF GroupOf
  <2> QED BY <2>1, <2>2 DEF TracesAdded
<1> QED BY <1>2, <1>3

-----------------------------------------------------------------------------
(* Types, and what a step does to identities, homes and accounts.           *)

LEMMA Goes ==
    ASSUME IdentityTypeOK, NEW r \in Requests,
           NEW e \in {"idle", "look", "allocate", "account", "group", "add", "check",
                     "repair", "members", "finish", "returned", "failed", "refused"},
           Goto(r, e) \/ Leave(r, e)
    PROVE  /\ pc' \in [Requests -> {"idle", "look", "allocate", "account", "group", "add",
                                    "check", "repair", "members", "finish",
                                    "returned", "failed", "refused"}]
           /\ lock' \in Requests \cup {"nobody"}
           /\ pc'[r] = e /\ \A q \in Requests \ {r} : pc'[q] = pc[q]
BY DEF Goto, Leave, IdentityTypeOK

LEMMA NewHomeIs ==
    ASSUME IdentityTypeOK, NEW n \in Names
    PROVE  /\ NewHome(n) \in [Names -> Homes \cup {None}] /\ NewHome(n)[n] \in Homes
           /\ \A k \in Names \ {n} : NewHome(n)[k] = homes[k]
           /\ homes[n] # None => NewHome(n) = homes
           /\ homes[n] = None => NewHome(n)[n].uid = NoId /\ NewHome(n)[n].gid = NoId
<1> DEFINE h == [uid |-> NoId, gid |-> NoId, mode |-> FALSE, deep |-> TRUE, linked |-> {}]
<1>1. h \in Homes /\ h.uid = NoId /\ h.gid = NoId
  BY ProvisioningAssumption DEF Homes, NoId
<1>2. NewHome(n) = IF homes[n] = None THEN [homes EXCEPT ![n] = h] ELSE homes
  BY DEF NewHome
<1> HIDE DEF h
<1> QED BY <1>1, <1>2 DEF IdentityTypeOK

(* A home given to a registered user.                                       *)
LEMMA GivenHome ==
    ASSUME IdentityTypeOK, NEW r \in Requests, Record(r) # None,
           NEW mode \in BOOLEAN, NEW deep \in BOOLEAN,
           homes' = [homes EXCEPT ![Name(r)] = OwnedHome(r, mode, deep)]
    PROVE  /\ homes' \in [Names -> Homes \cup {None}] /\ OwnersKept
           /\ homes'[Name(r)].deep = deep
           /\ homes'[Name(r)].linked = NewHome(Name(r))[Name(r)].linked
<1> DEFINE h == OwnedHome(r, mode, deep)
           l == NewHome(Name(r))[Name(r)].linked
<1>1. /\ User(r) \in Registered /\ Name(r) \in Names /\ Name(r) = users[User(r)].name
      /\ Record(r).uid \in 1..MaxUid /\ Record(r).gid \in 1..MaxUid
  BY Typed DEF Name, Record
<1>5. l \in SUBSET (0..MaxUid)
  BY <1>1, NewHomeIs DEF Homes
<1>6. h = [uid |-> Record(r).uid, gid |-> Record(r).gid, mode |-> mode, deep |-> deep,
           linked |-> l]
  BY DEF OwnedHome
<1>3. homes' = [homes EXCEPT ![Name(r)] = h]
  OBVIOUS
<1> HIDE DEF h, l
<1>2. /\ h \in Homes /\ h.deep = deep /\ h.linked = l
      /\ h.uid = users[User(r)].uid /\ h.gid = users[User(r)].gid
  BY <1>1, <1>5, <1>6, ProvisioningAssumption DEF Homes, Record
<1>4. /\ homes' \in [Names -> Homes \cup {None}]
      /\ homes'[Name(r)] = h /\ \A n \in Names \ {Name(r)} : homes'[n] = homes[n]
  BY <1>1, <1>2, <1>3 DEF IdentityTypeOK
<1> QED BY <1>1, <1>2, <1>4 DEF OwnersKept, l

LEMMA HomesUnmoved == ASSUME homes' = homes PROVE OwnersKept
BY DEF OwnersKept

LEMMA NothingAdded ==
    ASSUME accounts' = accounts, groups' = groups
    PROVE  TracesAdded
BY DEF TracesAdded

LEMMA StepEffect ==
    ASSUME IdentityInv, NEW r \in Requests, Step(r), ~Allocate(r)
    PROVE  IdentityTypeOK' /\ Same /\ OwnersKept /\ TracesAdded /\ UNCHANGED image
<1>0. IdentityTypeOK /\ Reached(r)
  BY DEF IdentityInv
<1>1. CASE Enter(r) \/ Retry(r)
  <2>1. UNCHANGED <<registry, system, fixed, local, faults>>
    BY <1>1 DEF Enter, Retry
  <2>2. /\ pc' \in [Requests -> {"idle", "look", "allocate", "account", "group", "add",
                                 "check", "repair", "members", "finish",
                                 "returned", "failed", "refused"}]
        /\ lock' \in Requests \cup {"nobody"} /\ dirtied' \subseteq Names
    BY <1>0, <1>1 DEF Enter, Retry, Goto, IdentityTypeOK
  <2>3. IdentityTypeOK'
    BY <1>0, <2>1, <2>2 DEF IdentityTypeOK, registry, system, fixed, local
  <2> QED BY <2>1, <2>3, NobodyMoved, HomesUnmoved, NothingAdded
          DEF registry, system, fixed
<1>2. CASE Look(r)
  <2>1. UNCHANGED <<registry, system, fixed, faults, dirtied>>
    BY <1>2 DEF Look
  <2>2. ASSUME NEW n \in Names, NEW uid \in 1..MaxUid, NEW gid \in 1..MaxUid,
               Draft(r, n, uid, gid)
        PROVE  /\ draft' \in [Requests -> Identities \cup {None}]
               /\ copy' \in [Requests -> [Users -> Identities \cup {None}] \cup {<<>>}]
               /\ Goto(r, "allocate")
    <3>1. [name |-> n, uid |-> uid, gid |-> gid, state |-> "allocated"] \in Identities
      BY DEF Identities
    <3>2. users \in [Users -> Identities \cup {None}] \cup {<<>>}
      BY <1>0 DEF IdentityTypeOK
    <3> QED BY <1>0, <2>2, <3>1, <3>2 DEF Draft, IdentityTypeOK
  <2>3. ASSUME Adopts(User(r))
        PROVE  /\ BaseName[User(r)] \in Names
               /\ accounts[BaseName[User(r)]].uid \in 1..MaxUid
               /\ accounts[BaseName[User(r)]].gid \in 1..MaxUid
    BY <1>0, <2>3, Typed, ProvisioningAssumption
       DEF Adopts, Account, IdentityTypeOK, Accounts
  <2>4. \/ UNCHANGED local /\ (Goto(r, "account") \/ Leave(r, "refused"))
        \/ \E n \in Names, uid \in 1..MaxUid, gid \in 1..MaxUid : Draft(r, n, uid, gid)
    BY <1>2, <2>3 DEF Look
  <2>5. /\ draft' \in [Requests -> Identities \cup {None}]
        /\ copy' \in [Requests -> [Users -> Identities \cup {None}] \cup {<<>>}]
        /\ \E e \in {"account", "allocate", "refused"} : Goto(r, e) \/ Leave(r, e)
    BY <1>0, <2>2, <2>4 DEF local, IdentityTypeOK
  <2>6. IdentityTypeOK'
    BY <1>0, <2>1, <2>5, Goes DEF IdentityTypeOK, registry, system, fixed
  <2> QED BY <2>1, <2>6, NobodyMoved, HomesUnmoved, NothingAdded
          DEF registry, system, fixed
<1>3. CASE EnsureAccount(r)
  <2>1. /\ UNCHANGED <<nextId, accounts, groups, verified, fixed, local, faults, dirtied>>
        /\ Record(r) # None /\ Name(r) \in Names
        /\ homes' = IF asRoot THEN NewHome(Name(r)) ELSE homes
        /\ users' = users \/ Marked(r, "provisioning")
        /\ \E e \in {"group", "refused"} : Goto(r, e) \/ Leave(r, e)
    BY <1>0, <1>3, Typed DEF EnsureAccount, Reached, Recorded
  <2>2. users' \in [Users -> Identities \cup {None}] /\ Same
    BY <1>0, <2>1, MarkedSame, NobodyMoved DEF IdentityTypeOK
  <2>3. homes' \in [Names -> Homes \cup {None}] /\ OwnersKept
    <3>1. CASE homes' = homes
      BY <1>0, <3>1, HomesUnmoved DEF IdentityTypeOK
    <3>2. CASE homes' = NewHome(Name(r))
      BY <1>0, <2>1, <3>2, NewHomeIs DEF OwnersKept
    <3> QED BY <2>1, <3>1, <3>2
  <2>4. IdentityTypeOK'
    BY <1>0, <2>1, <2>2, <2>3, Goes DEF IdentityTypeOK, fixed, local
  <2> QED BY <2>1, <2>2, <2>3, <2>4, NothingAdded DEF fixed
<1>4. CASE EnsureGroup(r)
  <2>1. /\ UNCHANGED <<registry, accounts, homes, verified, fixed, local, dirtied>>
        /\ Record(r) # None
        /\ \/ groups' = groups
           \/ groups' = [groups EXCEPT ![Name(r)] = Record(r).gid]
        /\ faults' \in 0..MaxFaults
        /\ \E e \in {"check", "add", "refused", "failed"} : Goto(r, e) \/ Leave(r, e)
    BY <1>0, <1>4, ProvisioningAssumption
       DEF EnsureGroup, Reached, Recorded, Fail, IdentityTypeOK
  <2>2. /\ User(r) \in Registered /\ Name(r) \in Names /\ Record(r).gid \in 1..MaxUid
        /\ users[User(r)] = Record(r) /\ users[User(r)].name = Name(r)
    BY <1>0, <2>1, Typed DEF Record, Name
  <2>3. groups' \in [Names -> 0..MaxUid] /\ TracesAdded
    <3>1. CASE groups' = groups
      BY <1>0, <2>1, <3>1, NothingAdded DEF IdentityTypeOK
    <3>2. CASE groups' = [groups EXCEPT ![Name(r)] = Record(r).gid]
      <4>1. Record(r).gid \in 0..MaxUid
        BY <2>2, ProvisioningAssumption
      <4>2. groups' \in [Names -> 0..MaxUid]
        BY <1>0, <2>2, <3>2, <4>1 DEF IdentityTypeOK
      <4>3. \A n \in Names \ {Name(r)} : groups'[n] = groups[n]
        BY <1>0, <3>2 DEF IdentityTypeOK
      <4>4. groups'[Name(r)] = Record(r).gid
        BY <1>0, <2>2, <3>2 DEF IdentityTypeOK
      <4> QED BY <2>1, <2>2, <4>2, <4>3, <4>4 DEF TracesAdded
    <3> QED BY <2>1, <3>1, <3>2
  <2>4. IdentityTypeOK'
    BY <1>0, <2>1, <2>3, Goes DEF IdentityTypeOK, registry, fixed, local
  <2> QED BY <2>1, <2>3, <2>4, NobodyMoved, HomesUnmoved DEF registry, fixed
<1>5. CASE AddAccount(r)
  <2> DEFINE a == [uid |-> Record(r).uid, gid |-> Record(r).gid, managed |-> TRUE]
  <2>1. /\ UNCHANGED <<registry, groups, homes, verified, fixed, local, dirtied>>
        /\ Record(r) # None
        /\ accounts' = accounts \/ accounts' = [accounts EXCEPT ![Name(r)] = a]
        /\ faults' \in 0..MaxFaults
        /\ \E e \in {"check", "failed"} : Goto(r, e) \/ Leave(r, e)
    BY <1>0, <1>5, ProvisioningAssumption
       DEF AddAccount, Reached, Recorded, Fail, IdentityTypeOK
  <2>2. /\ User(r) \in Registered /\ Name(r) \in Names
        /\ users[User(r)] = Record(r) /\ users[User(r)].name = Name(r)
        /\ Record(r).uid \in 1..MaxUid /\ Record(r).gid \in 1..MaxUid
    BY <1>0, <2>1, Typed DEF Record, Name
  <2>3. /\ a \in Accounts
        /\ a = [uid |-> users[User(r)].uid, gid |-> users[User(r)].gid, managed |-> TRUE]
    BY <2>2 DEF Accounts
  <2> HIDE DEF a
  <2>4. accounts' \in [Names -> Accounts \cup {None}] /\ TracesAdded
    BY <1>0, <2>1, <2>2, <2>3 DEF IdentityTypeOK, TracesAdded
  <2>5. IdentityTypeOK'
    BY <1>0, <2>1, <2>4, Goes DEF IdentityTypeOK, registry, fixed, local
  <2> QED BY <2>1, <2>4, <2>5, NobodyMoved, HomesUnmoved DEF registry, fixed
<1>6. CASE Check(r) \/ MarkReady(r)
  <2>1. /\ UNCHANGED <<nextId, accounts, groups, homes, fixed, local, faults, dirtied>>
        /\ Record(r) # None /\ Name(r) \in Names
        /\ \/ users' = users
           \/ \E state \in {"provisioning", "ready"} : Marked(r, state)
        /\ \/ verified' = verified
           \/ verified' = [verified EXCEPT ![ProcessOf[r]] = @ \cup {Name(r)}]
        /\ \E e \in {"returned", "repair", "failed"} : Goto(r, e) \/ Leave(r, e)
    BY <1>0, <1>6, Typed DEF Check, MarkReady, Reached, Recorded
  <2>2. users' \in [Users -> Identities \cup {None}] /\ Same
    BY <1>0, <2>1, MarkedSame, NobodyMoved DEF IdentityTypeOK
  <2>3. verified' \in [Processes -> SUBSET Names]
    BY <1>0, <2>1 DEF IdentityTypeOK
  <2>4. IdentityTypeOK'
    BY <1>0, <2>1, <2>2, <2>3, Goes DEF IdentityTypeOK, fixed, local
  <2> QED BY <2>1, <2>2, <2>4, HomesUnmoved, NothingAdded DEF fixed
<1>7. CASE Repair(r)
  <2>1. /\ UNCHANGED <<registry, accounts, groups, fixed, local, dirtied>>
        /\ Record(r) # None /\ Name(r) \in Names
        /\ verified' = verified \/ verified' = Touched(Name(r))
        /\ \/ homes' = homes
           \/ homes' = [homes EXCEPT ![Name(r)] = OwnedHome(r, TRUE, TRUE)]
           \/ homes' = [homes EXCEPT ![Name(r)] =
                          OwnedHome(r, NewHome(Name(r))[Name(r)].mode, FALSE)]
    BY <1>0, <1>7, Typed DEF Repair, Repaired, HalfRepaired, Reached, Recorded
  <2>6. /\ faults' \in 0..MaxFaults
        /\ \E e \in {"members", "failed"} : Goto(r, e) \/ Leave(r, e)
    <3>1. \/ (Goto(r, "members") \/ Leave(r, "failed")) /\ UNCHANGED faults
          \/ Fail(r)
      BY <1>7 DEF Repair
    <3> QED BY <1>0, <3>1, ProvisioningAssumption DEF Fail, IdentityTypeOK
  <2>2. NewHome(Name(r))[Name(r)].mode \in BOOLEAN
    BY <1>0, <2>1, NewHomeIs DEF Homes
  <2>3. homes' \in [Names -> Homes \cup {None}] /\ OwnersKept
    BY <1>0, <2>1, <2>2, GivenHome, HomesUnmoved DEF IdentityTypeOK
  <2>4. verified' \in [Processes -> SUBSET Names]
    BY <1>0, <2>1 DEF Touched, IdentityTypeOK
  <2>5. IdentityTypeOK'
    BY <1>0, <2>1, <2>3, <2>4, <2>6, Goes DEF IdentityTypeOK, registry, fixed, local
  <2> QED BY <2>1, <2>3, <2>5, NobodyMoved, NothingAdded DEF registry, fixed
<1>8. CASE Members(r)
  <2>1. /\ UNCHANGED <<registry, system, fixed, local, dirtied>>
        /\ faults' \in 0..MaxFaults
        /\ \E e \in {"finish", "failed"} : Goto(r, e) \/ Leave(r, e)
    BY <1>0, <1>8, ProvisioningAssumption DEF Members, Fail, IdentityTypeOK
  <2>2. IdentityTypeOK'
    BY <1>0, <2>1, Goes DEF IdentityTypeOK, registry, system, fixed, local
  <2> QED BY <2>1, <2>2, NobodyMoved, HomesUnmoved, NothingAdded
          DEF registry, system, fixed
<1> QED BY <1>1, <1>2, <1>3, <1>4, <1>5, <1>6, <1>7, <1>8 DEF Step

(* The record of the draft, in the registry the lock's holder had loaded.   *)
LEMMA AllocateEffect ==
    ASSUME IdentityInv, NEW r \in Requests, Allocate(r)
    PROVE  /\ IdentityTypeOK' /\ Separate' /\ Traces'
           /\ \/ users' = users /\ Leave(r, "failed")
              \/ /\ Record(r) = None /\ Record(r)' # None /\ Goto(r, "account")
                 /\ \A u \in Registered : users'[u] = users[u]
<1>0. IdentityTypeOK /\ Separate /\ Traces /\ Reached(r) /\ User(r) \in Users
  BY Typed DEF IdentityInv
<1>1. /\ UNCHANGED <<system, fixed, dirtied>>
      /\ copy' = [copy EXCEPT ![r] = <<>>] /\ draft' = [draft EXCEPT ![r] = None]
  BY DEF Allocate
<1>2. Drafted(r)
  BY <1>0 DEF Allocate, Reached
<1>3. /\ copy' \in [Requests -> [Users -> Identities \cup {None}] \cup {<<>>}]
      /\ draft' \in [Requests -> Identities \cup {None}]
  BY <1>0, <1>1 DEF IdentityTypeOK
<1>4. OwnersKept /\ TracesAdded /\ image' = image
  BY <1>1, HomesUnmoved, NothingAdded DEF system, fixed
<1>5. CASE Fail(r) /\ UNCHANGED registry
  <2>1. users' = users /\ nextId' = nextId /\ Leave(r, "failed") /\ faults' \in 0..MaxFaults
    BY <1>0, <1>5, ProvisioningAssumption DEF Fail, registry, IdentityTypeOK
  <2>2. IdentityTypeOK'
    BY <1>0, <1>1, <1>3, <2>1, Goes DEF IdentityTypeOK, system, fixed
  <2>3. Separate' /\ Traces'
    BY <1>0, <1>4, <2>1, NobodyMoved, SameRegistered, SeparateKept, TracesKept
  <2> QED BY <2>1, <2>2, <2>3
<1>6. CASE ~(Fail(r) /\ UNCHANGED registry)
  <2>1. /\ users' = [copy[r] EXCEPT ![User(r)] = draft[r]]
        /\ nextId' = IF Account(draft[r].name) THEN nextId ELSE draft[r].uid
        /\ Goto(r, "account") /\ UNCHANGED faults
    BY <1>6 DEF Allocate
  <2>2. users' = [users EXCEPT ![User(r)] = draft[r]]
    BY <1>2, <2>1 DEF Drafted
  <2>3. draft[r] \in Identities /\ draft[r].uid \in 1..MaxUid /\ Apart(draft[r])
        /\ users[User(r)] = None
    BY <1>2 DEF Drafted, Identities, Record
  <2>4. users' \in [Users -> Identities \cup {None}]
    BY <1>0, <2>2, <2>3 DEF IdentityTypeOK
  <2>5. nextId' \in 0..MaxUid
    BY <1>0, <2>1, <2>3, ProvisioningAssumption DEF IdentityTypeOK
  <2>6. IdentityTypeOK'
    BY <1>0, <1>1, <1>3, <2>1, <2>4, <2>5, Goes DEF IdentityTypeOK, system, fixed
  <2>7. Separate'
    BY <1>0, <1>1, <2>2, <2>3, SeparateGrows DEF system
  <2>8. /\ users'[User(r)] = draft[r]
        /\ \A u \in Registered : u \in Users /\ users'[u] = users[u]
    BY <1>0, <2>2, <2>3 DEF IdentityTypeOK, Registered
  <2>9. Registered \subseteq Registered'
    BY <2>8 DEF Registered
  <2>10. Traces'
    BY <1>0, <1>4, <2>8, <2>9, TracesKept
  <2>11. Record(r) = None /\ Record(r)' # None
    BY <2>3, <2>8, Something DEF Record, User
  <2> QED BY <2>1, <2>6, <2>7, <2>8, <2>10, <2>11
<1> QED BY <1>5, <1>6

-----------------------------------------------------------------------------
(* What a request has established stays so.                                 *)

LEMMA OccupiedIntegers == ASSUME IdentityTypeOK PROVE Occupied \subseteq Int
<1>1. None.uid = NoId /\ NoId \in Int /\ 0..MaxUid \subseteq Int /\ 1..MaxUid \subseteq Int
  BY ProvisioningAssumption DEF None, NoId
<1>2. ASSUME NEW n \in Names
      PROVE  accounts[n].uid \in Int /\ groups[n] \in Int /\ homes[n].uid \in Int
  <2>1. \A a \in Accounts \cup {None} : a.uid \in Int
    BY <1>1 DEF Accounts
  <2>2. \A h \in Homes \cup {None} : h.uid \in Int
    BY <1>1 DEF Homes
  <2>3. /\ accounts[n] \in Accounts \cup {None} /\ homes[n] \in Homes \cup {None}
        /\ groups[n] \in 0..MaxUid
    BY DEF IdentityTypeOK
  <2> QED BY <1>1, <2>1, <2>2, <2>3
<1>3. ASSUME NEW n \in Names, homes[n] # None
      PROVE  homes[n].gid \in Int
  BY <1>1, <1>3 DEF IdentityTypeOK, Homes
<1>4. ASSUME NEW u \in Registered
      PROVE  users[u].uid \in Int /\ users[u].gid \in Int
  BY <1>1, <1>4 DEF IdentityTypeOK, Registered, Identities
<1> QED BY <1>1, <1>2, <1>3, <1>4 DEF Occupied

(* The identity drafted is apart from all there are.                        *)
LEMMA DraftApart ==
    ASSUME IdentityTypeOK, NEW r \in Requests, Look(r), pc'[r] = "allocate"
    PROVE  /\ Record(r) = None /\ copy'[r] = users
           /\ draft'[r] \in Identities /\ Apart(draft'[r])
<1>1. ASSUME NEW n \in Names, NEW uid \in 1..MaxUid, NEW gid \in 1..MaxUid,
             Draft(r, n, uid, gid)
      PROVE  /\ copy'[r] = users /\ draft'[r] \in Identities
             /\ draft'[r].name = n /\ draft'[r].uid = uid /\ draft'[r].gid = gid
  BY <1>1 DEF Draft, IdentityTypeOK, Identities
<1>2. CASE /\ Record(r) = None
           /\ \E k \in Names, c \in 1..MaxUid :
                 Selected(User(r), k) /\ Candidate(c) /\ Draft(r, k, c, c)
  <2>1. PICK k \in Names, c \in 1..MaxUid :
          Selected(User(r), k) /\ Candidate(c) /\ Draft(r, k, c, c)
    BY <1>2
  <2>2. /\ copy'[r] = users /\ draft'[r] \in Identities
        /\ draft'[r].name = k /\ draft'[r].uid = c /\ draft'[r].gid = c
    BY <1>1, <2>1
  <2>3. k \notin Bound
    BY <2>1 DEF Selected, Free
  <2>4. \A o \in Occupied : o # c
    <3>1. Occupied \subseteq Int
      BY OccupiedIntegers
    <3> QED BY <2>1, <3>1 DEF Candidate
  <2>5. /\ \A u \in Registered : users[u].uid # c /\ users[u].gid # c
        /\ \A n \in Names : homes[n] # None => homes[n].uid # c /\ homes[n].gid # c
    BY <2>4 DEF Occupied
  <2> QED BY <1>2, <2>2, <2>3, <2>5 DEF Apart, Bound
<1>3. CASE /\ Record(r) = None /\ Adopts(User(r)) /\ Adoptable(BaseName[User(r)])
           /\ Draft(r, BaseName[User(r)], accounts[BaseName[User(r)]].uid,
                    accounts[BaseName[User(r)]].gid)
  <2> DEFINE n == BaseName[User(r)]
  <2>1. n \in Names /\ accounts[n].uid \in 1..MaxUid /\ accounts[n].gid \in 1..MaxUid
    BY <1>3, Typed, ProvisioningAssumption DEF Adopts, Account, IdentityTypeOK, Accounts
  <2>2. /\ copy'[r] = users /\ draft'[r] \in Identities
        /\ draft'[r].name = n
        /\ draft'[r].uid = accounts[n].uid /\ draft'[r].gid = accounts[n].gid
    BY <1>1, <1>3, <2>1
  <2>3. /\ \A u \in Registered : /\ users[u].name # n
                                 /\ users[u].uid # accounts[n].uid
                                 /\ users[u].gid # accounts[n].gid
        /\ \A k \in Names : homes[k] # None /\ k # n =>
              homes[k].uid # accounts[n].uid /\ homes[k].gid # accounts[n].gid
    BY <1>3 DEF Adopts, Adoptable, Bound
  <2> HIDE DEF n
  <2> QED BY <1>3, <2>2, <2>3 DEF Apart
<1>4. ~Goto(r, "account") /\ ~Leave(r, "refused")
  BY DEF IdentityTypeOK, Goto, Leave
<1> QED BY <1>2, <1>3, <1>4 DEF Look

(* Another request is not on its way while one is.                          *)
LEMMA OthersAside ==
    ASSUME IdentityInv, NEW r \in Requests, Step(r), NEW q \in Requests, q # r
    PROVE  Reached(q)'
<1>0. IdentityTypeOK /\ Reached(r) /\ Reached(q)
  BY DEF IdentityInv
<1>1. CASE Retry(r)
  <2>1. /\ UNCHANGED <<registry, system, fixed, local, lock, dirtied>>
        /\ pc'[q] = pc[q]
    BY <1>0, <1>1 DEF Retry, Goto, IdentityTypeOK
  <2>2. /\ UNCHANGED <<users, accounts, homes, lock, copy, dirtied>>
        /\ UNCHANGED draft
    BY <2>1 DEF registry, system, local
  <2> QED BY <1>0, <2>1, <2>2
          DEF Reached, Drafted, Apart, Record, Name, User, Account, Registered, Whole, OwnAccount
<1>2. CASE ~Retry(r)
  <2>1. lock = r \/ lock = "nobody"
    BY <1>0, <1>2 DEF Step, Enter, GateOpen, Look, Allocate, EnsureAccount, EnsureGroup,
       AddAccount, Check, Repair, Members, MarkReady, Reached, OnItsWay, Recorded
  <2>2. pc[q] \notin OnItsWay
    BY <1>0, <2>1, ProvisioningAssumption DEF Reached
  <2>3. pc'[q] = pc[q]
    <3>1. CASE Enter(r)
      BY <1>0, <3>1 DEF Enter, IdentityTypeOK
    <3>2. CASE ~Enter(r)
      <4>1. \E e \in {"idle", "look", "allocate", "account", "group", "add", "check",
                      "repair", "members", "finish", "returned", "failed", "refused"} :
              Goto(r, e) \/ Leave(r, e)
        BY <1>2, <3>2 DEF Step, Look, Draft, Allocate, EnsureAccount, EnsureGroup,
           AddAccount, Check, Repair, Members, MarkReady, Fail
      <4> QED BY <1>0, <4>1, Goes
    <3> QED BY <3>1, <3>2
  <2> QED BY <2>2, <2>3 DEF Reached, OnItsWay, Recorded
<1> QED BY <1>1, <1>2

LEMMA SameRecord ==
    ASSUME IdentityTypeOK, NEW r \in Requests, Record(r) # None, Same
    PROVE  /\ Record(r)' # None /\ Name(r)' = Name(r)
           /\ Record(r)'.uid = Record(r).uid /\ Record(r)'.gid = Record(r).gid
BY Typed DEF Same, Record, Name, User

(* What a request's own step establishes.                                   *)
LEMMA OwnStep ==
    ASSUME IdentityInv, NEW r \in Requests, Step(r)
    PROVE  Reached(r)'
<1>0. IdentityTypeOK /\ Reached(r)
  BY DEF IdentityInv
<1>1. ASSUME NEW e \in {"idle", "returned", "failed", "refused"},
             Goto(r, e) \/ Leave(r, e)
      PROVE  Reached(r)'
  <2>1. pc'[r] = e
    BY <1>0, <1>1, Goes
  <2> QED BY <2>1 DEF Reached, OnItsWay, Recorded
<1>2. ASSUME NEW e \in Recorded, Goto(r, e), Record(r) # None, Same, lock = r,
             accounts' = accounts,
             e # "account" /\ Account(Name(r)) => OwnAccount(r),
             e \in {"check", "repair", "members", "finish"} => Account(Name(r)),
             e \in {"members", "finish"} =>
               /\ homes'[Name(r)].deep \/ Name(r) \in dirtied'
               /\ homes'[Name(r)].linked \subseteq {Record(r).uid}
      PROVE  Reached(r)'
  <2>1. pc'[r] = e /\ lock' = r
    BY <1>0, <1>2 DEF Goto, Recorded, IdentityTypeOK
  <2>2. /\ Record(r)' # None /\ Name(r)' = Name(r)
        /\ Record(r)'.uid = Record(r).uid /\ Record(r)'.gid = Record(r).gid
    BY <1>0, <1>2, SameRecord
  <2>3. /\ Account(Name(r))' <=> Account(Name(r))
        /\ OwnAccount(r)' <=> OwnAccount(r)
    BY <1>2, <2>2 DEF Account, OwnAccount
  <2> QED BY <1>2, <2>1, <2>2, <2>3 DEF Reached, Recorded, Whole
<1>3. ASSUME pc[r] \in Recorded
      PROVE  Record(r) # None /\ lock = r
  BY <1>0, <1>3 DEF Reached, OnItsWay
<1>4. CASE Enter(r)
  <2>1. pc'[r] = "look" /\ lock' = r
    BY <1>0, <1>4 DEF Enter, IdentityTypeOK
  <2> QED BY <2>1 DEF Reached, Recorded
<1>5. CASE Retry(r)
  BY <1>1, <1>5 DEF Retry
<1>6. CASE Look(r)
  <2>1. UNCHANGED <<registry, system, dirtied>> /\ lock = r
    BY <1>0, <1>6 DEF Look, Reached, OnItsWay
  <2>2. CASE Leave(r, "refused")
    BY <1>1, <2>2
  <2>3. CASE Record(r) # None /\ Goto(r, "account")
    BY <1>2, <2>1, <2>3, NobodyMoved DEF Recorded, registry, system
  <2>4. CASE Goto(r, "allocate")
    <3>1. pc'[r] = "allocate" /\ lock' = r
      BY <1>0, <2>1, <2>4 DEF Goto, IdentityTypeOK
    <3>2. /\ Record(r) = None /\ copy'[r] = users
          /\ draft'[r] \in Identities /\ Apart(draft'[r])
      BY <1>0, <1>6, <3>1, DraftApart
    <3>3. Drafted(r)'
      BY <2>1, <3>2 DEF Drafted, Apart, Record, User, Registered, registry, system
    <3> QED BY <3>1, <3>3 DEF Reached, Recorded
  <2> QED BY <1>6, <2>2, <2>3, <2>4 DEF Look, Draft
<1>7. CASE Allocate(r)
  <2>1. CASE Leave(r, "failed")
    BY <1>1, <2>1
  <2>2. CASE Goto(r, "account") /\ Record(r)' # None
    <3>1. pc'[r] = "account" /\ lock' = r
      BY <1>0, <1>7, <2>2 DEF Goto, Allocate, Reached, OnItsWay, IdentityTypeOK
    <3> QED BY <2>2, <3>1 DEF Reached
  <2> QED BY <1>7, <2>1, <2>2, AllocateEffect
<1>8. CASE EnsureAccount(r)
  <2>1. Record(r) # None /\ lock = r /\ accounts' = accounts /\ Same
    BY <1>3, <1>8, StepEffect DEF EnsureAccount, Recorded, Step, Allocate
  <2>2. CASE Leave(r, "refused")
    BY <1>1, <2>2
  <2>3. CASE Goto(r, "group") /\ (Account(Name(r)) => OwnAccount(r))
    BY <1>2, <2>1, <2>3 DEF Recorded
  <2> QED BY <1>8, <2>2, <2>3 DEF EnsureAccount, OwnAccount
<1>9. CASE EnsureGroup(r)
  <2>1. Record(r) # None /\ lock = r /\ accounts' = accounts /\ users' = users
    BY <1>3, <1>9 DEF EnsureGroup, Recorded, registry
  <2>2. CASE Leave(r, "refused") \/ Leave(r, "failed")
    BY <1>1, <2>2
  <2>3. CASE Goto(r, IF Account(Name(r)) THEN "check" ELSE "add")
    <3>1. Account(Name(r)) => OwnAccount(r)
      BY <1>0, <1>9 DEF EnsureGroup, Reached, Recorded
    <3> QED BY <1>2, <2>1, <2>3, <3>1, NobodyMoved DEF Recorded
  <2> QED BY <1>9, <2>2, <2>3 DEF EnsureGroup, Fail
<1>10. CASE AddAccount(r)
  <2>1. /\ Record(r) # None /\ lock = r /\ users' = users
        /\ Name(r) \in Names /\ Record(r).uid \in 1..MaxUid
    BY <1>0, <1>3, <1>10, Typed DEF AddAccount, Recorded, registry
  <2>2. CASE Fail(r)
    BY <1>1, <2>2 DEF Fail
  <2>3. CASE ~Fail(r)
    <3>1. /\ accounts'[Name(r)] =
                [uid |-> Record(r).uid, gid |-> Record(r).gid, managed |-> TRUE]
          /\ Goto(r, "check")
      BY <1>0, <1>10, <2>1, <2>3 DEF AddAccount, IdentityTypeOK
    <3>2. /\ accounts'[Name(r)].uid = Record(r).uid /\ accounts'[Name(r)] # None
          /\ accounts'[Name(r)].gid = Record(r).gid
      <4>1. accounts'[Name(r)].uid = Record(r).uid /\ Record(r).uid # 0
        BY <2>1, <3>1, ProvisioningAssumption
      <4> QED BY <3>1, <4>1 DEF None, NoId
    <3>3. pc'[r] = "check" /\ lock' = r
      BY <1>0, <2>1, <3>1 DEF Goto, IdentityTypeOK
    <3>4. Record(r)' = Record(r) /\ Name(r)' = Name(r)
      BY <2>1 DEF Record, Name, User
    <3>5. Account(Name(r))'
      BY <3>2, <3>4 DEF Account
    <3> QED BY <2>1, <3>2, <3>3, <3>4, <3>5 DEF Reached, OwnAccount
  <2> QED BY <2>2, <2>3
<1>11. CASE Check(r) \/ Members(r) \/ MarkReady(r) \/ Repair(r)
  <2>1. /\ Record(r) # None /\ lock = r /\ accounts' = accounts /\ Same
        /\ Account(Name(r)) /\ OwnAccount(r)
    <3>1. pc[r] \in {"check", "members", "finish", "repair"} /\ accounts' = accounts
          /\ ~Allocate(r) /\ Step(r)
      BY <1>11 DEF Check, Members, MarkReady, Repair, Allocate, Step, system
    <3> QED BY <1>0, <1>3, <3>1, StepEffect DEF Reached, Recorded
  <2>2. CASE \E e \in {"returned", "failed"} : Leave(r, e)
    BY <1>1, <2>2
  <2>3. CASE Check(r) /\ Goto(r, "repair")
    BY <1>2, <2>1, <2>3 DEF Recorded
  <2>4. CASE Repair(r) /\ Goto(r, "members") /\ homes' = [homes EXCEPT ![Name(r)] = Repaired(r)]
    <3>1. /\ homes'[Name(r)].deep = TRUE
          /\ homes'[Name(r)].linked = NewHome(Name(r))[Name(r)].linked
      BY <1>0, <2>1, <2>4, GivenHome DEF Repaired
    <3>2. Repairable(r)
      <4>1. ~Leave(r, "failed")
        BY <1>0, <2>4 DEF Goto, Leave, IdentityTypeOK
      <4> QED BY <2>4, <4>1 DEF Repair, Fail
    <3> QED BY <1>2, <2>1, <2>4, <3>1, <3>2 DEF Recorded, Repairable
  <2>5. CASE Members(r) /\ Goto(r, "finish")
    <3>1. Whole(r)
      BY <1>0, <2>5 DEF Members, Reached
    <3>2. homes' = homes /\ dirtied' = dirtied
      BY <2>5 DEF Members, system
    <3> QED BY <1>2, <2>1, <2>5, <3>1, <3>2 DEF Recorded, Whole
  <2>6. CASE MarkReady(r)
    BY <2>2, <2>6 DEF MarkReady
  <2>7. CASE Check(r)
    BY <2>2, <2>3, <2>7 DEF Check
  <2>8. CASE Repair(r)
    BY <2>2, <2>4, <2>8 DEF Repair, Fail
  <2>9. CASE Members(r)
    BY <2>2, <2>5, <2>9 DEF Members, Fail
  <2> QED BY <1>11, <2>6, <2>7, <2>8, <2>9
<1> QED BY <1>4, <1>5, <1>6, <1>7, <1>8, <1>9, <1>10, <1>11 DEF Step

-----------------------------------------------------------------------------
(* Crashes.                                                                 *)

(* The homes keep their owners, and none is dirtied unnoticed.              *)
HomesStand ==
    \A n \in Names :
      /\ homes'[n] = None <=> homes[n] = None
      /\ homes[n] # None => homes'[n].uid = homes[n].uid /\ homes'[n].gid = homes[n].gid
      /\ homes'[n].linked = homes[n].linked
      /\ (homes[n].deep \/ n \in dirtied) => (homes'[n].deep \/ n \in dirtied')

(* The requests of dead processes begin again or were refused; the others,  *)
(* whose operation goes on, find their lock, draft and copy.                *)
LEMMA DeathSpares ==
    ASSUME IdentityInv, NEW dead \in SUBSET Processes, pc' = Dropped(dead), Forgotten(dead),
           lock' = Freed(dead), UNCHANGED users, UNCHANGED accounts, NEW q \in Requests,
           ProcessOf[q] \notin dead,
           HomesStand
    PROVE  Reached(q)'
<1>0. IdentityTypeOK /\ Reached(q)
  BY DEF IdentityInv
<1>1. pc'[q] = pc[q] /\ draft'[q] = draft[q] /\ copy'[q] = copy[q]
  BY DEF Dropped, Forgotten
<1>2. lock = q => lock' = q
  BY ProvisioningAssumption DEF Freed
<1>3. /\ Record(q)' = Record(q) /\ Name(q)' = Name(q) /\ Registered' = Registered
      /\ Account(Name(q))' <=> Account(Name(q))
  BY DEF Record, Name, User, Registered, Account
<1>4. Drafted(q) => Drafted(q)'
  BY <1>1, <1>3 DEF Drafted, Apart, HomesStand
<1>5. Record(q) # None => Name(q) \in Names
  BY <1>0, Typed
<1>6. pc[q] \in {"members", "finish"} => Whole(q)'
  BY <1>0, <1>1, <1>3, <1>5 DEF Reached, Recorded, HomesStand, Whole
<1>7. OwnAccount(q)' <=> OwnAccount(q)
  BY <1>3 DEF OwnAccount
<1> QED BY <1>0, <1>1, <1>2, <1>3, <1>4, <1>6, <1>7 DEF Reached

LEMMA DeathDrops ==
    ASSUME NEW dead \in SUBSET Processes, pc' = Dropped(dead), NEW q \in Requests,
           ProcessOf[q] \in dead
    PROVE  Reached(q)'
<1>1. pc'[q] \in {"idle", "refused"}
  BY DEF Dropped
<1> QED BY <1>1 DEF Reached, OnItsWay, Recorded

LEMMA DeathTyped ==
    ASSUME IdentityTypeOK, NEW dead \in SUBSET Processes, pc' = Dropped(dead), Forgotten(dead),
           lock' \in {Freed(dead), "nobody"}
    PROVE  /\ pc' \in [Requests -> {"idle", "look", "allocate", "account", "group", "add",
                                    "check", "repair", "members", "finish",
                                    "returned", "failed", "refused"}]
           /\ lock' \in Requests \cup {"nobody"}
           /\ copy' \in [Requests -> [Users -> Identities \cup {None}] \cup {<<>>}]
           /\ draft' \in [Requests -> Identities \cup {None}]
BY DEF IdentityTypeOK, Dropped, Forgotten, Freed

LEMMA CrashStep ==
    ASSUME IdentityInv, NEW p \in Processes, Crash(p)
    PROVE  IdentityInv' /\ users' = users
<1>0. IdentityTypeOK /\ Separate /\ Traces
  BY DEF IdentityInv
<1>1. /\ pc' = Dropped({p}) /\ lock' = Freed({p}) /\ Forgotten({p})
      /\ verified' = [verified EXCEPT ![p] = {}]
      /\ UNCHANGED <<registry, accounts, groups, fixed>>
      /\ faults' \in 0..MaxFaults
  BY <1>0, ProvisioningAssumption DEF Crash, IdentityTypeOK
<1>2. /\ homes' \in [Names -> Homes \cup {None}] /\ dirtied' \subseteq Names
      /\ HomesStand
  <2>1. CASE UNCHANGED <<homes, dirtied>>
    BY <1>0, <2>1 DEF IdentityTypeOK, HomesStand
  <2>2. ASSUME NEW n \in Names, homes[n] # None, homes' = [homes EXCEPT ![n].deep = FALSE],
               dirtied' = dirtied \cup {n}
        PROVE  /\ homes' \in [Names -> Homes \cup {None}] /\ dirtied' \subseteq Names
               /\ HomesStand
    <3> DEFINE h == [homes[n] EXCEPT !.deep = FALSE]
    <3>1. homes[n] \in Homes
      BY <1>0, <2>2 DEF IdentityTypeOK
    <3>2. /\ h \in Homes /\ h # None /\ h.linked = homes[n].linked
          /\ h.uid = homes[n].uid /\ h.gid = homes[n].gid
      BY <3>1, Something DEF Homes
    <3>3. homes' = [homes EXCEPT ![n] = h]
      BY <2>2
    <3> HIDE DEF h
    <3>4. /\ homes' \in [Names -> Homes \cup {None}]
          /\ homes'[n] = h /\ \A k \in Names \ {n} : homes'[k] = homes[k]
      BY <1>0, <3>2, <3>3 DEF IdentityTypeOK
    <3>5. dirtied' \subseteq Names
      BY <1>0, <2>2 DEF IdentityTypeOK
    <3> QED BY <2>2, <3>2, <3>4, <3>5 DEF HomesStand
  <2> QED BY <2>1, <2>2 DEF Crash
<1>3. verified' \in [Processes -> SUBSET Names]
  BY <1>0, <1>1 DEF IdentityTypeOK
<1>4. IdentityTypeOK'
  BY <1>0, <1>1, <1>2, <1>3, DeathTyped DEF IdentityTypeOK, registry, fixed
<1>5. Separate' /\ Traces'
  <2>1. Same /\ OwnersKept /\ TracesAdded
    BY <1>1, <1>2, NobodyMoved, NothingAdded DEF OwnersKept, HomesStand, registry
  <2>2. image' = image
    BY <1>1 DEF fixed
  <2> QED BY <1>0, <2>1, <2>2, SameRegistered, SeparateKept, TracesKept
<1>6. ASSUME NEW q \in Requests PROVE Reached(q)'
  BY <1>1, <1>2, DeathSpares, DeathDrops DEF registry
<1> QED BY <1>1, <1>4, <1>5, <1>6 DEF IdentityInv, registry

LEMMA RecreateStep ==
    ASSUME IdentityInv, Recreate
    PROVE  IdentityInv' /\ users' = users
<1>0. IdentityTypeOK /\ Separate
  BY DEF IdentityInv
<1>1. /\ UNCHANGED <<registry, homes, asRoot, dirtied>> /\ image' \in Images
      /\ accounts' = image'.accounts /\ groups' = image'.groups
      /\ verified' = [p \in Processes |-> {}]
      /\ pc' = Dropped(Processes) /\ lock' = "nobody" /\ Forgotten(Processes)
      /\ faults' \in 0..MaxFaults
  BY <1>0, ProvisioningAssumption DEF Recreate, IdentityTypeOK
<1>2. /\ accounts' \in [Names -> Accounts \cup {None}] /\ groups' \in [Names -> 0..MaxUid]
      /\ verified' \in [Processes -> SUBSET Names]
  <2>1. image' \in [accounts : [Names -> Accounts \cup {None}], groups : [Names -> 0..MaxUid]]
    BY <1>1, ProvisioningAssumption
  <2> QED BY <1>1, <2>1
<1>3. IdentityTypeOK'
  BY <1>0, <1>1, <1>2, DeathTyped DEF IdentityTypeOK, registry
<1>4. Separate'
  BY <1>0, <1>1, NobodyMoved, HomesUnmoved, SeparateKept DEF registry
<1>5. Traces'
  BY <1>1 DEF Traces, Account
<1>6. ASSUME NEW q \in Requests PROVE Reached(q)'
  BY <1>0, <1>1, Typed, DeathDrops
<1> QED BY <1>1, <1>3, <1>4, <1>5, <1>6 DEF IdentityInv, registry

-----------------------------------------------------------------------------
(* The invariant and the theorems.                                          *)

LEMMA IdentityStart == IdentityInit => IdentityInv
<1> SUFFICES ASSUME IdentityInit PROVE IdentityInv
  OBVIOUS
<1>1. Registered = {} /\ image \in Images /\ homes \in OldHomes
      /\ accounts = image.accounts /\ groups = image.groups
      /\ pc = [r \in Requests |-> "idle"]
  BY DEF IdentityInit, Registered
<1>2. /\ accounts \in [Names -> Accounts \cup {None}] /\ groups \in [Names -> 0..MaxUid]
      /\ homes \in [Names -> Homes \cup {None}]
  <2>1. image \in [accounts : [Names -> Accounts \cup {None}], groups : [Names -> 0..MaxUid]]
    BY <1>1, ProvisioningAssumption
  <2> QED BY <1>1, <2>1, ProvisioningAssumption
<1>3. IdentityTypeOK
  BY <1>1, <1>2, ProvisioningAssumption DEF IdentityInit, IdentityTypeOK
<1>4. Separate
  BY <1>1 DEF Separate
<1>5. Traces
  BY <1>1 DEF Traces, Account
<1>6. \A r \in Requests : Reached(r)
  BY <1>1 DEF Reached, OnItsWay, Recorded
<1> QED BY <1>3, <1>4, <1>5, <1>6 DEF IdentityInv

(* Every step keeps the invariant, and what users were given.               *)
LEMMA IdentityStep ==
    ASSUME IdentityInv, [IdentityNext]_identityVars
    PROVE  /\ IdentityInv'
           /\ \A u \in Registered : /\ users'[u] # None
                                    /\ users'[u].name = users[u].name
                                    /\ users'[u].uid = users[u].uid
                                    /\ users'[u].gid = users[u].gid
<1>0. IdentityTypeOK /\ Separate /\ Traces
  BY DEF IdentityInv
<1>1. ASSUME NEW r \in Requests, Allocate(r)
      PROVE  /\ IdentityInv'
             /\ \A u \in Registered : users'[u] = users[u]
  <2>1. /\ IdentityTypeOK' /\ Separate' /\ Traces'
        /\ \A u \in Registered : users'[u] = users[u]
    BY <1>1, AllocateEffect
  <2>2. ASSUME NEW q \in Requests PROVE Reached(q)'
    BY <1>1, OwnStep, OthersAside DEF Step
  <2> QED BY <2>1, <2>2 DEF IdentityInv
<1>2. ASSUME NEW r \in Requests, Step(r), ~Allocate(r)
      PROVE  IdentityInv' /\ Same
  <2>1. IdentityTypeOK' /\ Same /\ OwnersKept /\ TracesAdded /\ image' = image
    BY <1>2, StepEffect
  <2>2. Separate' /\ Traces'
    BY <1>0, <2>1, SameRegistered, SeparateKept, TracesKept
  <2>3. ASSUME NEW q \in Requests PROVE Reached(q)'
    BY <1>2, OwnStep, OthersAside
  <2> QED BY <2>1, <2>2, <2>3 DEF IdentityInv
<1>3. ASSUME (\E p \in Processes : Crash(p)) \/ Recreate
      PROVE  IdentityInv' /\ users' = users
  BY <1>3, CrashStep, RecreateStep
<1>4. CASE UNCHANGED identityVars
  <2>1. UNCHANGED <<users, nextId, accounts, groups, homes, verified, asRoot, image, lock, pc,
                    copy, draft, faults, dirtied>>
    BY <1>4 DEF identityVars, registry, system, fixed, local
  <2>2. IdentityTypeOK'
    BY <1>0, <2>1 DEF IdentityTypeOK
  <2>3. Separate' /\ Traces'
    BY <1>0, <2>1, NobodyMoved, HomesUnmoved, NothingAdded, SameRegistered, SeparateKept,
       TracesKept
  <2>4. ASSUME NEW r \in Requests PROVE Reached(r)'
    <3>1. Reached(r)
      BY DEF IdentityInv
    <3> QED BY <2>1, <3>1
            DEF Reached, Drafted, Apart, Record, Name, User, Account, Registered, Whole, OwnAccount
  <2> QED BY <2>1, <2>2, <2>3, <2>4 DEF IdentityInv, Registered
<1>5. Same => \A u \in Registered : /\ users'[u] # None
                                    /\ users'[u].name = users[u].name
                                    /\ users'[u].uid = users[u].uid
                                    /\ users'[u].gid = users[u].gid
  BY DEF Same, Registered
<1> QED BY <1>1, <1>2, <1>3, <1>4, <1>5 DEF IdentityNext, Registered

LEMMA IdentityInvariant == IdentitySpec => []IdentityInv
<1>1. IdentityInv /\ [IdentityNext]_identityVars => IdentityInv'
  BY IdentityStep
<1> QED BY IdentityStart, <1>1, PTL DEF IdentitySpec

(* The registry, the accounts, the homes and the requests keep their types. *)
THEOREM IdentityTyped == IdentitySpec => []IdentityTypeOK
<1>1. IdentityInv => IdentityTypeOK
  BY DEF IdentityInv
<1> QED BY IdentityInvariant, <1>1, PTL

(* No two users share a name, a UID or a GID, and none owns the home of     *)
(* another, through any crashes, failures, images and adopted accounts.     *)
THEOREM UsersSeparate == IdentitySpec => []Separate
<1>1. IdentityInv => Separate
  BY DEF IdentityInv
<1> QED BY IdentityInvariant, <1>1, PTL

(* What a user was once given stays theirs.                                 *)
THEOREM BindingsLast == IdentitySpec => BindingStable
<1>1. IdentityInv /\ [IdentityNext]_identityVars
        => [\A u \in Registered :
              /\ users'[u] # None
              /\ users'[u].name = users[u].name
              /\ users'[u].uid = users[u].uid /\ users'[u].gid = users[u].gid]_identityVars
  BY IdentityStep
<1> QED BY IdentityInvariant, <1>1, PTL DEF IdentitySpec, BindingStable

(* Which step of the request itself gave it an answer.                      *)
LEMMA AnswerIsOwn ==
    ASSUME IdentityInv, IdentityNext, NEW r \in Requests,
           pc[r] # pc'[r], pc'[r] \in {"returned", "refused"}
    PROVE  Step(r)
<1>0. IdentityTypeOK
  BY DEF IdentityInv
<1>1. ASSUME NEW dead \in SUBSET Processes, pc' = Dropped(dead)
      PROVE  FALSE
  BY <1>1 DEF Dropped
<1>2. ASSUME NEW q \in Requests, Step(q), q # r
      PROVE  FALSE
  <2>1. CASE Enter(q)
    BY <1>0, <1>2, <2>1 DEF Enter, IdentityTypeOK
  <2>2. CASE ~Enter(q)
    <3>1. \E e \in {"idle", "look", "allocate", "account", "group", "add", "check",
                    "repair", "members", "finish", "returned", "failed", "refused"} :
            Goto(q, e) \/ Leave(q, e)
      BY <1>2, <2>2 DEF Step, Look, Draft, Allocate, EnsureAccount, EnsureGroup,
         AddAccount, Check, Repair, Members, MarkReady, Fail, Retry
    <3> QED BY <1>0, <1>2, <3>1, Goes
  <2> QED BY <2>1, <2>2
<1>3. ASSUME (\E p \in Processes : Crash(p)) \/ Recreate
      PROVE  \E dead \in SUBSET Processes : pc' = Dropped(dead)
  BY <1>3 DEF Crash, Recreate
<1> QED BY <1>1, <1>2, <1>3 DEF IdentityNext

(* A request that is refused meets something of the image: whatever else is *)
(* in passwd and group belongs to its registered user, and fits.            *)
LEMMA RefusedInVain ==
    ASSUME IdentityInv, NEW r \in Requests, Step(r), pc[r] # "refused", pc'[r] = "refused"
    PROVE  IF Record(r) = None THEN image.accounts[BaseName[User(r)]] # None
           ELSE AccountInTheWay(r) \/ GroupInTheWay(r)
<1>0. IdentityTypeOK /\ Separate /\ Reached(r)
  BY DEF IdentityInv
<1>1. ASSUME NEW e \in {"idle", "look", "allocate", "account", "group", "add", "check",
                       "repair", "members", "finish", "returned", "failed"},
             Goto(r, e) \/ Leave(r, e)
      PROVE  FALSE
  BY <1>0, <1>1, Goes
<1>2. ASSUME NEW n \in Names, Account(n), accounts[n] # image.accounts[n]
      PROVE  \E u \in Registered : AccountOf(n, u)
  BY <1>2 DEF IdentityInv, Traces
<1>2a. ASSUME NEW n \in Names, groups[n] # NoId, groups[n] # image.groups[n]
       PROVE  \E u \in Registered : GroupOf(n, u)
  BY <1>2a DEF IdentityInv, Traces
<1>3. CASE Look(r)
  <2>1. Record(r) = None /\ Adopts(User(r)) /\ BaseName[User(r)] \in Names
    BY <1>1, <1>3, Typed, ProvisioningAssumption, <1>0 DEF Look, Draft
  <2>2. CASE accounts[BaseName[User(r)]] # image.accounts[BaseName[User(r)]]
    <3>1. PICK u \in Registered : AccountOf(BaseName[User(r)], u)
      BY <1>2, <2>1, <2>2 DEF Adopts
    <3> QED BY <2>1, <3>1 DEF Adopts, AccountOf, Bound
  <2> QED BY <2>1, <2>2 DEF Adopts, Account
<1>4. ASSUME pc[r] \in Recorded
      PROVE  /\ User(r) \in Registered /\ Name(r) \in Names /\ Record(r) # None
             /\ Record(r) = users[User(r)] /\ Name(r) = users[User(r)].name
             /\ Record(r).uid # NoId /\ Record(r).gid # NoId
  <2>1. Record(r) # None
    BY <1>0, <1>4 DEF Reached
  <2> QED BY <1>0, <2>1, Typed, ProvisioningAssumption DEF Record, Name, NoId
<1>5. CASE EnsureAccount(r)
  <2>1. pc[r] \in Recorded
    BY <1>5 DEF EnsureAccount, Recorded
  <2>2. CASE Account(Name(r))
    <3>1. ~(/\ accounts[Name(r)].uid = Record(r).uid
            /\ accounts[Name(r)].gid = Record(r).gid /\ accounts[Name(r)].managed)
      BY <1>1, <1>5, <2>2 DEF EnsureAccount
    <3>2. accounts[Name(r)] = image.accounts[Name(r)]
      <4>1. SUFFICES ASSUME accounts[Name(r)] # image.accounts[Name(r)] PROVE FALSE
        OBVIOUS
      <4>2. PICK u \in Registered : AccountOf(Name(r), u)
        BY <1>2, <1>4, <2>1, <2>2, <4>1
      <4>3. u = User(r)
        BY <1>0, <1>4, <2>1, <4>2 DEF AccountOf, Separate
      <4> QED BY <1>4, <2>1, <3>1, <4>2, <4>3 DEF AccountOf
    <3>3. AccountInTheWay(r)
      BY <1>4, <2>1, <2>2, <3>1, <3>2 DEF AccountInTheWay, Account
    <3> QED BY <1>4, <2>1, <3>3
  <2>3. CASE ~Account(Name(r))
    <3>1. PICK n \in Names : accounts[n].uid = Record(r).uid
      BY <1>1, <1>5, <2>3 DEF EnsureAccount
    <3>2. Account(n) /\ n # Name(r)
      BY <1>4, <2>1, <2>3, <3>1 DEF Account, None
    <3>3. accounts[n] = image.accounts[n]
      <4>1. SUFFICES ASSUME accounts[n] # image.accounts[n] PROVE FALSE
        OBVIOUS
      <4>2. PICK u \in Registered : AccountOf(n, u)
        BY <1>2, <3>2, <4>1
      <4>3. u = User(r)
        BY <1>0, <1>4, <2>1, <3>1, <4>2 DEF AccountOf, Separate
      <4> QED BY <1>4, <2>1, <3>2, <4>2, <4>3 DEF AccountOf
    <3>4. AccountInTheWay(r)
      BY <3>1, <3>2, <3>3 DEF AccountInTheWay, Account
    <3> QED BY <1>4, <2>1, <3>4
  <2> QED BY <2>2, <2>3
<1>6. CASE EnsureGroup(r)
  <2>1. pc[r] \in Recorded
    BY <1>6 DEF EnsureGroup, Recorded
  <2>2. ASSUME NEW n \in Names, groups[n] # NoId,
               (n = Name(r)) # (groups[n] = Record(r).gid)
        PROVE  GroupInTheWay(r)
    <3>1. groups[n] = image.groups[n]
      <4>1. SUFFICES ASSUME groups[n] # image.groups[n] PROVE FALSE
        OBVIOUS
      <4>2. PICK u \in Registered : GroupOf(n, u)
        BY <1>2a, <2>2, <4>1
      <4>3. n = Name(r) => u = User(r)
        BY <1>0, <1>4, <2>1, <4>2 DEF GroupOf, Separate
      <4>4. groups[n] = Record(r).gid => u = User(r)
        BY <1>0, <1>4, <2>1, <4>2 DEF GroupOf, Separate
      <4> QED BY <1>4, <2>1, <2>2, <4>2, <4>3, <4>4 DEF GroupOf
    <3> QED BY <2>2, <3>1 DEF GroupInTheWay
  <2>3. ASSUME GroupFits(r), ~\E n \in Names \ {Name(r)} : groups[n] = Record(r).gid
        PROVE  FALSE
    <3>1. \E e \in {"check", "add", "failed"} : Goto(r, e) \/ Leave(r, e)
      BY <1>6, <2>3 DEF EnsureGroup, Fail
    <3> QED BY <1>1, <3>1
  <2>4. CASE ~GroupFits(r)
    BY <1>4, <2>1, <2>2, <2>4 DEF GroupFits
  <2>5. ASSUME NEW n \in Names \ {Name(r)}, groups[n] = Record(r).gid
        PROVE  GroupInTheWay(r)
    BY <1>4, <2>1, <2>2, <2>5
  <2> QED BY <1>4, <2>1, <2>3, <2>4, <2>5
<1>7. CASE Enter(r)
  BY <1>0, <1>7 DEF Enter, IdentityTypeOK
<1>8. CASE \/ Allocate(r) \/ AddAccount(r) \/ Check(r) \/ Repair(r) \/ Members(r)
           \/ MarkReady(r) \/ Retry(r)
  BY <1>1, <1>8 DEF Allocate, AddAccount, Check, Repair, Members, MarkReady, Retry, Fail
<1> QED BY <1>3, <1>5, <1>6, <1>7, <1>8 DEF Step

(* Only what the image brought can refuse a user for good.                  *)
THEOREM ImageRefuses == IdentitySpec => RefusedByImage
<1>1. IdentityInv /\ [IdentityNext]_identityVars
        => [\A r \in Requests : pc[r] # "refused" /\ pc'[r] = "refused" =>
              IF Record(r) = None THEN image.accounts[BaseName[User(r)]] # None
              ELSE AccountInTheWay(r) \/ GroupInTheWay(r)]_identityVars
  BY AnswerIsOwn, RefusedInVain
<1> QED BY IdentityInvariant, <1>1, PTL DEF IdentitySpec, RefusedByImage

(* What a request that returns its user has found, down to the entries.     *)
Prepared(r) ==
    LET account == accounts[Name(r)] home == homes[Name(r)] IN
    /\ account # None
    /\ account.uid = Record(r).uid /\ account.gid = Record(r).gid
    /\ home # None /\ home.mode
    /\ home.uid = Record(r).uid /\ home.gid = Record(r).gid
    /\ \/ home.deep /\ home.linked \subseteq {Record(r).uid}
       \/ Cached(r) \/ Name(r) \in dirtied

(* Who is returned has the account and a home of the same owner, in which   *)
(* every entry was walked or repaired, unless the process had verified it   *)
(* before or a crash dirtied it under its hands.                            *)
THEOREM ReturnsReady == IdentitySpec => ReturnedReady
<1>1. ASSUME IdentityInv, IdentityNext, NEW r \in Requests,
             pc[r] # "returned", pc'[r] = "returned"
      PROVE  Prepared(r) /\ Record(r)'.state = "ready"
  <2>0. IdentityTypeOK /\ Reached(r) /\ Step(r)
    BY <1>1, AnswerIsOwn DEF IdentityInv
  <2>1. ASSUME NEW e \in {"idle", "look", "allocate", "account", "group", "add", "check",
                         "repair", "members", "finish", "failed", "refused"},
               Goto(r, e) \/ Leave(r, e)
        PROVE  FALSE
    BY <1>1, <2>0, <2>1, Goes
  <2>2. ASSUME pc[r] \in {"check", "finish"}
        PROVE  Record(r) # None /\ Account(Name(r)) /\ OwnAccount(r)
    BY <2>0, <2>2 DEF Reached, Recorded
  <2>3. CASE Check(r)
    <3>1. pc[r] = "check" /\ HomeReady(r) /\ Record(r).state = "ready" /\ users' = users
          /\ (Cached(r) \/ Walked(r))
      BY <2>1, <2>3 DEF Check
    <3>2. Record(r)' = Record(r)
      BY <3>1 DEF Record, User
    <3> QED BY <2>2, <3>1, <3>2 DEF Walked, HomeReady, Account, OwnAccount, Prepared
  <2>4. CASE MarkReady(r)
    <3>1. pc[r] = "finish" /\ HomeReady(r) /\ Marked(r, "ready")
      BY <2>1, <2>4 DEF MarkReady
    <3>2. Record(r)'.state = "ready"
      BY <2>0, <2>2, <3>1, MarkedSame
    <3>3. Whole(r)
      BY <2>0, <3>1 DEF Reached
    <3> QED BY <2>2, <3>1, <3>2, <3>3 DEF Whole, HomeReady, Account, OwnAccount, Prepared
  <2>5. CASE Enter(r)
    BY <1>1, <2>0, <2>5 DEF Enter, IdentityTypeOK
  <2>6. CASE \/ Look(r) \/ Allocate(r) \/ EnsureAccount(r) \/ EnsureGroup(r)
             \/ AddAccount(r) \/ Repair(r) \/ Members(r) \/ Retry(r)
    BY <2>1, <2>6 DEF Look, Draft, Allocate, EnsureAccount, EnsureGroup, AddAccount,
                      Repair, Members, Retry, Fail
  <2> QED BY <2>0, <2>3, <2>4, <2>5, <2>6 DEF Step
<1>2. IdentityInv /\ [IdentityNext]_identityVars
        => [\A r \in Requests : pc[r] # "returned" /\ pc'[r] = "returned" =>
              LET account == accounts[Name(r)] home == homes[Name(r)] IN
              /\ account # None
              /\ account.uid = Record(r).uid /\ account.gid = Record(r).gid
              /\ home # None /\ home.mode
              /\ home.uid = Record(r).uid /\ home.gid = Record(r).gid
              /\ \/ home.deep /\ home.linked \subseteq {Record(r).uid}
                 \/ Cached(r) \/ Name(r) \in dirtied
              /\ Record(r)'.state = "ready"]_identityVars
  BY <1>1 DEF Prepared
<1> QED BY IdentityInvariant, <1>2, PTL DEF IdentitySpec, ReturnedReady

=============================================================================
