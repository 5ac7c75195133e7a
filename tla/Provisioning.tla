----------------------------- MODULE Provisioning -----------------------------
(***************************************************************************)
(* Linux identities of the upstream users: ensure_os_user of               *)
(* user_isolation.py over the registry of identity_store.py and the homes  *)
(* repaired by identity_paths.py.                                          *)
(*                                                                         *)
(* The registry and the homes persist; accounts and groups live in the     *)
(* container and are those of its image after a recreation.  Threads of    *)
(* several service processes serve requests, one at a time under the       *)
(* operation lock (a thread lock and a flock), which the kernel releases   *)
(* when the process of its holder dies.                                    *)
(***************************************************************************)
EXTENDS Integers, Sequences

CONSTANTS
    Requests, Processes, Users, Names,
    UserOf,        \* the user of each request
    ProcessOf,     \* the service process that serves it
    BaseName,      \* sanitize_username of each user
    Suffixed,      \* the base with one hash, the next, ... of each user
    Images,        \* container images: [accounts, groups]
    OldHomes,      \* homes that may be there from before the registry
    MaxUid,        \* bound on identifiers
    MaxFaults      \* bound on failures, crashes and recreations

NoId == 0          \* root's identifier; no group has it
None == [uid |-> NoId]

(* What the registry, passwd and the homes hold.                            *)
Identities == [name : Names, uid : 1..MaxUid, gid : 1..MaxUid,
               state : {"allocated", "provisioning", "ready"}]
Accounts == [uid : 1..MaxUid, gid : 1..MaxUid, managed : BOOLEAN]
Homes == [uid : 0..MaxUid, gid : 0..MaxUid, mode : BOOLEAN, deep : BOOLEAN,
          linked : SUBSET (0..MaxUid)]

ASSUME ProvisioningAssumption ==
    /\ UserOf \in [Requests -> Users] /\ ProcessOf \in [Requests -> Processes]
    /\ BaseName \in [Users -> Names] /\ Suffixed \in [Users -> Seq(Names)]
    /\ Images \subseteq [accounts : [Names -> Accounts \cup {None}],
                         groups : [Names -> 0..MaxUid]]
    /\ OldHomes \subseteq [Names -> Homes \cup {None}]
    /\ MaxUid \in Nat /\ MaxFaults \in Nat /\ "nobody" \notin Requests

VARIABLES
    users,         \* the registry: None or [name, uid, gid, state] of each user
    nextId,        \* next_uid and next_gid
    accounts,      \* passwd: None or [uid, gid, managed] of each name
    groups,        \* group: the GID of each name, or NoId
    homes,         \* None or [uid, gid, mode, deep, linked]: owners, mode 2770,
                   \* whether the entries below have the owners, and the
                   \* owners of those that are hard-linked regular files
    verified,      \* _VERIFIED_HOMES of each process: homes still unchanged
    asRoot,        \* the service runs as root
    image,         \* the container's image
    lock,          \* holder of the operation lock
    pc,            \* how far each request is
    copy,          \* the registry as its allocation loaded it
    draft,         \* the record it is about to write
    faults,        \* failures, crashes and recreations so far
    dirtied        \* history: homes written to since the lock was taken

registry == <<users, nextId>>
system == <<accounts, groups, homes, verified>>
fixed == <<asRoot, image>>
local == <<copy, draft>>
identityVars == <<registry, system, fixed, lock, pc, local, faults, dirtied>>

User(r) == UserOf[r]
Record(r) == users[User(r)]
Name(r) == Record(r).name

Registered == {u \in Users : users[u] # None}

IdentityTypeOK ==
    /\ users \in [Users -> Identities \cup {None}]
    /\ nextId \in 0..MaxUid
    /\ image \in Images
    /\ accounts \in [Names -> Accounts \cup {None}]
    /\ groups \in [Names -> 0..MaxUid]
    /\ homes \in [Names -> Homes \cup {None}]
    /\ verified \in [Processes -> SUBSET Names]
    /\ lock \in Requests \cup {"nobody"}
    /\ pc \in [Requests -> {"idle", "look", "allocate", "account", "group", "add",
                            "check", "repair", "members", "finish",
                            "returned", "failed", "refused"}]
    /\ copy \in [Requests -> [Users -> Identities \cup {None}] \cup {<<>>}]
    /\ draft \in [Requests -> Identities \cup {None}]
    /\ asRoot \in BOOLEAN /\ faults \in 0..MaxFaults /\ dirtied \subseteq Names

IdentityInit ==
    /\ users = [u \in Users |-> None] /\ nextId = 0
    /\ image \in Images
    /\ accounts = image.accounts /\ groups = image.groups
    /\ homes \in OldHomes
    /\ verified = [p \in Processes |-> {}]
    /\ asRoot \in BOOLEAN
    /\ lock = "nobody"
    /\ pc = [r \in Requests |-> "idle"]
    /\ copy = [r \in Requests |-> <<>>]
    /\ draft = [r \in Requests |-> None]
    /\ faults = 0 /\ dirtied = {}

-----------------------------------------------------------------------------
(* The operation lock.                                                      *)

(* Slip: the thread lock alone, which other processes do not see.           *)
SlipGateOpen(r) == \A q \in Requests : lock = q => ProcessOf[q] # ProcessOf[r]

GateOpen(r) == lock = "nobody"

Goto(r, step) == pc' = [pc EXCEPT ![r] = step] /\ UNCHANGED lock

(* The operation ends, with an answer or an exception.                      *)
Leave(r, end) == pc' = [pc EXCEPT ![r] = end] /\ lock' = "nobody"

(* An operation that the system refused: the next call retries.             *)
Fail(r) == faults < MaxFaults /\ faults' = faults + 1 /\ Leave(r, "failed")

Enter(r) ==
    /\ pc[r] = "idle" /\ GateOpen(r)
    /\ lock' = r
    /\ pc' = [pc EXCEPT ![r] = "look"]
    /\ dirtied' = {}
    /\ UNCHANGED <<registry, system, fixed, local, faults>>

(* The caller asks again.                                                   *)
Retry(r) ==
    /\ pc[r] = "failed"
    /\ Goto(r, "idle")
    /\ UNCHANGED <<registry, system, fixed, local, faults, dirtied>>

-----------------------------------------------------------------------------
(* Choosing the identity.                                                   *)

Bound == {users[u].name : u \in Registered}
Account(n) == accounts[n] # None

Free(n) == n \notin Bound /\ ~Account(n)

(* _select_username, for a user without a record.  The account of the base  *)
(* name is adopted if nobody is bound to it and it is a managed one.        *)
Adopts(u) ==
    BaseName[u] \notin Bound /\ Account(BaseName[u]) /\ accounts[BaseName[u]].managed

(* Otherwise a new account has the base name or, if that is taken, the      *)
(* first suffixed one that is free.                                         *)
Selected(u, n) ==
    \/ Free(BaseName[u]) /\ n = BaseName[u]
    \/ /\ ~Free(BaseName[u]) /\ ~Adopts(u)
       /\ \E i \in DOMAIN Suffixed[u] :
             /\ n = Suffixed[u][i] /\ Free(n)
             /\ \A j \in 1 .. i - 1 : ~Free(Suffixed[u][j])

(* Slip: the homes are not looked at.                                       *)
SlipOccupied ==
    {NoId} \cup {accounts[n].uid : n \in Names} \cup {groups[n] : n \in Names}
    \cup {users[u].uid : u \in Registered} \cup {users[u].gid : u \in Registered}

(* _occupied: the identifiers of accounts, groups, homes and records.       *)
Occupied ==
    {NoId} \cup {accounts[n].uid : n \in Names} \cup {groups[n] : n \in Names}
    \cup {homes[n].uid : n \in Names}
    \cup {homes[n].gid : n \in {k \in Names : homes[k] # None}}
    \cup {users[u].uid : u \in Registered} \cup {users[u].gid : u \in Registered}

(* The least identifier above everything occupied and not below the counter.*)
Candidate(c) ==
    /\ c >= nextId /\ \A o \in Occupied : c > o
    /\ c = nextId \/ c - 1 \in Occupied

(* _validate_adoption: nobody else has the identifiers of the account.      *)
Adoptable(n) ==
    LET a == accounts[n] IN
    /\ \A u \in Registered : users[u].uid # a.uid /\ users[u].gid # a.gid
    /\ \A k \in Names \ {n} :
         /\ accounts[k].uid # a.uid /\ groups[k] # a.gid
         /\ homes[k] # None => homes[k].uid # a.uid /\ homes[k].gid # a.gid

Draft(r, n, uid, gid) ==
    /\ draft' = [draft EXCEPT ![r] =
         [name |-> n, uid |-> uid, gid |-> gid, state |-> "allocated"]]
    /\ copy' = [copy EXCEPT ![r] = users]
    /\ Goto(r, "allocate")

(* The record of the user, or the draft of a new one.                       *)
Look(r) ==
    /\ pc[r] = "look"
    /\ LET u == User(r) n == BaseName[u] IN
       \/ Record(r) # None /\ Goto(r, "account") /\ UNCHANGED local
       \/ /\ Record(r) = None
          /\ \E k \in Names, c \in 1..MaxUid :
                Selected(u, k) /\ Candidate(c) /\ Draft(r, k, c, c)
       \/ /\ Record(r) = None /\ Adopts(u) /\ Adoptable(n)
          /\ Draft(r, n, accounts[n].uid, accounts[n].gid)
       \/ /\ Record(r) = None /\ Adopts(u) /\ ~Adoptable(n)
          /\ Leave(r, "refused") /\ UNCHANGED local
    /\ UNCHANGED <<registry, system, fixed, faults, dirtied>>

(* allocate replaces the registry by the loaded one with the new record; an *)
(* adopted identity leaves the counters alone.                              *)
Allocate(r) ==
    /\ pc[r] = "allocate"
    /\ \/ /\ users' = [copy[r] EXCEPT ![User(r)] = draft[r]]
          /\ nextId' = IF Account(draft[r].name) THEN nextId ELSE draft[r].uid
          /\ Goto(r, "account")
          /\ UNCHANGED faults
       \/ Fail(r) /\ UNCHANGED registry
    /\ copy' = [copy EXCEPT ![r] = <<>>] /\ draft' = [draft EXCEPT ![r] = None]
    /\ UNCHANGED <<system, fixed, dirtied>>

Marked(r, state) == users' = [users EXCEPT ![User(r)].state = state]

-----------------------------------------------------------------------------
(* The account and its group.                                               *)

NewHome(n) ==
    IF homes[n] = None
      THEN [homes EXCEPT ![n] =
              [uid |-> NoId, gid |-> NoId, mode |-> FALSE, deep |-> TRUE, linked |-> {}]]
      ELSE homes

(* _ensure_account up to the group: a missing account means a new container *)
(* (or a new user), and the record is not ready until it is repaired.       *)
EnsureAccount(r) ==
    /\ pc[r] = "account"
    /\ IF Account(Name(r))
         THEN LET a == accounts[Name(r)] IN
              /\ IF a.uid = Record(r).uid /\ a.gid = Record(r).gid /\ a.managed
                   THEN Goto(r, "group")
                   ELSE Leave(r, "refused")
              /\ UNCHANGED users
         ELSE /\ Marked(r, "provisioning")
              /\ IF \E n \in Names : accounts[n].uid = Record(r).uid
                   THEN Leave(r, "refused")
                   ELSE Goto(r, "group")
    /\ homes' = IF asRoot THEN NewHome(Name(r)) ELSE homes
    /\ UNCHANGED <<nextId, accounts, groups, verified, fixed, local, faults, dirtied>>

(* Slip: a group of the name is in the way, even with the right GID.        *)
SlipGroupFits(r) == groups[Name(r)] = NoId

GroupFits(r) == groups[Name(r)] \in {NoId, Record(r).gid}

(* _ensure_group: groupadd, unless the group is there.                      *)
EnsureGroup(r) ==
    /\ pc[r] = "group"
    /\ LET next == IF Account(Name(r)) THEN "check" ELSE "add" IN
       IF \/ ~GroupFits(r)
          \/ \E n \in Names \ {Name(r)} : groups[n] = Record(r).gid
              /\ groups[Name(r)] = NoId
         THEN Leave(r, "refused") /\ UNCHANGED <<groups, faults>>
       ELSE IF groups[Name(r)] # NoId
         THEN Goto(r, next) /\ UNCHANGED <<groups, faults>>
       ELSE \/ /\ groups' = [groups EXCEPT ![Name(r)] = Record(r).gid]
               /\ Goto(r, next) /\ UNCHANGED faults
            \/ Fail(r) /\ UNCHANGED groups
    /\ UNCHANGED <<registry, accounts, homes, verified, fixed, local, dirtied>>

(* useradd.                                                                 *)
AddAccount(r) ==
    /\ pc[r] = "add"
    /\ \/ /\ accounts' = [accounts EXCEPT ![Name(r)] =
              [uid |-> Record(r).uid, gid |-> Record(r).gid, managed |-> TRUE]]
          /\ Goto(r, "check") /\ UNCHANGED faults
       \/ Fail(r) /\ UNCHANGED accounts
    /\ UNCHANGED <<registry, groups, homes, verified, fixed, local, dirtied>>

-----------------------------------------------------------------------------
(* The home.                                                                *)

(* _verify_ready, of the home.                                              *)
HomeReady(r) ==
    LET h == homes[Name(r)] IN
    /\ h # None /\ h.uid = Record(r).uid /\ h.gid = Record(r).gid /\ h.mode

Cached(r) == Name(r) \in verified[ProcessOf[r]]

(* Slip: a ready home is not walked again after a restart.                  *)
SlipWalked(r) == TRUE

Walked(r) == homes[Name(r)].deep /\ homes[Name(r)].linked \subseteq {Record(r).uid}

(* A ready user is served at once when this process has verified the home,  *)
(* or, as root, after a walk; every other one is repaired.                  *)
Check(r) ==
    /\ pc[r] = "check"
    /\ IF HomeReady(r) /\ Record(r).state = "ready" /\ (Cached(r) \/ (asRoot /\ Walked(r)))
         THEN /\ verified' = [verified EXCEPT ![ProcessOf[r]] = @ \cup {Name(r)}]
              /\ Leave(r, "returned")
              /\ UNCHANGED users
         ELSE /\ Marked(r, "provisioning")
              /\ Goto(r, "repair")
              /\ UNCHANGED verified
    /\ UNCHANGED <<nextId, accounts, groups, homes, fixed, local, faults, dirtied>>

OwnedHome(r, mode, deep) ==
    [uid |-> Record(r).uid, gid |-> Record(r).gid, mode |-> mode, deep |-> deep,
     linked |-> NewHome(Name(r))[Name(r)].linked]

(* Entry.chown refuses a hard-linked regular file, so a home that has one   *)
(* of another owner cannot be repaired, however often it is tried.          *)
Repairable(r) == NewHome(Name(r))[Name(r)].linked \subseteq {Record(r).uid}

(* Any change of the home's inode changes its fingerprint.                  *)
Touched(n) == [p \in Processes |-> verified[p] \ {n}]

(* Slip: the mode is left alone.                                            *)
SlipRepaired(r) == OwnedHome(r, NewHome(Name(r))[Name(r)].mode, TRUE)

Repaired(r) == OwnedHome(r, TRUE, TRUE)

HalfRepaired(r) == OwnedHome(r, NewHome(Name(r))[Name(r)].mode, FALSE)

(* repair_home changes the owners from the top and the mode last.  It stops *)
(* half-way at a file that it may not change, or by a failure, which may    *)
(* also come before the first change.                                       *)
Repair(r) ==
    /\ pc[r] = "repair"
    /\ \/ /\ Repairable(r)
          /\ homes' = [homes EXCEPT ![Name(r)] = Repaired(r)]
          /\ Goto(r, "members") /\ UNCHANGED faults
       \/ /\ ~Repairable(r)
          /\ homes' = [homes EXCEPT ![Name(r)] = HalfRepaired(r)]
          /\ Leave(r, "failed") /\ UNCHANGED faults
       \/ /\ homes' \in {homes, [homes EXCEPT ![Name(r)] = HalfRepaired(r)]}
          /\ Fail(r)
    /\ verified' = IF homes' = homes /\ pc'[r] = "failed" THEN verified
                   ELSE Touched(Name(r))
    /\ UNCHANGED <<registry, accounts, groups, fixed, local, dirtied>>

(* usermod, which matters when the service is not root.                     *)
Members(r) ==
    /\ pc[r] = "members"
    /\ \/ Goto(r, "finish") /\ UNCHANGED faults
       \/ ~asRoot /\ Fail(r)
    /\ UNCHANGED <<registry, system, fixed, local, dirtied>>

MarkReady(r) ==
    /\ pc[r] = "finish"
    /\ IF Account(Name(r)) /\ HomeReady(r)
         THEN /\ Marked(r, "ready")
              /\ verified' = [verified EXCEPT ![ProcessOf[r]] = @ \cup {Name(r)}]
              /\ Leave(r, "returned")
         ELSE Leave(r, "failed") /\ UNCHANGED <<users, verified>>
    /\ UNCHANGED <<nextId, accounts, groups, homes, fixed, local, faults, dirtied>>

-----------------------------------------------------------------------------
(* Crashes.                                                                 *)

Underway(r) == pc[r] \notin {"idle", "returned", "failed", "refused"}

Dropped(dead) == [r \in Requests |->
    IF ProcessOf[r] \in dead /\ pc[r] # "refused" THEN "idle" ELSE pc[r]]

Forgotten(dead) ==
    /\ draft' = [r \in Requests |-> IF ProcessOf[r] \in dead THEN None ELSE draft[r]]
    /\ copy' = [r \in Requests |-> IF ProcessOf[r] \in dead THEN <<>> ELSE copy[r]]

Freed(dead) ==
    IF lock # "nobody" /\ ProcessOf[lock] \in dead THEN "nobody" ELSE lock

(* A service process dies and is started again, its callers call again.  It *)
(* may have been writing, as root, into a home: an entry keeps the wrong    *)
(* owner, which the inode of the home does not show.                        *)
Crash(p) ==
    /\ faults < MaxFaults /\ faults' = faults + 1
    /\ pc' = Dropped({p}) /\ lock' = Freed({p}) /\ Forgotten({p})
    /\ verified' = [verified EXCEPT ![p] = {}]
    /\ \/ UNCHANGED <<homes, dirtied>>
       \/ \E n \in Names : /\ homes[n] # None
                           /\ homes' = [homes EXCEPT ![n].deep = FALSE]
                           /\ dirtied' = dirtied \cup {n}
    /\ UNCHANGED <<registry, accounts, groups, fixed>>

(* The container is created again, possibly from another image.             *)
Recreate ==
    /\ faults < MaxFaults /\ faults' = faults + 1
    /\ image' \in Images
    /\ accounts' = image'.accounts /\ groups' = image'.groups
    /\ verified' = [p \in Processes |-> {}]
    /\ pc' = Dropped(Processes) /\ lock' = "nobody" /\ Forgotten(Processes)
    /\ UNCHANGED <<registry, homes, asRoot, dirtied>>

Step(r) ==
    \/ Enter(r) \/ Look(r) \/ Allocate(r) \/ EnsureAccount(r) \/ EnsureGroup(r)
    \/ AddAccount(r) \/ Check(r) \/ Repair(r) \/ Members(r) \/ MarkReady(r)
    \/ Retry(r)

IdentityNext ==
    \/ \E r \in Requests : Step(r)
    \/ \E p \in Processes : Crash(p)
    \/ Recreate

IdentitySpec == IdentityInit /\ [][IdentityNext]_identityVars

(* The threads are scheduled and the callers retry what failed.  The        *)
(* fairness is strong for the sake of the operation lock: who waits for it  *)
(* gets it in the end, although the caller of a home that cannot be         *)
(* repaired comes back for ever.  A release wakes the waiters at once, the  *)
(* next call is a request away.                                             *)
FairSpec == IdentitySpec /\ \A r \in Requests : SF_identityVars(Step(r))

-----------------------------------------------------------------------------
(* Properties.                                                              *)

(* No two users ever share a name or an identifier, and no user has an      *)
(* identifier that owns somebody else's home: also after crashes, new       *)
(* images, adopted accounts and homes from before the registry.             *)
Separate ==
    /\ \A u, v \in Registered : u # v =>
         /\ users[u].name # users[v].name
         /\ users[u].uid # users[v].uid /\ users[u].gid # users[v].gid
    /\ \A u \in Registered, n \in Names :
         homes[n] # None /\ n # users[u].name =>
             homes[n].uid # users[u].uid /\ homes[n].gid # users[u].gid

(* "Identity stability contract": what a user was once given stays theirs,  *)
(* whatever other processes write.                                          *)
BindingStable ==
    [][\A u \in Registered :
         /\ users'[u] # None
         /\ users'[u].name = users[u].name
         /\ users'[u].uid = users[u].uid /\ users'[u].gid = users[u].gid]_identityVars

(* A user is returned only with the account of their identifiers and with a *)
(* home that has them too, down to the last entry, also when a crash had    *)
(* left a stranger's entry in it or when the home is from before the        *)
(* registry.  Only below the home itself can an entry be missed, and only   *)
(* by a process that verified the home earlier, or that was verifying it    *)
(* when another process crashed.                                            *)
ReturnedReady ==
    [][\A r \in Requests : pc[r] # "returned" /\ pc'[r] = "returned" =>
         LET account == accounts[Name(r)] home == homes[Name(r)] IN
         /\ account # None
         /\ account.uid = Record(r).uid /\ account.gid = Record(r).gid
         /\ home # None /\ home.mode
         /\ home.uid = Record(r).uid /\ home.gid = Record(r).gid
         /\ \/ home.deep /\ home.linked \subseteq {Record(r).uid}
            \/ Cached(r) \/ Name(r) \in dirtied
         /\ Record(r)'.state = "ready"]_identityVars

(* What the image has under the name or with an identifier of a user: an    *)
(* account to adopt; an account or a group that has one but not the other.  *)
AccountInTheWay(r) ==
    LET own == [uid |-> Record(r).uid, gid |-> Record(r).gid, managed |-> TRUE] IN
    \E n \in Names :
      /\ image.accounts[n] # None
      /\ IF n = Name(r) THEN image.accounts[n] # own ELSE image.accounts[n].uid = own.uid

GroupInTheWay(r) ==
    \E n \in Names :
      image.groups[n] # NoId /\ (n = Name(r)) # (image.groups[n] = Record(r).gid)

(* A user is refused for good only while the image itself has an account or *)
(* a group in their way: what a failure, a crash, another user or a race of *)
(* the service's own left behind never leads there.                         *)
RefusedByImage ==
    [][\A r \in Requests : pc[r] # "refused" /\ pc'[r] = "refused" =>
         IF Record(r) = None THEN image.accounts[BaseName[User(r)]] # None
         ELSE AccountInTheWay(r) \/ GroupInTheWay(r)]_identityVars

(* "Failures keep the persisted state below ready so the next call          *)
(* retries": once the faults end, every request is answered, except that a  *)
(* user whose home has a hard-linked file of another owner fails each time, *)
(* without keeping the others waiting.                                      *)
Stuck(r) == Record(r) # None /\ ~Repairable(r)

Converges == \A r \in Requests : <>[](pc[r] \in {"returned", "refused"} \/ Stuck(r))
=============================================================================
