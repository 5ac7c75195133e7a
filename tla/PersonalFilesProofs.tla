------------------------- MODULE PersonalFilesProofs -------------------------
(***************************************************************************)
(* Proofs about PersonalFiles, for any number of helpers, any names and    *)
(* requests, and a kill at any step.                                       *)
(*                                                                         *)
(* FilesInv says, for each helper by itself, what it may rely on at its    *)
(* step.  A step of h is shown to keep it in three parts: h's own clause;  *)
(* Frame(h), what every step of h leaves to the others; and the two        *)
(* clauses that look at the shared entries and contents, Grounds, which    *)
(* hold for another helper because the step notes in `meddled' what it     *)
(* touches (Noting), or touches nothing.  RootMade stands by itself: the   *)
(* trash root, its marker and who makes it.                                *)
(***************************************************************************)
EXTENDS PersonalFiles, TLAPS

(* The part of the types the proofs need.                                   *)
Typed ==
    /\ files \in [Names -> Inodes \cup {None}]
    /\ data \in [Helpers -> Inodes \cup {None}]
    /\ source \in [Helpers -> Inodes \cup {None}]
    /\ req \in [Helpers -> Requests]
    /\ DOMAIN content = Inodes /\ DOMAIN locks = Inodes
    /\ DOMAIN wrapper = Helpers /\ DOMAIN seen = Helpers
    /\ DOMAIN pc = Helpers /\ DOMAIN meddled = Helpers

(* The inode exists: it was there at the start, or its helper has started,  *)
(* and has the kind its request gave it for good.                           *)
Used(i) == i = Old \/ pc[i] # "idle"

ExistingFile(n) == files[n] # None => Used(files[n])
ExistingData(w) == data[w] # None => Used(data[w])

(* Each step belongs to the operations that reach it.                       *)
OpOfStep(h) ==
    /\ pc[h] \in {"read", "lock", "recheck", "replace"} => req[h].op = "save"
    /\ pc[h] \in {"stat", "mark", "wrap", "describe", "bin", "sync", "undo"} =>
         req[h].op = "trash"
    /\ pc[h] \in {"restore", "strip"} => req[h].op = "restore"
    /\ pc[h] = "root" => req[h].op \in {"trash", "restore"}
    /\ pc[h] = "look" => req[h].op \in {"error", "replace", "keep-both"}

(* Between the opening of the source and the rename of a save.              *)
Saving(h) == req[h].op = "save" /\ pc[h] \in {"lock", "write", "recheck", "replace"}

(* A save writes over a file it holds open, and locked after LockSource.    *)
OwnSource(h) ==
    /\ Saving(h) => /\ source[h] \in Inodes /\ Used(source[h])
                    /\ KindOf(source[h]) = "file"
    /\ Saving(h) /\ pc[h] # "lock" => locks[source[h]] = h

(* After its last check a save that nobody meddled with still has its       *)
(* source at the name, with the content its user read.                      *)
StillCurrent(h) == pc[h] = "replace" => meddled[h] \/ Current(h)

(* The root is marked once a trash has got past it.                         *)
RootKept(h) ==
    /\ pc[h] = "mark" => homeLock = h /\ root = h
    /\ pc[h] \in {"wrap", "describe", "bin"} => root = "marked"

(* The trash has done its move, or never will.                              *)
Binned(w) == pc[w] \in {"sync", "undo", "done", "killed"}

Described(h) == pc[h] = "bin" => wrapper[h] = "described"

(* What is in a wrapper, and which helpers put it there.                    *)
Restorable(w) ==
    data[w] # None =>
        /\ req[w].op = "trash" /\ Binned(w)
        /\ root = "marked" /\ wrapper[w] = "described"
        /\ KindOf(data[w]) = seen[w] \/ meddled[w]

(* The entry to trash is the one that Stat looked at, or of its kind.       *)
Intact(h) == At(h) # None /\ KindOf(At(h)) = seen[h]

StillThere(h) ==
    req[h].op = "trash" /\ pc[h] \in {"root", "mark", "wrap", "describe", "bin"}
        => Intact(h) \/ meddled[h]

(* A restore works on a wrapper whose trash has done its move, so that its  *)
(* metadata is removed after its data only.                                 *)
Restoring(h) ==
    pc[h] \in {"restore", "strip"} =>
        /\ source[h] \in Helpers /\ Binned(source[h])
        /\ pc[h] = "strip" => data[source[h]] = None

(* The clauses of one helper, and the invariant.                            *)
HelperInv(h) ==
    /\ ExistingData(h) /\ OpOfStep(h) /\ OwnSource(h) /\ StillCurrent(h)
    /\ RootKept(h) /\ Described(h) /\ Restorable(h) /\ StillThere(h) /\ Restoring(h)

FilesInv ==
    /\ Typed
    /\ \A n \in Names : ExistingFile(n)
    /\ \A h \in Helpers : HelperInv(h)

(* What a step of h leaves alone, as far as another helper k relies on it:  *)
(* its own variables, the root it passed or is making, its wrapper until    *)
(* it is restored.                                                          *)
Apart(h) ==
    \A k \in Helpers \ {h} :
        /\ pc'[k] = pc[k] /\ req'[k] = req[k]
        /\ seen'[k] = seen[k] /\ source'[k] = source[k]
        /\ homeLock = k => homeLock' = k /\ root' = root
        /\ wrapper'[k] = wrapper[k] \/ (pc[h] = "strip" /\ source[h] = k)
        /\ data'[k] = data[k] \/ data'[k] = None

OthersMarked(h) == \A k \in Helpers \ {h} : meddled[k] => meddled'[k]

(* An inode in use stays in use, as what it is.                             *)
KindsKept == \A i \in Inodes : Used(i) => Used(i)' /\ KindOf(i)' = KindOf(i)

(* Nobody takes the lock of another.                                        *)
LocksKept(h) == \A i \in Inodes : locks[i] \notin {None, h} => locks'[i] = locks[i]

(* A marked root stays marked; a finished trash stays finished, and its     *)
(* data leaves the wrapper only for a restore.                              *)
TrashKept(h) ==
    /\ root = "marked" => root' = "marked"
    /\ Binned(h) => Binned(h)' /\ (data'[h] = data[h] \/ data'[h] = None)

Frame(h) ==
    Apart(h) /\ OthersMarked(h) /\ KindsKept /\ LocksKept(h) /\ TrashKept(h)

(* The clauses that depend on the shared entries and contents.              *)
Grounds(k) == StillCurrent(k) /\ StillThere(k)

(* A step of h that respects Frame keeps every clause of another helper,    *)
(* given the two on shared entries: helpers share nothing but the home,     *)
(* its trash and the flocks.                                                *)
LEMMA OthersKept ==
    ASSUME FilesInv, NEW h \in Helpers, Frame(h), NEW k \in Helpers \ {h},
           Grounds(k)'
    PROVE  HelperInv(k)'
  <1>1. Typed /\ HelperInv(k) /\ HelperInv(h) BY DEF FilesInv
  <1>2. ExistingData(k)'
    BY <1>1, FilesAssumption
    DEF Typed, HelperInv, ExistingData, Frame, Apart, KindsKept
  <1>3. OpOfStep(k)' BY <1>1 DEF HelperInv, OpOfStep, Frame, Apart, KindsKept
  <1>4. OwnSource(k)'
    <2>1. OwnSource(k) /\ k # None BY <1>1, FilesAssumption DEF HelperInv
    <2> QED BY <2>1 DEF OwnSource, Saving, Frame, Apart, KindsKept, LocksKept
  <1>5. RootKept(k)'
    BY <1>1
    DEF HelperInv, RootKept, Frame, Apart, KindsKept, LocksKept, TrashKept
  <1>6. Described(k)' /\ Restorable(k)'
    <2>1. /\ Described(k) /\ Restorable(k) /\ Restoring(h)
          /\ data[k] # None => data[k] \in Inodes /\ Used(data[k])
      BY <1>1 DEF HelperInv, Typed, ExistingData
    <2>2. pc[h] = "strip" /\ source[h] = k => Binned(k) /\ data[k] = None
      BY <2>1 DEF Restoring
    <2>3. Described(k)' BY <2>1, <2>2 DEF Described, Frame, Apart, Binned
    <2>4. Restorable(k)'
      BY <2>1, <2>2
      DEF Restorable, Frame, Apart, OthersMarked, KindsKept, TrashKept, Binned
    <2> QED BY <2>3, <2>4
  <1>7. Restoring(k)'
    <2>1. Restoring(k) BY <1>1 DEF HelperInv
    <2> QED BY <2>1 DEF Restoring, Frame, Apart, TrashKept, Binned
  <1> QED BY <1>2, <1>3, <1>4, <1>5, <1>6, <1>7 DEF HelperInv, Grounds

(* Those two are kept by a step that changes no entry and no content.       *)
LEMMA Undisturbed ==
    ASSUME FilesInv, NEW h \in Helpers, Frame(h), NEW k \in Helpers \ {h},
           files' = files, content' = content
    PROVE  Grounds(k)'
  <1>1. Typed /\ StillCurrent(k) /\ StillThere(k) BY DEF FilesInv, HelperInv
  <1>2. At(k) # None => Used(At(k)) /\ At(k) \in Inodes
    BY <1>1, FilesAssumption DEF FilesInv, Typed, ExistingFile, At, Path
  <1>3. At(k)' = At(k) BY DEF At, Path, Frame, Apart
  <1>4. StillCurrent(k)'
    BY <1>1, <1>3 DEF StillCurrent, Current, Frame, Apart, OthersMarked
  <1>5. StillThere(k)'
    BY <1>1, <1>2, <1>3
    DEF StillThere, Intact, Frame, Apart, OthersMarked, KindsKept
  <1> QED BY <1>4, <1>5 DEF Grounds

(* Meddle adds marks only, and marks every helper that relies on what h     *)
(* touches.                                                                 *)
LEMMA MeddleNotes ==
    ASSUME Typed, NEW h \in Helpers, NEW names, NEW inodes, Meddle(h, names, inodes)
    PROVE  /\ DOMAIN meddled' = Helpers
           /\ \A k \in Helpers : meddled[k] => meddled'[k]
           /\ \A k \in Helpers \ {h} :
                Relying(k) /\ (Path(k) \in names \/ source[k] \in inodes) => meddled'[k]
  <1>1. DOMAIN meddled' = Helpers BY DEF Meddle
  <1>2. ASSUME NEW k \in Helpers
        PROVE  meddled'[k] = (meddled[k] \/ /\ k # h /\ Relying(k)
                                            /\ Path(k) \in names \/ source[k] \in inodes)
    BY DEF Meddle
  <1>3. \A k \in Helpers : meddled[k] => meddled'[k] BY <1>2, Zenon
  <1>4. \A k \in Helpers \ {h} :
           Relying(k) /\ (Path(k) \in names \/ source[k] \in inodes) => meddled'[k]
    BY <1>2, Zenon
  <1> QED BY <1>1, <1>3, <1>4

(* A step that notes what it changes keeps the two clauses of the others:   *)
(* whoever relied on it is marked.                                          *)
LEMMA Noted ==
    ASSUME FilesInv, NEW h \in Helpers, Frame(h), NEW k \in Helpers \ {h},
           NEW names, NEW inodes, Meddle(h, names, inodes),
           \A n \in Names \ names : files'[n] = files[n],
           \A i \in Inodes \ inodes : content'[i] = content[i]
    PROVE  Grounds(k)'
  <1>1. Typed /\ StillCurrent(k) /\ StillThere(k) /\ OwnSource(k) /\ OpOfStep(k)
    BY DEF FilesInv, HelperInv
  <1>2. At(k) # None => Used(At(k)) /\ At(k) \in Inodes
    BY <1>1, FilesAssumption DEF FilesInv, Typed, ExistingFile, At, Path
  <1>3. Path(k) \in Names /\ Path(k)' = Path(k)
    BY <1>1, FilesAssumption DEF Path, Frame, Apart, Typed
  <1>4. Relying(k) /\ Path(k) \in names => meddled'[k] BY <1>1, MeddleNotes
  <1>5. Relying(k) /\ source[k] \in inodes => meddled'[k] BY <1>1, MeddleNotes
  <1>6. Path(k) \notin names => At(k)' = At(k) BY <1>3 DEF At
  <1>7. StillCurrent(k)'
    BY <1>1, <1>4, <1>5, <1>6
    DEF StillCurrent, Current, Frame, Apart, OthersMarked, Relying, OwnSource,
        Saving, OpOfStep
  <1>8. StillThere(k)'
    BY <1>1, <1>2, <1>4, <1>6
    DEF StillThere, Intact, Frame, Apart, OthersMarked, KindsKept, Relying
  <1> QED BY <1>7, <1>8 DEF Grounds

(* So the invariant is kept when h keeps its own clauses, the frame and     *)
(* the grounds of the others.                                               *)
LEMMA StepKeeps ==
    ASSUME FilesInv, NEW h \in Helpers, Typed', Frame(h), HelperInv(h)',
           \A n \in Names : ExistingFile(n)',
           \A k \in Helpers \ {h} : Grounds(k)'
    PROVE  FilesInv'
  <1>1. \A k \in Helpers \ {h} : HelperInv(k)' BY OthersKept
  <1> QED BY <1>1 DEF FilesInv

(* The same for a step that touches neither entries nor contents, as most   *)
(* system calls of a helper do.                                             *)
LEMMA QuietKeeps ==
    ASSUME FilesInv, NEW h \in Helpers, Typed', Frame(h), HelperInv(h)',
           files' = files, content' = content
    PROVE  FilesInv'
  <1>1. \A k \in Helpers \ {h} : Grounds(k)' BY Undisturbed
  <1>2. ASSUME NEW n \in Names PROVE ExistingFile(n)'
    <2>1. ExistingFile(n) /\ files[n] \in Inodes \cup {None} BY DEF FilesInv, Typed
    <2> QED BY <2>1 DEF ExistingFile, Frame, KindsKept
  <1> QED BY <1>1, <1>2, StepKeeps

(* A kill at any step, without the finally clauses keeps the invariant.     *)
LEMMA KillKeeps == ASSUME FilesInv, NEW h \in Helpers, Kill(h) PROVE FilesInv'
  <1> USE FilesAssumption DEF Kill, Goto, Finish, Path, At, disk, own
  <1>1. Typed /\ HelperInv(h) BY DEF FilesInv
  <1>2. Typed' BY <1>1 DEF Typed, Unlocked
  <1>3. Frame(h)
    BY <1>1
    DEF Frame, Typed, Apart, OthersMarked, KindsKept, Used, KindOf, Inodes,
        LocksKept, Unlocked, TrashKept, Binned
  <1>4. HelperInv(h)'
    BY <1>1
    DEF Typed, HelperInv, ExistingData, OpOfStep, OwnSource, Saving, StillCurrent,
        Current, RootKept, Described, Restorable, Binned, StillThere, Intact,
        Restoring, Used, KindOf, Unlocked
  <1> QED BY <1>2, <1>3, <1>4, QuietKeeps

(* The look of an upload at its target keeps the invariant.                 *)
LEMMA LookKeeps == ASSUME FilesInv, NEW h \in Helpers, Look(h) PROVE FilesInv'
  <1> USE FilesAssumption DEF Look, Goto, Finish, Path, At, disk, own
  <1>1. Typed /\ HelperInv(h) BY DEF FilesInv
  <1>2. Typed' BY <1>1 DEF Typed
  <1>3. Frame(h)
    BY <1>1
    DEF Frame, Typed, Apart, OthersMarked, KindsKept, Used, KindOf, Inodes,
        LocksKept, TrashKept, Binned
  <1>4. HelperInv(h)'
    BY <1>1
    DEF Typed, HelperInv, ExistingData, OpOfStep, OwnSource, Saving, StillCurrent,
        Current, RootKept, Described, Restorable, Binned, StillThere, Intact,
        Restoring, Used, KindOf
  <1> QED BY <1>2, <1>3, <1>4, QuietKeeps

(* The temporary file of an upload keeps the invariant.                     *)
LEMMA WriteTemporaryKeeps ==
    ASSUME FilesInv, NEW h \in Helpers, WriteTemporary(h)
    PROVE FilesInv'
  <1> USE FilesAssumption DEF WriteTemporary, Goto, Finish, Path, At, disk, own
  <1>1. Typed /\ HelperInv(h) BY DEF FilesInv
  <1>2. Typed' BY <1>1 DEF Typed
  <1>3. Frame(h)
    BY <1>1
    DEF Frame, Typed, Apart, OthersMarked, KindsKept, Used, KindOf, Inodes,
        LocksKept, TrashKept, Binned
  <1>4. HelperInv(h)'
    BY <1>1
    DEF Typed, HelperInv, ExistingData, OpOfStep, OwnSource, Saving, StillCurrent,
        Current, RootKept, Described, Restorable, Binned, StillThere, Intact,
        Restoring, Used, KindOf
  <1> QED BY <1>2, <1>3, <1>4, QuietKeeps

(* The read of the version to edit keeps the invariant.                     *)
LEMMA ReadTextKeeps ==
    ASSUME FilesInv, NEW h \in Helpers, ReadText(h)
    PROVE FilesInv'
  <1> USE FilesAssumption DEF ReadText, Goto, Finish, Path, At, disk, own
  <1>1. Typed /\ HelperInv(h) BY DEF FilesInv
  <1>2. Typed' BY <1>1 DEF Typed
  <1>3. Frame(h)
    BY <1>1
    DEF Frame, Typed, Apart, OthersMarked, KindsKept, Used, KindOf, Inodes,
        LocksKept, TrashKept, Binned
  <1>4. HelperInv(h)'
    BY <1>1
    DEF Typed, HelperInv, ExistingData, OpOfStep, OwnSource, Saving, StillCurrent,
        Current, RootKept, Described, Restorable, Binned, StillThere, Intact,
        Restoring, Used, KindOf
  <1> QED BY <1>2, <1>3, <1>4, QuietKeeps

(* The opening of the file to save keeps the invariant.                     *)
LEMMA OpenSourceKeeps ==
    ASSUME FilesInv, NEW h \in Helpers, OpenSource(h)
    PROVE FilesInv'
  <1> USE FilesAssumption DEF OpenSource, Goto, Finish, Path, At, disk, own
  <1>1. Typed /\ HelperInv(h) BY DEF FilesInv
  <1>2. \A i \in Inodes : KindOf(i) \in {"file", "directory"} BY DEF KindOf
  <1>3. At(h) # None => At(h) \in Inodes /\ Used(At(h))
    BY <1>1 DEF FilesInv, Typed, ExistingFile
  <1>4. Typed' BY <1>1, <1>3 DEF Typed
  <1>5. Frame(h)
    BY <1>1
    DEF Frame, Typed, Apart, OthersMarked, KindsKept, Used, KindOf, Inodes,
        LocksKept, TrashKept, Binned
  <1>6. HelperInv(h)'
    BY <1>1, <1>3, <1>2, <1>5
    DEF Typed, HelperInv, ExistingData, Frame, KindsKept, OpOfStep, OwnSource,
        Saving, StillCurrent, Current, RootKept, Described, Restorable, Binned,
        KindOf, StillThere, Intact, Restoring
  <1> QED BY <1>4, <1>5, <1>6, QuietKeeps

(* The flock on it and the first comparison keeps the invariant.            *)
LEMMA LockSourceKeeps ==
    ASSUME FilesInv, NEW h \in Helpers, LockSource(h)
    PROVE FilesInv'
  <1> USE FilesAssumption DEF LockSource, Goto, Finish, Path, At, disk, own
  <1>1. Typed /\ HelperInv(h) BY DEF FilesInv
  <1>2. Typed' BY <1>1 DEF Typed
  <1>3. Frame(h)
    BY <1>1
    DEF Frame, Typed, Apart, OthersMarked, KindsKept, Used, KindOf, Inodes,
        LocksKept, Taken, TrashKept, Binned
  <1>4. HelperInv(h)'
    BY <1>1
    DEF Typed, HelperInv, ExistingData, OpOfStep, OwnSource, Saving, StillCurrent,
        Current, RootKept, Described, Restorable, Binned, StillThere, Intact,
        Restoring, Used, KindOf, Inodes
  <1> QED BY <1>2, <1>3, <1>4, QuietKeeps

(* The temporary file of a save keeps the invariant.                        *)
LEMMA WriteSavedKeeps ==
    ASSUME FilesInv, NEW h \in Helpers, WriteSaved(h)
    PROVE FilesInv'
  <1> USE FilesAssumption DEF WriteSaved, Goto, Finish, Path, At, disk, own
  <1>1. Typed /\ HelperInv(h) BY DEF FilesInv
  <1>2. Typed' BY <1>1 DEF Typed
  <1>3. Frame(h)
    BY <1>1
    DEF Frame, Typed, Apart, OthersMarked, KindsKept, Used, KindOf, Inodes,
        LocksKept, TrashKept, Binned
  <1>4. HelperInv(h)'
    BY <1>1
    DEF Typed, HelperInv, ExistingData, OpOfStep, OwnSource, Saving, StillCurrent,
        Current, RootKept, Described, Restorable, Binned, StillThere, Intact,
        Restoring, Used, KindOf
  <1> QED BY <1>2, <1>3, <1>4, QuietKeeps

(* The last check of a save keeps the invariant.                            *)
LEMMA RecheckKeeps == ASSUME FilesInv, NEW h \in Helpers, Recheck(h) PROVE FilesInv'
  <1> USE FilesAssumption DEF Recheck, Goto, Finish, Path, At, disk, own
  <1>1. Typed /\ HelperInv(h) BY DEF FilesInv
  <1>2. Typed' BY <1>1 DEF Typed, Unlocked
  <1>3. Frame(h)
    BY <1>1
    DEF Frame, Typed, Apart, OthersMarked, KindsKept, Used, KindOf, Inodes,
        LocksKept, Unlocked, TrashKept, Binned
  <1>4. HelperInv(h)'
    BY <1>1, <1>3
    DEF Typed, HelperInv, ExistingData, Frame, KindsKept, Unlocked, OpOfStep,
        OwnSource, Saving, StillCurrent, Current, RootKept, Described, Restorable,
        Binned, KindOf, StillThere, Intact, Restoring
  <1> QED BY <1>2, <1>3, <1>4, QuietKeeps

(* The opening of the trash for a restore keeps the invariant.              *)
LEMMA OpenRootKeeps ==
    ASSUME FilesInv, NEW h \in Helpers, OpenRoot(h)
    PROVE FilesInv'
  <1> USE FilesAssumption DEF OpenRoot, Goto, Finish, Path, At, disk, own
  <1>1. Typed /\ HelperInv(h) BY DEF FilesInv
  <1>2. Typed' BY <1>1 DEF Typed
  <1>3. Frame(h)
    BY <1>1
    DEF Frame, Typed, Apart, OthersMarked, KindsKept, Used, KindOf, Inodes,
        LocksKept, TrashKept, Binned
  <1>4. HelperInv(h)'
    BY <1>1
    DEF Typed, HelperInv, ExistingData, OpOfStep, OwnSource, Saving, StillCurrent,
        Current, RootKept, Described, Restorable, Binned, StillThere, Intact,
        Restoring, Used, KindOf
  <1> QED BY <1>2, <1>3, <1>4, QuietKeeps

(* The opening or creation of the trash keeps the invariant.                *)
LEMMA CreateRootKeeps ==
    ASSUME FilesInv, NEW h \in Helpers, CreateRoot(h)
    PROVE FilesInv'
  <1> USE FilesAssumption DEF CreateRoot, Goto, Finish, Path, At, disk, own
  <1>1. Typed /\ HelperInv(h) BY DEF FilesInv
  <1>2. Typed' BY <1>1 DEF Typed
  <1>3. Frame(h)
    BY <1>1
    DEF Frame, Typed, Apart, HomeFree, OthersMarked, KindsKept, Used, KindOf,
        Inodes, LocksKept, TrashKept, Binned
  <1>4. HelperInv(h)'
    BY <1>1
    DEF Typed, HelperInv, ExistingData, OpOfStep, OwnSource, Saving, StillCurrent,
        Current, RootKept, Described, Restorable, Binned, StillThere, Intact,
        Restoring, Used, KindOf
  <1> QED BY <1>2, <1>3, <1>4, QuietKeeps

(* The marker of a new trash keeps the invariant.                           *)
LEMMA MarkRootKeeps ==
    ASSUME FilesInv, NEW h \in Helpers, MarkRoot(h)
    PROVE FilesInv'
  <1> USE FilesAssumption DEF MarkRoot, Goto, Finish, Path, At, disk, own
  <1>1. Typed /\ HelperInv(h) BY DEF FilesInv
  <1>2. Typed' BY <1>1 DEF Typed
  <1>3. Frame(h)
    BY <1>1
    DEF Frame, Typed, Apart, HelperInv, RootKept, OthersMarked, KindsKept, Used,
        KindOf, Inodes, LocksKept, TrashKept, Binned
  <1>4. HelperInv(h)'
    BY <1>1
    DEF Typed, HelperInv, ExistingData, OpOfStep, OwnSource, Saving, StillCurrent,
        Current, RootKept, Described, Restorable, Binned, StillThere, Intact,
        Restoring, Used, KindOf
  <1> QED BY <1>2, <1>3, <1>4, QuietKeeps

(* The look of trash at its entry keeps the invariant.                      *)
LEMMA StatKeeps == ASSUME FilesInv, NEW h \in Helpers, Stat(h) PROVE FilesInv'
  <1> USE FilesAssumption DEF Stat, Goto, Finish, Path, At, disk, own
  <1>1. Typed /\ HelperInv(h) BY DEF FilesInv
  <1>2. Typed' BY <1>1 DEF Typed
  <1>3. Frame(h)
    BY <1>1
    DEF Frame, Typed, Apart, OthersMarked, KindsKept, Used, KindOf, Inodes,
        LocksKept, TrashKept, Binned
  <1>4. HelperInv(h)'
    BY <1>1
    DEF Typed, HelperInv, ExistingData, OpOfStep, OwnSource, Saving, StillCurrent,
        Current, RootKept, Described, Restorable, Binned, StillThere, Intact,
        Restoring, Used, KindOf
  <1> QED BY <1>2, <1>3, <1>4, QuietKeeps

(* The wrapper keeps the invariant.                                         *)
LEMMA MakeWrapperKeeps ==
    ASSUME FilesInv, NEW h \in Helpers, MakeWrapper(h)
    PROVE FilesInv'
  <1> USE FilesAssumption DEF MakeWrapper, Goto, Finish, Path, At, disk, own
  <1>1. Typed /\ HelperInv(h) BY DEF FilesInv
  <1>2. Typed' BY <1>1 DEF Typed
  <1>3. Frame(h)
    BY <1>1
    DEF Frame, Typed, Apart, OthersMarked, KindsKept, Used, KindOf, Inodes,
        LocksKept, TrashKept, Binned
  <1>4. HelperInv(h)'
    BY <1>1
    DEF Typed, HelperInv, ExistingData, OpOfStep, OwnSource, Saving, StillCurrent,
        Current, RootKept, Described, Restorable, Binned, StillThere, Intact,
        Restoring, Used, KindOf
  <1> QED BY <1>2, <1>3, <1>4, QuietKeeps

(* metadata.json keeps the invariant.                                       *)
LEMMA DescribeKeeps ==
    ASSUME FilesInv, NEW h \in Helpers, Describe(h)
    PROVE FilesInv'
  <1> USE FilesAssumption DEF Describe, Goto, Finish, Path, At, disk, own
  <1>1. Typed /\ HelperInv(h) BY DEF FilesInv
  <1>2. Typed' BY <1>1 DEF Typed
  <1>3. Frame(h)
    BY <1>1
    DEF Frame, Typed, Apart, OthersMarked, KindsKept, Used, KindOf, Inodes,
        LocksKept, TrashKept, Binned
  <1>4. HelperInv(h)'
    BY <1>1
    DEF Typed, HelperInv, ExistingData, OpOfStep, OwnSource, Saving, StillCurrent,
        Current, RootKept, Described, Restorable, Binned, StillThere, Intact,
        Restoring, Used, KindOf
  <1> QED BY <1>2, <1>3, <1>4, QuietKeeps

(* The fsync after the move keeps the invariant.                            *)
LEMMA SyncKeeps == ASSUME FilesInv, NEW h \in Helpers, Sync(h) PROVE FilesInv'
  <1> USE FilesAssumption DEF Sync, Goto, Finish, Path, At, disk, own
  <1>1. Typed /\ HelperInv(h) BY DEF FilesInv
  <1>2. Typed' BY <1>1 DEF Typed
  <1>3. Frame(h)
    BY <1>1
    DEF Frame, Typed, Apart, OthersMarked, KindsKept, Used, KindOf, Inodes,
        LocksKept, TrashKept, Binned
  <1>4. HelperInv(h)'
    BY <1>1, <1>3
    DEF Typed, HelperInv, ExistingData, Frame, KindsKept, OpOfStep, OwnSource,
        Saving, StillCurrent, Current, RootKept, Described, Restorable, Binned,
        KindOf, StillThere, Intact, Restoring
  <1> QED BY <1>2, <1>3, <1>4, QuietKeeps

(* The error path of trash keeps the invariant.                             *)
LEMMA UndoKeeps == ASSUME FilesInv, NEW h \in Helpers, Undo(h) PROVE FilesInv'
  <1> USE FilesAssumption DEF Undo, Goto, Finish, Path, At, disk, own
  <1>1. Typed /\ HelperInv(h) BY DEF FilesInv
  <1>2. Typed' BY <1>1 DEF Typed
  <1>3. Frame(h)
    BY <1>1
    DEF Frame, Typed, Apart, OthersMarked, KindsKept, Used, KindOf, Inodes,
        LocksKept, TrashKept, Binned
  <1>4. HelperInv(h)'
    BY <1>1
    DEF Typed, HelperInv, ExistingData, OpOfStep, OwnSource, Saving, StillCurrent,
        Current, RootKept, Described, Restorable, Binned, StillThere, Intact,
        Restoring, Used, KindOf, Unused
  <1> QED BY <1>2, <1>3, <1>4, QuietKeeps

(* The checks of restore keeps the invariant.                               *)
LEMMA OpenWrapperKeeps ==
    ASSUME FilesInv, NEW h \in Helpers, OpenWrapper(h)
    PROVE FilesInv'
  <1> USE FilesAssumption DEF OpenWrapper, Goto, Finish, Path, At, disk, own
  <1>1. Typed /\ HelperInv(h) BY DEF FilesInv
  <1>2. \A w \in Helpers : Listed(w) => Binned(w) /\ w \in Inodes
    BY DEF FilesInv, HelperInv, Restorable, Listed, Inodes
  <1>3. \/ pc' = [pc EXCEPT ![h] = "done"] /\ source' = source
        \/ \E w \in Helpers : /\ Listed(w) /\ source' = [source EXCEPT ![h] = w]
                              /\ pc' = [pc EXCEPT ![h] = "restore"]
    OBVIOUS
  <1>4. /\ DOMAIN pc' = Helpers
        /\ source' \in [Helpers -> Inodes \cup {None}]
        /\ \/ pc'[h] = "done"
           \/ pc'[h] = "restore" /\ source'[h] \in Helpers /\ Binned(source[h])'
    <2>1. CASE pc' = [pc EXCEPT ![h] = "done"] /\ source' = source
      BY <1>1, <2>1 DEF Typed
    <2>2. ASSUME NEW w \in Helpers, Listed(w), source' = [source EXCEPT ![h] = w],
                 pc' = [pc EXCEPT ![h] = "restore"]
          PROVE  /\ DOMAIN pc' = Helpers
                 /\ source' \in [Helpers -> Inodes \cup {None}]
                 /\ pc'[h] = "restore" /\ source'[h] = w /\ Binned(w)'
      BY <1>1, <1>2, <2>2 DEF Typed, Binned
    <2> QED BY <1>3, <2>1, <2>2 DEF Binned
  <1>5. Typed' BY <1>1, <1>4 DEF Typed
  <1>6. Frame(h)
    BY <1>1
    DEF Frame, Typed, Apart, OthersMarked, KindsKept, Used, KindOf, Inodes,
        LocksKept, TrashKept, Binned
  <1>7. HelperInv(h)'
    BY <1>1, <1>4, <1>6
    DEF Typed, HelperInv, ExistingData, Frame, KindsKept, OpOfStep, OwnSource,
        Saving, StillCurrent, Current, RootKept, Described, Restorable, Binned,
        KindOf, StillThere, Intact, Restoring
  <1> QED BY <1>5, <1>6, <1>7, QuietKeeps

(* The removal of an emptied wrapper keeps the invariant.                   *)
LEMMA StripKeeps == ASSUME FilesInv, NEW h \in Helpers, Strip(h) PROVE FilesInv'
  <1> USE FilesAssumption DEF Strip, Goto, Finish, Path, At, disk, own
  <1>1. Typed /\ HelperInv(h) BY DEF FilesInv
  <1>2. Typed' BY <1>1 DEF Typed
  <1>3. Frame(h)
    BY <1>1
    DEF Frame, Typed, Apart, OthersMarked, KindsKept, Used, KindOf, Inodes,
        LocksKept, TrashKept, Binned
  <1>4. HelperInv(h)'
    BY <1>1
    DEF Typed, HelperInv, ExistingData, OpOfStep, OwnSource, Saving, StillCurrent,
        Current, RootKept, Described, Restorable, Binned, StillThere, Intact,
        Restoring, Used, KindOf
  <1> QED BY <1>2, <1>3, <1>4, QuietKeeps

(* h changes no entry and no content, or notes which.                       *)
Noting(h) ==
    \/ UNCHANGED <<files, content, meddled>>
    \/ \E names, inodes :
          /\ Meddle(h, names, inodes)
          /\ \A n \in Names \ names : files'[n] = files[n]
          /\ \A i \in Inodes \ inodes : content'[i] = content[i]

(* No mark is taken away.                                                   *)
Marked(h) ==
    DOMAIN meddled' = Helpers /\ OthersMarked(h) /\ (meddled[h] => meddled'[h])

(* A noting step takes no mark away, and keeps the grounds of others.       *)
LEMMA NotingMarks ==
    ASSUME FilesInv, NEW h \in Helpers, Noting(h), DOMAIN content' = Inodes
    PROVE  /\ Marked(h)
           /\ Frame(h) => \A k \in Helpers \ {h} : Grounds(k)'
  <1>1. Typed BY DEF FilesInv
  <1>2. CASE UNCHANGED <<files, content, meddled>>
    BY <1>1, <1>2, Undisturbed DEF Marked, OthersMarked, Typed
  <1>3. ASSUME NEW names, NEW inodes,
               Meddle(h, names, inodes),
               \A n \in Names \ names : files'[n] = files[n],
               \A i \in Inodes \ inodes : content'[i] = content[i]
        PROVE  /\ Marked(h)
               /\ Frame(h) => \A k \in Helpers \ {h} : Grounds(k)'
    BY <1>1, <1>3, MeddleNotes, Noted DEF Marked, OthersMarked
  <1> QED BY <1>2, <1>3 DEF Noting

(* Every entry of the home and of the trash is an inode in use, and every   *)
(* path is a name.                                                          *)
LEMMA Occupied ==
    ASSUME FilesInv
    PROVE  /\ \A n \in Names : files[n] # None => files[n] \in Inodes /\ Used(files[n])
           /\ \A w \in Helpers : data[w] # None => data[w] \in Inodes /\ Used(data[w])
           /\ \A k \in Helpers : Path(k) \in Names /\ req[k].to \in Names /\ k \in Inodes
  BY FilesAssumption
  DEF FilesInv, Typed, ExistingFile, HelperInv, ExistingData, Path, Inodes

(* After the step every name is vacant, or has the inode of h or one that   *)
(* was in use before.                                                       *)
Filled(h) ==
    /\ pc'[h] # "idle"
    /\ \A n \in Names : files'[n] \in {None, h}
                        \/ (files'[n] \in Inodes /\ Used(files'[n]))

(* The invariant after a step that changes entries.                         *)
LEMMA FilledKeeps ==
    ASSUME FilesInv, NEW h \in Helpers, Typed', Frame(h), HelperInv(h)', Filled(h),
           \A k \in Helpers \ {h} : Grounds(k)'
    PROVE  FilesInv'
  <1>1. Used(h)' BY DEF Filled, Used
  <1>2. \A i \in Inodes : Used(i) => Used(i)' BY DEF Frame, KindsKept
  <1>3. \A n \in Names : ExistingFile(n)' BY <1>1, <1>2 DEF ExistingFile, Filled
  <1> QED BY <1>3, StepKeeps

(* The same for one that notes them: every mutation but the rename of a     *)
(* save does.                                                               *)
LEMMA LoudKeeps ==
    ASSUME FilesInv, NEW h \in Helpers, Typed', Noting(h), Frame(h), HelperInv(h)', Filled(h)
    PROVE  FilesInv'
  <1>1. DOMAIN content' = Inodes BY DEF Typed
  <1>2. \A k \in Helpers \ {h} : Grounds(k)' BY <1>1, NotingMarks
  <1> QED BY <1>2, FilledKeeps

(* A new request keeps the invariant.                                       *)
LEMMA StartKeeps == ASSUME FilesInv, NEW h \in Helpers, Start(h) PROVE FilesInv'
  <1> USE FilesAssumption DEF Start, Goto, Finish, Path, At, disk, own
  <1>1. Typed /\ HelperInv(h) BY DEF FilesInv
  <1>2. Typed' BY <1>1 DEF Typed
  <1>3. Frame(h)
    BY <1>1
    DEF Frame, Typed, Apart, OthersMarked, KindsKept, Used, KindOf, Inodes,
        LocksKept, TrashKept, Binned
  <1>4. HelperInv(h)'
    BY <1>1, <1>3
    DEF Typed, HelperInv, ExistingData, Frame, KindsKept, FirstStep, OpOfStep,
        OwnSource, Saving, StillCurrent, Current, RootKept, Described, Restorable,
        Binned, KindOf, StillThere, Intact, Restoring
  <1> QED BY <1>2, <1>3, <1>4, QuietKeeps

(* A change of one entry keeps the type of the name space.                  *)
LEMMA NamesTyped ==
    ASSUME Typed, NEW n \in Names, NEW i \in Inodes \cup {None},
           files' = files \/ files' = [files EXCEPT ![n] = i]
    PROVE  files' \in [Names -> Inodes \cup {None}]
  BY DEF Typed

(* mkdir keeps the invariant.                                               *)
LEMMA MkdirKeeps == ASSUME FilesInv, NEW h \in Helpers, Mkdir(h) PROVE FilesInv'
  <1>1. Typed /\ HelperInv(h) BY DEF FilesInv
  <1>2. /\ \A n \in Names : files[n] # None => files[n] \in Inodes /\ Used(files[n])
        /\ \A w \in Helpers : data[w] # None => data[w] \in Inodes /\ Used(data[w])
    BY Occupied
  <1>3. Path(h) \in Names /\ req[h].to \in Names /\ h \in Inodes
    BY Occupied
  <1>4. files' = files \/ files' = [files EXCEPT ![Path(h)] = h]
    BY DEF Mkdir
  <1>5. files' \in [Names -> Inodes \cup {None}]
    BY <1>1, <1>4, <1>3 DEF Typed
  <1> USE FilesAssumption DEF Mkdir, Goto, Finish, Path, At, disk, own
  <1>6. Noting(h)
    <2>1. \/ UNCHANGED <<files, content, meddled>>
          \/ /\ Meddle(h, {Path(h)}, {})
             /\ \A n \in Names \ {Path(h)} : files'[n] = files[n]
             /\ \A i \in Inodes \ {} : content'[i] = content[i]
      BY <1>1 DEF Typed
    <2> QED BY <2>1 DEF Noting
  <1>7. DOMAIN content' = Inodes BY <1>1 DEF Typed
  <1>8. Marked(h) BY <1>6, <1>7, NotingMarks
  <1>9. data' \in [Helpers -> Inodes \cup {None}] /\ DOMAIN pc' = Helpers
    BY <1>1, <1>2 DEF Typed
  <1>10. Typed' BY <1>1, <1>8, <1>9, <1>5 DEF Typed, Marked
  <1>11. Frame(h)
    BY <1>1, <1>8
    DEF Frame, Typed, Apart, Marked, KindsKept, Used, KindOf, Inodes, LocksKept,
        TrashKept, Binned
  <1>12. HelperInv(h)'
    BY <1>1, <1>8, <1>11
    DEF Typed, HelperInv, ExistingData, Frame, KindsKept, OpOfStep, OwnSource,
        Saving, StillCurrent, Current, RootKept, Described, Restorable, Binned,
        KindOf, StillThere, Intact, Restoring
  <1>13. Filled(h)
    <2>1. pc'[h] # "idle" BY <1>1 DEF Typed
    <2>2. ASSUME NEW n \in Names
          PROVE  \/ files'[n] \in {None, h}
                 \/ files'[n] \in Inodes /\ Used(files'[n])
      BY <1>1, <1>2, <1>3, <1>4, ZenonT(30) DEF Typed
    <2> QED BY <2>1, <2>2 DEF Filled
  <1> QED BY <1>10, <1>6, <1>11, <1>12, <1>13, LoudKeeps

(* move keeps the invariant.                                                *)
LEMMA MoveKeeps == ASSUME FilesInv, NEW h \in Helpers, Move(h) PROVE FilesInv'
  <1>1. Typed /\ HelperInv(h) BY DEF FilesInv
  <1>2. /\ \A n \in Names : files[n] # None => files[n] \in Inodes /\ Used(files[n])
        /\ \A w \in Helpers : data[w] # None => data[w] \in Inodes /\ Used(data[w])
    BY Occupied
  <1>3. Path(h) \in Names /\ req[h].to \in Names /\ h \in Inodes
    BY Occupied
  <1> USE FilesAssumption DEF Move, Goto, Finish, Path, At, disk, own
  <1>4. /\ pc'[h] = "done"
        /\ \A n \in Names : files'[n] = None \/ \E m \in Names : files'[n] = files[m]
    <2>1. pc'[h] = "done" BY <1>1 DEF Typed
    <2>2. CASE files' = files BY <2>1, <2>2
    <2>3. CASE files' = [files EXCEPT ![req[h].to] = At(h), ![Path(h)] = None]
      BY <1>1, <1>3, <2>1, <2>3 DEF Typed
    <2> QED BY <2>2, <2>3
  <1>5. Noting(h)
    <2>1. \/ UNCHANGED <<files, content, meddled>>
          \/ /\ Meddle(h, {Path(h), req[h].to}, {})
             /\ \A n \in Names \ {Path(h), req[h].to} : files'[n] = files[n]
             /\ \A i \in Inodes \ {} : content'[i] = content[i]
      BY <1>1 DEF Typed
    <2> QED BY <2>1 DEF Noting
  <1>6. DOMAIN content' = Inodes BY <1>1 DEF Typed
  <1>7. Marked(h) BY <1>5, <1>6, NotingMarks
  <1>8. files' \in [Names -> Inodes \cup {None}]
    BY <1>1, <1>2, <1>3, ZenonT(30) DEF Typed
  <1>9. data' \in [Helpers -> Inodes \cup {None}] /\ DOMAIN pc' = Helpers
    BY <1>1, <1>2 DEF Typed
  <1>10. Typed' BY <1>1, <1>7, <1>9, <1>8 DEF Typed, Marked
  <1>11. Frame(h)
    BY <1>1, <1>7
    DEF Frame, Typed, Apart, Marked, KindsKept, Used, KindOf, Inodes, LocksKept,
        TrashKept, Binned
  <1>12. HelperInv(h)'
    BY <1>1, <1>7, <1>4, <1>11
    DEF Typed, HelperInv, ExistingData, Frame, KindsKept, OpOfStep, OwnSource,
        Saving, StillCurrent, Current, RootKept, Described, Restorable, Binned,
        KindOf, StillThere, Intact, Restoring
  <1>13. Filled(h)
    <2>1. pc'[h] # "idle" BY <1>1 DEF Typed
    <2>2. ASSUME NEW n \in Names
          PROVE  \/ files'[n] \in {None, h}
                 \/ files'[n] \in Inodes /\ Used(files'[n])
      BY <1>1, <1>2, <1>3, <1>4 DEF Typed
    <2> QED BY <2>1, <2>2 DEF Filled
  <1> QED BY <1>10, <1>5, <1>11, <1>12, <1>13, LoudKeeps

(* The rename of an upload that replaces keeps the invariant.               *)
LEMMA PlaceReplacingKeeps ==
    ASSUME FilesInv, NEW h \in Helpers, PlaceReplacing(h)
    PROVE FilesInv'
  <1>1. Typed /\ HelperInv(h) BY DEF FilesInv
  <1>2. /\ \A n \in Names : files[n] # None => files[n] \in Inodes /\ Used(files[n])
        /\ \A w \in Helpers : data[w] # None => data[w] \in Inodes /\ Used(data[w])
    BY Occupied
  <1>3. Path(h) \in Names /\ req[h].to \in Names /\ h \in Inodes
    BY Occupied
  <1>4. files' = files \/ files' = [files EXCEPT ![Path(h)] = h]
    BY DEF PlaceReplacing
  <1>5. files' \in [Names -> Inodes \cup {None}]
    BY <1>1, <1>4, <1>3 DEF Typed
  <1> USE FilesAssumption DEF PlaceReplacing, Goto, Finish, Path, At, disk, own
  <1>6. Noting(h)
    <2>1. \/ UNCHANGED <<files, content, meddled>>
          \/ /\ Meddle(h, {Path(h)}, {})
             /\ \A n \in Names \ {Path(h)} : files'[n] = files[n]
             /\ \A i \in Inodes \ {} : content'[i] = content[i]
      BY <1>1 DEF Typed
    <2> QED BY <2>1 DEF Noting
  <1>7. DOMAIN content' = Inodes BY <1>1 DEF Typed
  <1>8. Marked(h) BY <1>6, <1>7, NotingMarks
  <1>9. data' \in [Helpers -> Inodes \cup {None}] /\ DOMAIN pc' = Helpers
    BY <1>1, <1>2 DEF Typed
  <1>10. Typed' BY <1>1, <1>8, <1>9, <1>5 DEF Typed, Marked
  <1>11. Frame(h)
    BY <1>1, <1>8
    DEF Frame, Typed, Apart, Marked, KindsKept, Used, KindOf, Inodes, LocksKept,
        TrashKept, Binned
  <1>12. HelperInv(h)'
    BY <1>1, <1>8, <1>11
    DEF Typed, HelperInv, ExistingData, Frame, KindsKept, OpOfStep, OwnSource,
        Saving, StillCurrent, Current, RootKept, Described, Restorable, Binned,
        KindOf, StillThere, Intact, Restoring
  <1>13. Filled(h)
    <2>1. pc'[h] # "idle" BY <1>1 DEF Typed
    <2>2. ASSUME NEW n \in Names
          PROVE  \/ files'[n] \in {None, h}
                 \/ files'[n] \in Inodes /\ Used(files'[n])
      BY <1>1, <1>2, <1>3, <1>4, ZenonT(30) DEF Typed
    <2> QED BY <2>1, <2>2 DEF Filled
  <1> QED BY <1>10, <1>6, <1>11, <1>12, <1>13, LoudKeeps

(* The move back of restore keeps the invariant.                            *)
LEMMA RestoreKeeps == ASSUME FilesInv, NEW h \in Helpers, Restore(h) PROVE FilesInv'
  <1>1. Typed /\ HelperInv(h) BY DEF FilesInv
  <1>2. /\ \A n \in Names : files[n] # None => files[n] \in Inodes /\ Used(files[n])
        /\ \A w \in Helpers : data[w] # None => data[w] \in Inodes /\ Used(data[w])
    BY Occupied
  <1>3. Path(h) \in Names /\ req[h].to \in Names /\ h \in Inodes
    BY Occupied
  <1> USE FilesAssumption DEF Restore, Goto, Finish, Path, At, disk, own
  <1>4. source[h] \in Helpers /\ Path(source[h]) \in Names
    BY <1>1 DEF HelperInv, Restoring, Typed
  <1>5. files' = files \/ files' = [files EXCEPT ![Path(source[h])] = data[source[h]]]
    OBVIOUS
  <1>6. Noting(h)
    <2>1. \/ UNCHANGED <<files, content, meddled>>
          \/ /\ Meddle(h, {Path(source[h])}, {})
             /\ \A n \in Names \ {Path(source[h])} : files'[n] = files[n]
             /\ \A i \in Inodes \ {} : content'[i] = content[i]
      BY <1>1 DEF Typed
    <2> QED BY <2>1 DEF Noting
  <1>7. DOMAIN content' = Inodes BY <1>1 DEF Typed
  <1>8. Marked(h) BY <1>6, <1>7, NotingMarks
  <1>9. files' \in [Names -> Inodes \cup {None}]
    BY <1>1, <1>2, <1>3, <1>5, <1>4, NamesTyped DEF Typed
  <1>10. data' \in [Helpers -> Inodes \cup {None}] /\ DOMAIN pc' = Helpers
    BY <1>1, <1>2 DEF Typed
  <1>11. Typed' BY <1>1, <1>8, <1>10, <1>9 DEF Typed, Marked
  <1>12. Frame(h)
    BY <1>1, <1>8
    DEF Frame, Typed, Apart, Marked, KindsKept, Used, KindOf, Inodes, LocksKept,
        TrashKept, Binned
  <1>13. HelperInv(h)'
    BY <1>1, <1>8, <1>12
    DEF Typed, HelperInv, ExistingData, Frame, KindsKept, OpOfStep, OwnSource,
        Saving, StillCurrent, Current, RootKept, Described, Restorable, Binned,
        KindOf, StillThere, Intact, Restoring
  <1>14. Filled(h)
    <2>1. pc'[h] # "idle" BY <1>1 DEF Typed
    <2>2. ASSUME NEW n \in Names
          PROVE  \/ files'[n] \in {None, h}
                 \/ files'[n] \in Inodes /\ Used(files'[n])
      BY <1>1, <1>2, <1>3, <1>5, <1>4 DEF HelperInv, Restoring, Typed
    <2> QED BY <2>1, <2>2 DEF Filled
  <1> QED BY <1>11, <1>6, <1>12, <1>13, <1>14, LoudKeeps

(* The move into the wrapper keeps the invariant.                           *)
LEMMA BinKeeps == ASSUME FilesInv, NEW h \in Helpers, Bin(h) PROVE FilesInv'
  <1>1. Typed /\ HelperInv(h) BY DEF FilesInv
  <1>2. /\ \A n \in Names : files[n] # None => files[n] \in Inodes /\ Used(files[n])
        /\ \A w \in Helpers : data[w] # None => data[w] \in Inodes /\ Used(data[w])
    BY Occupied
  <1>3. Path(h) \in Names /\ req[h].to \in Names /\ h \in Inodes
    BY Occupied
  <1> USE FilesAssumption DEF Bin, Goto, Finish, Path, At, disk, own
  <1>4. Noting(h)
    <2>1. \/ UNCHANGED <<files, content, meddled>>
          \/ /\ Meddle(h, {Path(h)}, {})
             /\ \A n \in Names \ {Path(h)} : files'[n] = files[n]
             /\ \A i \in Inodes \ {} : content'[i] = content[i]
      BY <1>1 DEF Typed
    <2> QED BY <2>1 DEF Noting
  <1>5. DOMAIN content' = Inodes BY <1>1 DEF Typed
  <1>6. Marked(h) BY <1>4, <1>5, NotingMarks
  <1>7. files' \in [Names -> Inodes \cup {None}]
    BY <1>1, <1>2, <1>3, ZenonT(30) DEF Typed
  <1>8. data' \in [Helpers -> Inodes \cup {None}] /\ DOMAIN pc' = Helpers
    <2>1. files[Path(h)] \in Inodes \cup {None} BY <1>1, <1>3 DEF Typed
    <2>2. data' = data \/ data' = [data EXCEPT ![h] = files[Path(h)]] OBVIOUS
    <2>3. data' \in [Helpers -> Inodes \cup {None}]
      BY <1>1, <2>1, <2>2, Zenon DEF Typed
    <2> QED BY <1>1, <2>3 DEF Typed
  <1>9. Typed' BY <1>1, <1>6, <1>8, <1>7 DEF Typed, Marked
  <1>10. Frame(h)
    BY <1>1, <1>6
    DEF Frame, Typed, Apart, Marked, KindsKept, Used, KindOf, Inodes, LocksKept,
        TrashKept, Binned
  <1>11. HelperInv(h)'
    <2>1. ExistingData(h)'
      BY <1>1, <1>6, <1>10, <1>2, <1>3
      DEF Typed, HelperInv, ExistingData, Frame, KindsKept, Marked
    <2>2. OpOfStep(h)'
      BY <1>1, <1>6 DEF Typed, HelperInv, OpOfStep
    <2>3. OwnSource(h)'
      BY <1>1, <1>6, <1>10
      DEF Typed, HelperInv, OwnSource, OpOfStep, Saving, Frame, KindsKept, Marked
    <2>4. StillCurrent(h)'
      BY <1>1, <1>6
      DEF Typed, HelperInv, StillCurrent, Current, OwnSource, Saving, OpOfStep
    <2>5. RootKept(h)'
      BY <1>1, <1>6 DEF Typed, HelperInv, RootKept, OpOfStep
    <2>6. Described(h)'
      BY <1>1, <1>6 DEF Typed, HelperInv, Described, OpOfStep
    <2>7. Restorable(h)'
      BY <1>1, <1>6
      DEF Typed, HelperInv, Restorable, Binned, KindOf, StillThere, Intact,
          RootKept, Described, OpOfStep, Marked
    <2>8. StillThere(h)'
      BY <1>1, <1>6 DEF Typed, HelperInv, StillThere, Intact, KindOf, OpOfStep
    <2>9. Restoring(h)'
      BY <1>1, <1>6 DEF Typed, HelperInv, Restoring, Binned, OpOfStep, Restorable
    <2> QED BY <2>1, <2>2, <2>3, <2>4, <2>5, <2>6, <2>7, <2>8, <2>9 DEF HelperInv
  <1>12. Filled(h)
    <2>1. pc'[h] # "idle" BY <1>1 DEF Typed
    <2>2. ASSUME NEW n \in Names
          PROVE  \/ files'[n] \in {None, h}
                 \/ files'[n] \in Inodes /\ Used(files'[n])
      BY <1>1, <1>2, <1>3 DEF Typed
    <2> QED BY <2>1, <2>2 DEF Filled
  <1> QED BY <1>9, <1>4, <1>10, <1>11, <1>12, LoudKeeps

(* The rename of an upload that must not replace keeps the invariant.       *)
LEMMA PlaceKeeps == ASSUME FilesInv, NEW h \in Helpers, Place(h) PROVE FilesInv'
  <1>1. Typed /\ HelperInv(h) BY DEF FilesInv
  <1>2. /\ \A n \in Names : files[n] # None => files[n] \in Inodes /\ Used(files[n])
        /\ \A w \in Helpers : data[w] # None => data[w] \in Inodes /\ Used(data[w])
    BY Occupied
  <1>3. Path(h) \in Names /\ req[h].to \in Names /\ h \in Inodes
    BY Occupied
  <1>4. files' = files \/ files' = [files EXCEPT ![UploadName[Path(h)][tries[h]]] = h]
    BY DEF Place
  <1>5. files' \in [Names -> Inodes \cup {None}]
    BY <1>1, <1>4, <1>3 DEF Typed
  <1> USE FilesAssumption DEF Place, Goto, Finish, Path, At, disk, own
  <1>6. pc'[h] \in {"done", "place"} BY <1>1 DEF Typed
  <1>7. Noting(h)
    <2>1. \/ UNCHANGED <<files, content, meddled>>
          \/ /\ Meddle(h, {UploadName[Path(h)][tries[h]]}, {})
             /\ \A n \in Names \ {UploadName[Path(h)][tries[h]]} : files'[n] = files[n]
             /\ \A i \in Inodes \ {} : content'[i] = content[i]
      BY <1>1 DEF Typed
    <2> QED BY <2>1 DEF Noting
  <1>8. DOMAIN content' = Inodes BY <1>1 DEF Typed
  <1>9. Marked(h) BY <1>7, <1>8, NotingMarks
  <1>10. data' \in [Helpers -> Inodes \cup {None}] /\ DOMAIN pc' = Helpers
    BY <1>1, <1>2 DEF Typed
  <1>11. Typed' BY <1>1, <1>9, <1>10, <1>5 DEF Typed, Marked
  <1>12. Frame(h)
    BY <1>1, <1>9
    DEF Frame, Typed, Apart, Marked, KindsKept, Used, KindOf, Inodes, LocksKept,
        TrashKept, Binned
  <1>13. HelperInv(h)'
    BY <1>1, <1>6, <1>12
    DEF Typed, HelperInv, ExistingData, Frame, KindsKept, OpOfStep, OwnSource,
        Saving, StillCurrent, Current, RootKept, Described, Restorable, Binned,
        KindOf, StillThere, Intact, Restoring
  <1>14. Filled(h)
    <2>1. pc'[h] # "idle" BY <1>1 DEF Typed
    <2>2. ASSUME NEW n \in Names
          PROVE  \/ files'[n] \in {None, h}
                 \/ files'[n] \in Inodes /\ Used(files'[n])
      BY <1>1, <1>2, <1>3, <1>4, ZenonT(30) DEF Typed
    <2> QED BY <2>1, <2>2 DEF Filled
  <1> QED BY <1>11, <1>7, <1>12, <1>13, <1>14, LoudKeeps

(* The truncating open of UserFS.write keeps the invariant.                 *)
LEMMA TruncateKeeps ==
    ASSUME FilesInv, NEW h \in Helpers, Truncate(h)
    PROVE FilesInv'
  <1>1. Typed /\ HelperInv(h) BY DEF FilesInv
  <1>2. /\ \A n \in Names : files[n] # None => files[n] \in Inodes /\ Used(files[n])
        /\ \A w \in Helpers : data[w] # None => data[w] \in Inodes /\ Used(data[w])
    BY Occupied
  <1>3. Path(h) \in Names /\ req[h].to \in Names /\ h \in Inodes
    BY Occupied
  <1> USE FilesAssumption DEF Truncate, Goto, Finish, Path, At, disk, own
  <1>4. /\ At(h) # None => At(h) \in Inodes /\ Used(At(h))
        /\ KindOf(At(h)) # "directory" \/ KindOf(At(h)) = "directory"
    BY <1>2, <1>3
  <1>5. \/ UNCHANGED <<files, content, meddled, source>> /\ pc' = [pc EXCEPT ![h] = "done"]
        \/ \E i \in Inodes :
              /\ i = h \/ Used(i)
              /\ files' = [files EXCEPT ![Path(h)] = i]
              /\ content' = [content EXCEPT ![i] = "empty"]
              /\ source' = [source EXCEPT ![h] = i]
              /\ Meddle(h, {Path(h)}, {i})
              /\ pc' = [pc EXCEPT ![h] = "fill"]
    BY <1>3, <1>4
  <1>6. /\ source' \in [Helpers -> Inodes \cup {None}]
        /\ \A n \in Names : files'[n] = files[n] \/ files'[n] = h
                            \/ (files'[n] \in Inodes /\ Used(files'[n]))
    <2>1. CASE UNCHANGED <<files, source>> BY <1>1, <2>1 DEF Typed
    <2>2. ASSUME NEW i \in Inodes, i = h \/ Used(i), source' = [source EXCEPT ![h] = i],
                 files' = [files EXCEPT ![Path(h)] = i]
          PROVE  /\ source' \in [Helpers -> Inodes \cup {None}]
                 /\ \A n \in Names : files'[n] = files[n] \/ files'[n] = h
                                     \/ (files'[n] \in Inodes /\ Used(files'[n]))
      BY <1>1, <2>2 DEF Typed
    <2> QED BY <1>5, <2>1, <2>2
  <1>7. Noting(h)
    <2>1. CASE UNCHANGED <<files, content, meddled>> BY <2>1 DEF Noting
    <2>2. ASSUME NEW i \in Inodes, content' = [content EXCEPT ![i] = "empty"],
                 files' = [files EXCEPT ![Path(h)] = i], Meddle(h, {Path(h)}, {i})
          PROVE  Noting(h)
      <3>1. \A n \in Names \ {Path(h)} : files'[n] = files[n]
        BY <1>1, <2>2 DEF Typed
      <3>2. \A j \in Inodes \ {i} : content'[j] = content[j] BY <1>1, <2>2 DEF Typed
      <3> QED BY <2>2, <3>1, <3>2 DEF Noting
    <2> QED BY <1>5, <2>1, <2>2
  <1>8. DOMAIN content' = Inodes BY <1>1 DEF Typed
  <1>9. Marked(h) BY <1>7, <1>8, NotingMarks
  <1>10. files' \in [Names -> Inodes \cup {None}]
    BY <1>1, <1>2, <1>3, <1>5, NamesTyped DEF Typed
  <1>11. data' \in [Helpers -> Inodes \cup {None}] /\ DOMAIN pc' = Helpers
    BY <1>1, <1>2 DEF Typed
  <1>12. Typed' BY <1>1, <1>9, <1>11, <1>10, <1>6 DEF Typed, Marked
  <1>13. Frame(h)
    BY <1>1, <1>9
    DEF Frame, Typed, Apart, Marked, KindsKept, Used, KindOf, Inodes, LocksKept,
        TrashKept, Binned
  <1>14. HelperInv(h)'
    BY <1>1, <1>9, <1>13
    DEF Typed, HelperInv, ExistingData, Frame, KindsKept, OpOfStep, OwnSource,
        Saving, StillCurrent, Current, RootKept, Described, Restorable, Binned,
        KindOf, StillThere, Intact, Restoring
  <1>15. Filled(h)
    <2>1. pc'[h] # "idle" BY <1>1 DEF Typed
    <2>2. ASSUME NEW n \in Names
          PROVE  \/ files'[n] \in {None, h}
                 \/ files'[n] \in Inodes /\ Used(files'[n])
      BY <1>1, <1>2, <1>3, <1>6 DEF Typed
    <2> QED BY <2>1, <2>2 DEF Filled
  <1> QED BY <1>12, <1>7, <1>13, <1>14, <1>15, LoudKeeps

(* The write of UserFS.write keeps the invariant.                           *)
LEMMA FillKeeps == ASSUME FilesInv, NEW h \in Helpers, Fill(h) PROVE FilesInv'
  <1>1. Typed /\ HelperInv(h) BY DEF FilesInv
  <1>2. /\ \A n \in Names : files[n] # None => files[n] \in Inodes /\ Used(files[n])
        /\ \A w \in Helpers : data[w] # None => data[w] \in Inodes /\ Used(data[w])
    BY Occupied
  <1>3. Path(h) \in Names /\ req[h].to \in Names /\ h \in Inodes
    BY Occupied
  <1> USE FilesAssumption DEF Fill, Goto, Finish, Path, At, disk, own
  <1>4. Noting(h)
    <2>1. \A i \in Inodes \ {source[h]} : content'[i] = content[i] BY <1>1 DEF Typed
    <2> QED BY <2>1 DEF Noting
  <1>5. DOMAIN content' = Inodes BY <1>1 DEF Typed
  <1>6. Marked(h) BY <1>4, <1>5, NotingMarks
  <1>7. files' \in [Names -> Inodes \cup {None}]
    BY <1>1, <1>2, <1>3 DEF Typed
  <1>8. data' \in [Helpers -> Inodes \cup {None}] /\ DOMAIN pc' = Helpers
    BY <1>1, <1>2 DEF Typed
  <1>9. Typed' BY <1>1, <1>6, <1>8, <1>7 DEF Typed, Marked
  <1>10. Frame(h)
    BY <1>1, <1>6
    DEF Frame, Typed, Apart, Marked, KindsKept, Used, KindOf, Inodes, LocksKept,
        TrashKept, Binned
  <1>11. HelperInv(h)'
    BY <1>1, <1>6, <1>10
    DEF Typed, HelperInv, ExistingData, Frame, KindsKept, OpOfStep, OwnSource,
        Saving, StillCurrent, Current, RootKept, Described, Restorable, Binned,
        KindOf, StillThere, Intact, Restoring
  <1>12. Filled(h)
    <2>1. pc'[h] # "idle" BY <1>1 DEF Typed
    <2>2. ASSUME NEW n \in Names
          PROVE  \/ files'[n] \in {None, h}
                 \/ files'[n] \in Inodes /\ Used(files'[n])
      BY <1>1, <1>2, <1>3 DEF Typed
    <2> QED BY <2>1, <2>2 DEF Filled
  <1> QED BY <1>9, <1>4, <1>10, <1>11, <1>12, LoudKeeps

(* The rename of a save notes its name only when it was meddled with        *)
(* itself.  When it was not, its source still is at the name, so that       *)
(* another save between its check and its rename at this name would hold    *)
(* the same lock: there is none.  A trash that relies on the name sees a    *)
(* file take the place of a file.                                           *)
LEMMA ReplaceGrounds ==
    ASSUME FilesInv, NEW h \in Helpers, Replace(h), Frame(h), NEW k \in Helpers \ {h}
    PROVE  Grounds(k)'
  <1>1. Typed /\ HelperInv(h) /\ HelperInv(k) BY DEF FilesInv
  <1>2. Path(h) \in Names /\ Path(k) \in Names /\ Path(k)' = Path(k)
    BY <1>1, FilesAssumption DEF Typed, Path, Frame, Apart
  <1>3. content' = content /\ \A n \in Names \ {Path(h)} : files'[n] = files[n]
    BY <1>1 DEF Replace, disk, Typed
  <1>4. CASE meddled[h]
    <2>1. Meddle(h, {Path(h)}, {}) BY <1>4 DEF Replace
    <2> QED BY <1>3, <2>1, Noted
  <1>5. CASE ~meddled[h]
    <2>1. Current(h) /\ req[h].op = "save" /\ locks[source[h]] = h
          /\ source[h] \in Inodes /\ KindOf(source[h]) = "file"
      BY <1>1, <1>5
      DEF HelperInv, StillCurrent, OwnSource, Saving, OpOfStep, Replace
    <2>2. CASE Path(k) # Path(h)
      <3>1. At(k)' = At(k) BY <1>2, <1>3, <2>2 DEF At
      <3>2. At(k) # None => Used(At(k)) /\ At(k) \in Inodes BY <1>2, Occupied DEF At
      <3>3. StillCurrent(k)'
        BY <1>1, <1>3, <3>1
        DEF HelperInv, StillCurrent, Current, Frame, Apart, OthersMarked
      <3>4. StillThere(k)'
        BY <1>1, <3>1, <3>2
        DEF HelperInv, StillThere, Intact, Frame, Apart, OthersMarked, KindsKept
      <3> QED BY <3>3, <3>4 DEF Grounds
    <2>3. CASE Path(k) = Path(h)
      <3>1. pc[k] = "replace" => meddled[k]
        <4> SUFFICES ASSUME pc[k] = "replace", ~meddled[k] PROVE FALSE OBVIOUS
        <4>1. Current(k) /\ locks[source[k]] = k
          BY <1>1 DEF HelperInv, StillCurrent, OwnSource, Saving, OpOfStep
        <4> QED BY <2>1, <2>3, <4>1 DEF Current, At
      <3>2. StillCurrent(k)' BY <3>1 DEF StillCurrent, Frame, Apart, OthersMarked
      <3>3. At(k) = source[h] /\ KindOf(At(k)) = "file"
        BY <2>1, <2>3 DEF Current, At
      <3>4. At(k)' = At(k) \/ At(k)' = h BY <1>1, <1>2, <2>3 DEF Typed, At, Replace
      <3>5. req' = req BY DEF Replace, own
      <3>6. h # None /\ source[h] # None BY <2>1, FilesAssumption DEF Inodes
      <3>7. KindOf(At(k))' = "file" /\ At(k)' # None
        BY <2>1, <3>3, <3>4, <3>5, <3>6 DEF KindOf
      <3>8. StillThere(k)'
        BY <1>1, <3>3, <3>7
        DEF HelperInv, StillThere, Intact, Frame, Apart, OthersMarked
      <3> QED BY <3>2, <3>8 DEF Grounds
    <2> QED BY <2>2, <2>3
  <1> QED BY <1>4, <1>5

(* The rename of a save keeps the invariant.                                *)
LEMMA ReplaceKeeps == ASSUME FilesInv, NEW h \in Helpers, Replace(h) PROVE FilesInv'
  <1>1. Typed /\ HelperInv(h) BY DEF FilesInv
  <1>2. /\ \A n \in Names : files[n] # None => files[n] \in Inodes /\ Used(files[n])
        /\ \A w \in Helpers : data[w] # None => data[w] \in Inodes /\ Used(data[w])
    BY Occupied
  <1>3. Path(h) \in Names /\ req[h].to \in Names /\ h \in Inodes
    BY Occupied
  <1>4. files' = files \/ files' = [files EXCEPT ![Path(h)] = h]
    BY DEF Replace
  <1>5. files' \in [Names -> Inodes \cup {None}]
    BY <1>1, <1>4, <1>3 DEF Typed
  <1> USE FilesAssumption DEF Replace, Goto, Finish, Path, At, disk, own
  <1>6. Marked(h) BY <1>1, MeddleNotes DEF Marked, OthersMarked
  <1>7. data' \in [Helpers -> Inodes \cup {None}] /\ DOMAIN pc' = Helpers
    BY <1>1, <1>2 DEF Typed
  <1>8. Typed' BY <1>1, <1>6, <1>7, <1>5 DEF Typed, Marked, Unlocked
  <1>9. Frame(h)
    BY <1>1, <1>6
    DEF Frame, Typed, Apart, Marked, KindsKept, Used, KindOf, Inodes, LocksKept,
        Unlocked, TrashKept, Binned
  <1>10. HelperInv(h)'
    BY <1>1, <1>6, <1>9
    DEF Typed, HelperInv, ExistingData, Frame, KindsKept, Unlocked, OpOfStep,
        OwnSource, Saving, StillCurrent, Current, RootKept, Described, Restorable,
        Binned, KindOf, StillThere, Intact, Restoring
  <1>11. Filled(h)
    <2>1. pc'[h] # "idle" BY <1>1 DEF Typed
    <2>2. ASSUME NEW n \in Names
          PROVE  \/ files'[n] \in {None, h}
                 \/ files'[n] \in Inodes /\ Used(files'[n])
      BY <1>1, <1>2, <1>3 DEF Typed
    <2> QED BY <2>1, <2>2 DEF Filled
  <1>12. \A k \in Helpers \ {h} : Grounds(k)' BY <1>9, ReplaceGrounds
  <1> QED BY <1>8, <1>9, <1>10, <1>11, <1>12, FilledKeeps

(* The invariant holds in an empty trash, before any request.               *)
LEMMA InitFiles == Init => FilesInv
  <1> SUFFICES ASSUME Init PROVE FilesInv OBVIOUS
  <1> USE FilesAssumption
  <1>1. (CHOOSE r \in Requests : TRUE) \in Requests OBVIOUS
  <1>2. Typed BY <1>1 DEF Init, Typed, Inodes
  <1>3. ASSUME NEW n \in Names PROVE ExistingFile(n) BY DEF Init, ExistingFile, Used
  <1>4. ASSUME NEW h \in Helpers PROVE HelperInv(h)
    BY DEF Init, HelperInv, ExistingData, OpOfStep, OwnSource, Saving, StillCurrent,
           RootKept, Described, Restorable, StillThere, Restoring
  <1> QED BY <1>2, <1>3, <1>4 DEF FilesInv

(* Every action of every helper keeps the invariant.                        *)
LEMMA InvKept == FilesInv /\ [Next]_vars => FilesInv'
  <1> SUFFICES ASSUME FilesInv, [Next]_vars PROVE FilesInv' OBVIOUS
  <1>1. CASE UNCHANGED vars
    BY <1>1
    DEF vars, disk, own, FilesInv, Typed, ExistingFile, HelperInv, ExistingData,
       OpOfStep, OwnSource, Saving, StillCurrent, Current, RootKept, Described,
       Restorable, Binned, StillThere, Intact, Restoring, Used, KindOf, At, Path
  <1>2. ASSUME NEW h \in Helpers,
               \/ Start(h) \/ Kill(h) \/ Mkdir(h) \/ Move(h) \/ Truncate(h)
               \/ Fill(h) \/ Look(h) \/ WriteTemporary(h) \/ PlaceReplacing(h) \/ Place(h)
               \/ ReadText(h) \/ OpenSource(h) \/ LockSource(h) \/ WriteSaved(h) \/ Recheck(h)
               \/ Replace(h) \/ OpenRoot(h) \/ CreateRoot(h) \/ MarkRoot(h) \/ Stat(h)
               \/ MakeWrapper(h) \/ Describe(h) \/ Bin(h) \/ Sync(h) \/ Undo(h)
               \/ OpenWrapper(h) \/ Restore(h) \/ Strip(h)
        PROVE  FilesInv'
    BY <1>2, StartKeeps, KillKeeps, MkdirKeeps, MoveKeeps, TruncateKeeps,
       FillKeeps, LookKeeps, WriteTemporaryKeeps, PlaceReplacingKeeps, PlaceKeeps,
       ReadTextKeeps, OpenSourceKeeps, LockSourceKeeps, WriteSavedKeeps, RecheckKeeps,
       ReplaceKeeps, OpenRootKeeps, CreateRootKeeps, MarkRootKeeps, StatKeeps,
       MakeWrapperKeeps, DescribeKeeps, BinKeeps, SyncKeeps, UndoKeeps,
       OpenWrapperKeeps, RestoreKeeps, StripKeeps
  <1> QED BY <1>1, <1>2 DEF Next

(* What trash moved away can be listed and restored whatever helpers        *)
(* interleave and wherever they are killed: the marker is on the root and   *)
(* the metadata in the wrapper before the entry moves, and the error path   *)
(* keeps them while there is data.                                          *)
THEOREM TrashStaysRestorable == Spec => []TrashRestorable
  <1>1. FilesInv => TrashRestorable
    BY DEF FilesInv, HelperInv, Restorable, TrashRestorable
  <1> QED BY InitFiles, InvKept, <1>1, PTL DEF Spec

(* The two ways NothingLost lets an inode go.                               *)
Justified(i) ==
    \E h \in Helpers :
       /\ files'[Path(h)] = h /\ files[Path(h)] = i
       /\ \/ req[h].op = "replace"
          \/ /\ req[h].op = "save"
             /\ meddled[h] \/ (source[h] = i /\ content[i] = seen[h])

NoLoss == \A i \in Kept \ {None} : i \notin Kept' => Justified(i)

(* Nothing is lost when every name keeps its inode in the home or its       *)
(* trash and every wrapper its data.                                        *)
LEMMA StaysKept ==
    ASSUME \A n \in Names : files[n] # None => files[n] \in Kept' \/ Justified(files[n]),
           \A w \in Helpers : data[w] # None => data[w] \in Kept'
    PROVE  NoLoss
  BY DEF NoLoss, Kept

(* Nor when one entry of the home changes with that care.                   *)
LEMMA NamesKept ==
    ASSUME Typed, NEW n \in Names, NEW i, files' = [files EXCEPT ![n] = i], data' = data,
           files[n] # None => files[n] \in Kept' \/ Justified(files[n])
    PROVE  NoLoss
  <1>1. \A m \in Names \ {n} : files'[m] = files[m] BY DEF Typed
  <1>2. \A m \in Names : files[m] # None => files[m] \in Kept' \/ Justified(files[m])
    BY <1>1 DEF Kept
  <1>3. \A w \in Helpers : data[w] \in Kept' BY DEF Kept
  <1> QED BY <1>2, <1>3, StaysKept

(* No step of any helper loses an inode without the justification           *)
(* NothingLost asks for; only the two replacing renames, of upload and      *)
(* save, drop one.                                                          *)
LEMMA StepLosesNothing == ASSUME FilesInv, Next PROVE NoLoss
  <1>1. ASSUME UNCHANGED <<files, data>> PROVE NoLoss
    BY <1>1 DEF NoLoss, Kept
  <1> SUFFICES ASSUME NEW h \in Helpers,
                      \/ Start(h) \/ Kill(h) \/ Mkdir(h) \/ Move(h)
                      \/ Truncate(h) \/ Fill(h) \/ Look(h) \/ WriteTemporary(h)
                      \/ PlaceReplacing(h) \/ Place(h) \/ ReadText(h) \/ OpenSource(h)
                      \/ LockSource(h) \/ WriteSaved(h) \/ Recheck(h) \/ Replace(h)
                      \/ OpenRoot(h) \/ CreateRoot(h) \/ MarkRoot(h) \/ Stat(h)
                      \/ MakeWrapper(h) \/ Describe(h) \/ Bin(h) \/ Sync(h)
                      \/ Undo(h) \/ OpenWrapper(h) \/ Restore(h) \/ Strip(h)
               PROVE  NoLoss
    BY DEF Next
  <1>2. Typed /\ HelperInv(h) BY DEF FilesInv
  <1>3. Path(h) \in Names /\ req[h].to \in Names
    BY <1>2, FilesAssumption DEF Typed, Path
  <1>4. CASE \/ Start(h) \/ Kill(h) \/ Look(h) \/ WriteTemporary(h)
           \/ ReadText(h) \/ OpenSource(h) \/ LockSource(h) \/ WriteSaved(h)
           \/ Recheck(h) \/ OpenRoot(h) \/ CreateRoot(h) \/ MarkRoot(h)
           \/ Stat(h) \/ MakeWrapper(h) \/ Describe(h) \/ Sync(h)
           \/ Undo(h) \/ OpenWrapper(h) \/ Strip(h) \/ Fill(h)
    BY <1>1, <1>4
    DEF Start, Kill, Look, WriteTemporary, ReadText, OpenSource, LockSource,
        WriteSaved, Recheck, OpenRoot, CreateRoot, MarkRoot, Stat, MakeWrapper,
        Describe, Sync, Undo, OpenWrapper, Strip, Fill, disk
  <1>5. CASE Mkdir(h)
    BY <1>1, <1>2, <1>3, <1>5, NamesKept DEF Mkdir, Vacant, Path
  <1>6. CASE Move(h)
    <2>1. CASE UNCHANGED files BY <1>1, <1>6, <2>1 DEF Move
    <2>2. CASE /\ files' = [files EXCEPT ![req[h].to] = At(h), ![Path(h)] = None]
               /\ Vacant(req[h].to) /\ At(h) # None
      <3>1. req[h].to # Path(h) BY <2>2 DEF Vacant, At
      <3>2. /\ files'[req[h].to] = At(h)
            /\ \A n \in Names \ {Path(h), req[h].to} : files'[n] = files[n]
        BY <1>2, <1>3, <2>2, <3>1 DEF Typed
      <3>3. \A n \in Names : files[n] # None => files[n] \in Kept'
        BY <1>3, <2>2, <3>2 DEF Kept, At, Vacant
      <3>4. \A w \in Helpers : data[w] \in Kept' BY <1>6 DEF Move, Kept
      <3> QED BY <3>3, <3>4, StaysKept
    <2> QED BY <1>6, <2>1, <2>2 DEF Move
  <1>7. CASE Truncate(h)
    <2>1. CASE files' = [files EXCEPT ![Path(h)] = h] /\ At(h) = None
      BY <1>2, <1>3, <1>7, <2>1, NamesKept DEF Truncate, At
    <2>2. CASE files' = [files EXCEPT ![Path(h)] = At(h)] \/ files' = files
      BY <1>1, <1>2, <1>3, <1>7, <2>2 DEF Truncate, At, Typed
    <2> QED BY <1>7, <2>1, <2>2 DEF Truncate
  <1>8. CASE PlaceReplacing(h)
    <2>1. CASE files' = files BY <1>1, <1>8, <2>1 DEF PlaceReplacing
    <2>2. CASE files' = [files EXCEPT ![Path(h)] = h]
      <3>1. files'[Path(h)] = h BY <1>2, <1>3, <2>2 DEF Typed
      <3>2. Justified(files[Path(h)]) BY <1>8, <3>1 DEF PlaceReplacing, Justified
      <3> QED BY <1>2, <1>3, <1>8, <2>2, <3>2, NamesKept DEF PlaceReplacing
    <2> QED BY <1>8, <2>1, <2>2 DEF PlaceReplacing
  <1>9. CASE Place(h)
    <2> DEFINE c == UploadName[Path(h)][tries[h]]
    <2>1. CASE files' = files BY <1>1, <1>9, <2>1 DEF Place
    <2>2. CASE files' = [files EXCEPT ![c] = h] /\ Vacant(c)
      <3>1. CASE c \in Names
        BY <1>2, <1>9, <2>2, <3>1, NamesKept DEF Place, Vacant
      <3>2. CASE c \notin Names
        BY <1>1, <1>2, <1>9, <2>2, <3>2 DEF Place, Typed
      <3> QED BY <3>1, <3>2
    <2> QED BY <1>9, <2>1, <2>2 DEF Place
  <1>10. CASE Replace(h)
    <2>1. CASE files' = files BY <1>1, <1>10, <2>1 DEF Replace
    <2>2. CASE files' = [files EXCEPT ![Path(h)] = h]
      <3>1. files'[Path(h)] = h BY <1>2, <1>3, <2>2 DEF Typed
      <3>2. req[h].op = "save" /\ (meddled[h] \/ Current(h))
        BY <1>2, <1>10 DEF HelperInv, OpOfStep, StillCurrent, Replace
      <3>3. Justified(files[Path(h)]) BY <3>1, <3>2 DEF Justified, Current, At
      <3> QED BY <1>2, <1>3, <1>10, <2>2, <3>3, NamesKept DEF Replace
    <2> QED BY <1>10, <2>1, <2>2 DEF Replace
  <1>11. CASE Bin(h)
    <2>1. CASE UNCHANGED <<files, data>> BY <1>1, <2>1
    <2>2. CASE /\ files' = [files EXCEPT ![Path(h)] = None]
               /\ data' = [data EXCEPT ![h] = At(h)]
      <3>1. data[h] = None BY <1>2, <1>11 DEF HelperInv, Restorable, Binned, Bin
      <3>2. /\ \A n \in Names \ {Path(h)} : files'[n] = files[n]
            /\ data'[h] = At(h) /\ \A w \in Helpers \ {h} : data'[w] = data[w]
        BY <1>2, <1>3, <2>2 DEF Typed
      <3>3. \A n \in Names : files[n] # None => files[n] \in Kept'
        BY <3>2 DEF Kept, At
      <3>4. \A w \in Helpers : data[w] # None => data[w] \in Kept'
        BY <3>1, <3>2 DEF Kept
      <3> QED BY <3>3, <3>4, StaysKept
    <2> QED BY <1>11, <2>1, <2>2 DEF Bin
  <1>12. CASE Restore(h)
    <2> DEFINE w == source[h]
    <2>1. CASE UNCHANGED <<files, data>> BY <1>1, <2>1
    <2>2. CASE /\ files' = [files EXCEPT ![Path(w)] = data[w]] /\ Vacant(Path(w))
               /\ data' = [data EXCEPT ![w] = None]
      <3>1. w \in Helpers /\ Path(w) \in Names
        BY <1>2, <1>12, FilesAssumption
        DEF HelperInv, Restoring, Restore, Typed, Path
      <3>2. /\ files'[Path(w)] = data[w] /\ \A n \in Names \ {Path(w)} : files'[n] = files[n]
            /\ \A v \in Helpers \ {w} : data'[v] = data[v]
        BY <1>2, <2>2, <3>1 DEF Typed
      <3>3. \A n \in Names : files[n] # None => files[n] \in Kept'
        BY <2>2, <3>2 DEF Kept, Vacant
      <3>4. \A v \in Helpers : data[v] # None => data[v] \in Kept'
        BY <3>1, <3>2 DEF Kept
      <3> QED BY <3>3, <3>4, StaysKept
    <2> QED BY <1>12, <2>1, <2>2 DEF Restore
  <1> QED BY <1>4, <1>5, <1>6, <1>7, <1>8, <1>9, <1>10, <1>11, <1>12

(* No mutation of the home loses a file that is not the one it was told to  *)
(* replace: the flock and the second comparison of a save leave a window    *)
(* for other writers only, never for other saves.                           *)
THEOREM NoWorkLost == Spec => NothingLost
  <1>1. FilesInv /\ [Next]_vars => [NoLoss]_vars
    BY StepLosesNothing
  <1> QED BY InitFiles, InvKept, <1>1, PTL DEF Spec, NothingLost, NoLoss, Justified

(* The maker of a root without marker is about to mark it, or has given it  *)
(* up; and whoever was refused for the marker came after that.              *)
RootMade ==
    /\ DOMAIN outcome = Helpers
    /\ root \in Helpers => pc[root] = "mark" \/ GivenUp(root)
    /\ RootNeverHalfMade

(* What a step of h leaves of the other helpers; h itself has not ended.    *)
Beside(h) ==
    /\ ~GivenUp(h) /\ DOMAIN pc' = Helpers /\ DOMAIN outcome' = Helpers
    /\ \A k \in Helpers \ {h} : pc'[k] = pc[k] /\ outcome'[k] = outcome[k]

(* A step beside the making of the root: no root changes, a maker that is   *)
(* stopped was killed, and nobody is refused.                               *)
LEMMA BesideRoot ==
    ASSUME Typed, RootMade, NEW h \in Helpers, Beside(h), root' = root,
           outcome'[h] # "unmarked" \/ outcome'[h] = outcome[h],
           pc[h] = "mark" => pc'[h] = "killed"
    PROVE  RootMade'
  <1>1. \A k \in Helpers : GivenUp(k) => GivenUp(k)' BY DEF GivenUp, Beside
  <1>2. root \in Helpers => pc'[root] = "mark" \/ GivenUp(root)'
    BY <1>1 DEF RootMade, GivenUp, Beside
  <1>3. \A k \in Helpers : outcome'[k] = "unmarked" => outcome[k] = "unmarked"
    BY DEF Beside
  <1>4. RootNeverHalfMade'
    <2> SUFFICES ASSUME NEW k \in Helpers, outcome'[k] = "unmarked"
                 PROVE  root \in Helpers /\ GivenUp(root)'
      BY DEF RootNeverHalfMade, GivenUp
    <2>1. root \in Helpers /\ GivenUp(root) BY <1>3 DEF RootMade, RootNeverHalfMade
    <2> QED BY <1>1, <2>1
  <1> QED BY <1>2, <1>4 DEF RootMade, Beside, GivenUp

(* Every step of a helper keeps the root made: the maker of a root holds    *)
(* the flock on the home until it has marked it or given it up, so whoever  *)
(* finds a root without marker with the flock free came after that.         *)
LEMMA NextRoot == FilesInv /\ RootMade /\ [Next]_vars => RootMade'
  <1> SUFFICES ASSUME FilesInv, RootMade, [Next]_vars PROVE RootMade' OBVIOUS
  <1>1. CASE UNCHANGED vars
    BY <1>1 DEF vars, disk, own, RootMade, GivenUp, RootNeverHalfMade
  <1> SUFFICES ASSUME NEW h \in Helpers,
                      \/ Start(h) \/ Kill(h) \/ Mkdir(h) \/ Move(h)
                      \/ Truncate(h) \/ Fill(h) \/ Look(h) \/ WriteTemporary(h)
                      \/ PlaceReplacing(h) \/ Place(h) \/ ReadText(h) \/ OpenSource(h)
                      \/ LockSource(h) \/ WriteSaved(h) \/ Recheck(h) \/ Replace(h)
                      \/ OpenRoot(h) \/ CreateRoot(h) \/ MarkRoot(h) \/ Stat(h)
                      \/ MakeWrapper(h) \/ Describe(h) \/ Bin(h) \/ Sync(h)
                      \/ Undo(h) \/ OpenWrapper(h) \/ Restore(h) \/ Strip(h)
               PROVE  RootMade'
    BY <1>1 DEF Next
  <1>2. Typed /\ DOMAIN outcome = Helpers /\ HelperInv(h) BY DEF FilesInv, RootMade
  <1> USE DEF Goto, Finish, disk, own
  <1>3. CASE Start(h)
    BY <1>2, <1>3, BesideRoot DEF Start, Beside, GivenUp, Typed, FirstStep
  <1>4. CASE Kill(h)
    BY <1>2, <1>4, BesideRoot DEF Kill, Beside, GivenUp, Typed
  <1>5. CASE \/ Mkdir(h) \/ Move(h) \/ Truncate(h) \/ Fill(h) \/ Look(h)
             \/ WriteTemporary(h) \/ PlaceReplacing(h) \/ Place(h)
    BY <1>2, <1>5, BesideRoot
    DEF Mkdir, Move, Truncate, Fill, Look, WriteTemporary, PlaceReplacing, Place,
        Beside, GivenUp, Typed
  <1>6. CASE \/ ReadText(h) \/ OpenSource(h) \/ LockSource(h) \/ WriteSaved(h)
             \/ Recheck(h) \/ Replace(h)
    BY <1>2, <1>6, BesideRoot
    DEF ReadText, OpenSource, LockSource, WriteSaved, Recheck, Replace,
        Beside, GivenUp, Typed
  <1>7. CASE \/ Stat(h) \/ MakeWrapper(h) \/ Describe(h) \/ Bin(h) \/ Sync(h)
             \/ Undo(h) \/ OpenWrapper(h) \/ Restore(h) \/ Strip(h)
    BY <1>2, <1>7, BesideRoot
    DEF Stat, MakeWrapper, Describe, Bin, Sync, Undo, OpenWrapper, Restore, Strip,
        Beside, GivenUp, Typed
  <1>8. CASE MarkRoot(h)
    <2>1. pc[h] = "mark" /\ root = h BY <1>2, <1>8 DEF MarkRoot, HelperInv, RootKept
    <2>2. /\ DOMAIN outcome' = Helpers /\ outcome'[h] \in {outcome[h], "io"}
          /\ \A k \in Helpers \ {h} : outcome'[k] = outcome[k]
          /\ root' = h => GivenUp(h)'
          /\ root' \in {h, "none", "marked"}
      BY <1>2, <1>8, FilesAssumption DEF MarkRoot, GivenUp, Typed
    <2>3. \A k \in Helpers : outcome[k] # "unmarked"
      BY <2>1 DEF RootMade, RootNeverHalfMade, GivenUp
    <2>4. \A k \in Helpers : outcome'[k] # "unmarked" BY <2>2, <2>3
    <2>5. RootNeverHalfMade' BY <2>4 DEF RootNeverHalfMade
    <2>6. root' \in Helpers => GivenUp(root)' BY <2>2, FilesAssumption DEF GivenUp
    <2> QED BY <2>2, <2>5, <2>6 DEF RootMade
  <1>9. CASE OpenRoot(h) \/ CreateRoot(h)
    <2>1. /\ Beside(h) /\ homeLock = None /\ pc[h] = "root"
          /\ \/ /\ root' = root
                /\ outcome'[h] # "unmarked" \/ outcome'[h] = outcome[h]
             \/ root \in Helpers /\ root' = root
             \/ root = "none" /\ root' = h /\ pc'[h] = "mark" /\ outcome' = outcome
      BY <1>2, <1>9 DEF OpenRoot, CreateRoot, HomeFree, Beside, GivenUp, Typed
    <2>2. CASE /\ root' = root
               /\ outcome'[h] # "unmarked" \/ outcome'[h] = outcome[h]
      BY <1>2, <2>1, <2>2, BesideRoot
    <2>3. CASE root \in Helpers /\ root' = root
      <3>1. pc[root] # "mark"
        BY <2>1, <2>3, FilesAssumption DEF FilesInv, HelperInv, RootKept
      <3>2. GivenUp(root) BY <2>3, <3>1 DEF RootMade
      <3>3. GivenUp(root)' BY <2>1, <2>3, <3>2 DEF Beside, GivenUp
      <3> QED BY <2>1, <2>3, <3>3 DEF RootMade, RootNeverHalfMade, GivenUp, Beside
    <2>4. CASE root = "none" /\ root' = h /\ pc'[h] = "mark" /\ outcome' = outcome
      <3>1. \A k \in Helpers : outcome'[k] # "unmarked"
        BY <2>4, FilesAssumption DEF RootMade, RootNeverHalfMade
      <3>2. RootNeverHalfMade' BY <3>1 DEF RootNeverHalfMade
      <3> QED BY <2>1, <2>4, <3>2 DEF RootMade, Beside
    <2> QED BY <2>1, <2>2, <2>3, <2>4
  <1> QED BY <1>3, <1>4, <1>5, <1>6, <1>7, <1>8, <1>9

(* No helper sees a root that another one is still initialising: nobody is  *)
(* refused for a missing marker unless the helper that made this very root  *)
(* was killed in it, or could neither mark it nor remove it again.          *)
THEOREM RootSeenWhole == Spec => []RootNeverHalfMade
  <1>1. Init => RootMade BY FilesAssumption DEF Init, RootMade, RootNeverHalfMade
  <1>2. RootMade => RootNeverHalfMade BY DEF RootMade
  <1> QED BY InitFiles, InvKept, NextRoot, <1>1, <1>2, PTL DEF Spec

-----------------------------------------------------------------------------
(* Types.  TypeOK needs besides FilesInv that a write which truncated a     *)
(* file knows which, and that a helper starts at the first candidate name.  *)
Counting ==
    /\ DOMAIN tries = Helpers
    /\ \A h \in Helpers : pc[h] = "idle" => tries[h] = 1
    /\ \A h \in Helpers : pc[h] = "fill" => source[h] \in Inodes

FilesTypes == TypeOK /\ Counting

(* A step of h within the types: every helper keeps a step and a candidate. *)
LEMMA StepTyped ==
    ASSUME FilesInv, FilesTypes, FilesInv', NEW h \in Helpers,
           content' \in [Inodes -> Inodes \cup {"empty"}],
           root' \in Helpers \cup {"none", "marked"},
           wrapper' \in [Helpers -> {"none", "empty", "described"}],
           homeLock' \in Helpers \cup {None},
           locks' \in [Inodes -> Helpers \cup {None}],
           \A k \in Helpers \ {h} : pc'[k] = pc[k] /\ req'[k] = req[k]
                                     /\ source'[k] = source[k],
           pc'[h] \in Steps \ {"idle"}, req'[h] = req[h] \/ pc[h] = "idle",
           pc'[h] = "fill" => source'[h] \in Inodes,
           \/ tries' = tries
           \/ /\ tries[h] < Len(UploadName[Path(h)]) /\ pc[h] # "idle"
              /\ tries' = [tries EXCEPT ![h] = @ + 1]
    PROVE  FilesTypes'
  <1>1. Typed /\ Typed' BY DEF FilesInv
  <1>2. \A k \in Helpers : req[k].path \in Names /\ req'[k].path \in Names
    BY <1>1, FilesAssumption DEF Typed
  <1>3. \A n \in Names : Len(UploadName[n]) \in Nat /\ Len(UploadName[n]) >= 1
    <2> TAKE n \in Names
    <2>1. UploadName[n] \in Seq(Names) /\ UploadName[n] # <<>> BY FilesAssumption
    <2> QED BY <2>1
  <1>4. DOMAIN tries' = Helpers BY DEF FilesTypes, Counting
  <1>5. ASSUME NEW k \in Helpers PROVE tries'[k] \in 1..Len(UploadName[req'[k].path])
    <2>1. tries[k] \in 1..Len(UploadName[req[k].path]) BY DEF FilesTypes, TypeOK
    <2>2. pc[k] = "idle" => tries[k] = 1 BY DEF FilesTypes, Counting
    <2>3. CASE k # h
      <3>1. tries'[k] = tries[k] /\ req'[k] = req[k]
        BY <2>3 DEF FilesTypes, Counting
      <3> QED BY <2>1, <3>1
    <2>4. CASE k = h /\ tries' = tries
      BY <1>2, <1>3, <2>1, <2>2, <2>4
    <2>5. CASE k = h /\ tries' # tries
      <3>1. /\ tries'[k] = tries[k] + 1 /\ req'[k] = req[k]
            /\ tries[k] < Len(UploadName[req[k].path])
        BY <2>5 DEF FilesTypes, Counting, Path
      <3> QED BY <1>2, <1>3, <2>1, <3>1
    <2> QED BY <2>3, <2>4, <2>5
  <1>6. ASSUME NEW k \in Helpers
        PROVE  /\ pc'[k] \in Steps
               /\ pc'[k] = "idle" => tries'[k] = 1
               /\ pc'[k] = "fill" => source'[k] \in Inodes
    BY DEF FilesTypes, TypeOK, Counting
  <1>7. TypeOK' BY <1>1, <1>5, <1>6 DEF TypeOK, Typed
  <1> QED BY <1>4, <1>6, <1>7 DEF FilesTypes, Counting

LEMMA NextTyped == FilesInv /\ FilesTypes /\ FilesInv' /\ [Next]_vars => FilesTypes'
  <1> SUFFICES ASSUME FilesInv, FilesTypes, FilesInv', [Next]_vars
               PROVE  FilesTypes'
    OBVIOUS
  <1>1. CASE UNCHANGED vars
    BY <1>1 DEF vars, disk, own, FilesTypes, TypeOK, Counting
  <1> SUFFICES ASSUME NEW h \in Helpers,
                      \/ Start(h) \/ Kill(h) \/ Mkdir(h) \/ Move(h)
                      \/ Truncate(h) \/ Fill(h) \/ Look(h) \/ WriteTemporary(h)
                      \/ PlaceReplacing(h) \/ Place(h) \/ ReadText(h) \/ OpenSource(h)
                      \/ LockSource(h) \/ WriteSaved(h) \/ Recheck(h) \/ Replace(h)
                      \/ OpenRoot(h) \/ CreateRoot(h) \/ MarkRoot(h) \/ Stat(h)
                      \/ MakeWrapper(h) \/ Describe(h) \/ Bin(h) \/ Sync(h)
                      \/ Undo(h) \/ OpenWrapper(h) \/ Restore(h) \/ Strip(h)
               PROVE  FilesTypes'
    BY <1>1 DEF Next
  <1>2. /\ Typed /\ Typed' /\ TypeOK /\ HelperInv(h)
        /\ pc[h] = "fill" => source[h] \in Inodes
    BY DEF FilesInv, FilesTypes, Counting
  <1>3. /\ content \in [Inodes -> Inodes \cup {"empty"}]
        /\ root \in Helpers \cup {"none", "marked"}
        /\ wrapper \in [Helpers -> {"none", "empty", "described"}]
        /\ homeLock \in Helpers \cup {None}
        /\ locks \in [Inodes -> Helpers \cup {None}]
        /\ DOMAIN pc = Helpers /\ pc[h] \in Steps
        /\ req \in [Helpers -> Requests] /\ source \in [Helpers -> Inodes \cup {None}]
        /\ None \notin Inodes
    BY <1>2, FilesAssumption DEF TypeOK, Typed, Inodes
  <1>4. Unlocked(h) \in [Inodes -> Helpers \cup {None}] BY <1>3 DEF Unlocked
  <1> USE DEF Goto, Finish, disk, own, Steps
  <1>5. CASE Start(h)
    <2>1. PICK r \in Requests : /\ req' = [req EXCEPT ![h] = r]
                               /\ pc' = [pc EXCEPT ![h] = FirstStep(r.op)]
      BY <1>5 DEF Start
    <2>2. FirstStep(r.op) \in Steps \ {"idle", "fill"}
      BY FilesAssumption DEF FirstStep
    <2> QED BY <1>3, <1>5, <2>1, <2>2, StepTyped DEF Start
  <1>6. CASE Kill(h)
    BY <1>3, <1>4, <1>6, StepTyped DEF Kill
  <1>7. CASE Mkdir(h) \/ Move(h) \/ Look(h) \/ WriteTemporary(h) \/ PlaceReplacing(h)
    BY <1>3, <1>7, StepTyped DEF Mkdir, Move, Look, WriteTemporary, PlaceReplacing
  <1>8. CASE Truncate(h)
    <2>1. At(h) \in Inodes \cup {None}
      BY <1>2, FilesAssumption DEF Typed, At, Path
    <2>2. h \in Inodes BY DEF Inodes
    <2> QED BY <1>3, <1>8, <2>1, <2>2, StepTyped DEF Truncate
  <1>9. CASE Fill(h)
    <2>1. h \in Inodes BY DEF Inodes
    <2> QED BY <1>2, <1>3, <1>9, <2>1, StepTyped DEF Fill
  <1>10. CASE Place(h)
    BY <1>3, <1>10, StepTyped DEF Place
  <1>11. CASE ReadText(h) \/ OpenSource(h) \/ LockSource(h) \/ WriteSaved(h)
    BY <1>3, <1>11, StepTyped DEF ReadText, OpenSource, LockSource, WriteSaved
  <1>12. CASE Recheck(h) \/ Replace(h)
    BY <1>3, <1>4, <1>12, StepTyped DEF Recheck, Replace
  <1>13. CASE OpenRoot(h) \/ CreateRoot(h) \/ MarkRoot(h)
    BY <1>3, <1>13, StepTyped DEF OpenRoot, CreateRoot, MarkRoot
  <1>14. CASE Stat(h) \/ MakeWrapper(h) \/ Describe(h) \/ Bin(h) \/ Sync(h) \/ Undo(h)
    BY <1>3, <1>14, StepTyped DEF Stat, MakeWrapper, Describe, Bin, Sync, Undo
  <1>15. CASE OpenWrapper(h) \/ Restore(h) \/ Strip(h)
    <2>1. pc[h] = "strip" => source[h] \in Helpers
      BY <1>2 DEF HelperInv, Restoring
    <2> QED BY <1>3, <1>15, <2>1, StepTyped DEF OpenWrapper, Restore, Strip
  <1> QED BY <1>5, <1>6, <1>7, <1>8, <1>9, <1>10, <1>11, <1>12, <1>13, <1>14, <1>15

(* Every variable keeps its type: an upload never looks beyond its last     *)
(* candidate name, and a write fills a file that it has opened.             *)
THEOREM FilesTyped == Spec => []TypeOK
  <1>1. Init => FilesTypes
    <2> SUFFICES ASSUME Init PROVE FilesTypes OBVIOUS
    <2>1. (CHOOSE r \in Requests : TRUE) \in Requests BY FilesAssumption
    <2>2. \A n \in Names : 1 \in 1..Len(UploadName[n])
      <3> TAKE n \in Names
      <3>1. UploadName[n] \in Seq(Names) /\ UploadName[n] # <<>> BY FilesAssumption
      <3> QED BY <3>1
    <2>3. \A h \in Helpers : req[h].path \in Names
      BY <2>1, FilesAssumption DEF Init
    <2> QED BY <2>1, <2>2, <2>3 DEF Init, FilesTypes, TypeOK, Counting, Inodes, Steps
  <1>2. FilesTypes => TypeOK BY DEF FilesTypes
  <1> QED BY InitFiles, InvKept, NextTyped, <1>1, <1>2, PTL DEF Spec

=============================================================================
