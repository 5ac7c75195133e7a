---------------------------- MODULE PersonalFiles ----------------------------
(***************************************************************************)
(* A user's personal files: the helpers of file_operations.py and the      *)
(* routes of workspace.py that run them.                                   *)
(*                                                                         *)
(* Every mutation runs in a helper process of its own, as the user, so any *)
(* number of them interleave on one home, and each can be killed between   *)
(* any two system calls, without its `finally' clauses.  Locks are flocks, *)
(* released by the kernel.  A helper creates at most one inode and at most *)
(* one wrapper in the trash: both carry its name.                          *)
(***************************************************************************)
EXTENDS Integers, Sequences, FiniteSets

CONSTANTS
    Helpers,       \* the requests
    Names,         \* entries of the home
    UploadName,    \* a name, _upload_name(name, 1), _upload_name(name, 2)...
    Requests,      \* what may be asked, records [op, path, to]
    Old,           \* the file that is there at the start, and its content
    None           \* no inode, no helper

ASSUME FilesAssumption ==
    /\ Old \notin Helpers /\ None \notin Helpers \cup {Old}
    /\ "empty" \notin Helpers \cup {Old, None} /\ Helpers \cap {"none", "marked"} = {}
    /\ UploadName \in [Names -> Seq(Names)]
    /\ \A n \in Names : UploadName[n] # <<>> /\ UploadName[n][1] = n
    /\ Requests # {}
    /\ \A r \in Requests : /\ r.path \in Names /\ r.to \in Names
                            /\ r.op \in {"mkdir", "move", "error", "replace", "keep-both",
                                         "save", "trash", "restore", "write"}

Inodes == Helpers \cup {Old}

VARIABLES
    files,         \* the entries of the home
    content,       \* of each inode; what its hash is compared by
    root,          \* the trash directory: none, marked, or the helper that
                   \* made it and has not marked it
    wrapper,       \* the trash directory's wrappers and their metadata.json
    data,          \* the entry `data' of each wrapper
    homeLock,      \* holder of the flock on the home
    locks,         \* holders of the flocks on the inodes
    req, pc,       \* each request, and how far its helper is
    seen,          \* save: the version; trash, upload: the kind of the entry
    source,        \* save: the inode opened; restore: the wrapper opened
    tries,         \* upload: the candidate names refused so far
    outcome,       \* what the helper printed
    meddled        \* history: others than saves touched the entry meanwhile

disk == <<files, content, root, wrapper, data>>
own == <<req, seen, source, tries>>
vars == <<disk, homeLock, locks, own, pc, outcome, meddled>>

KindOf(i) == IF i # Old /\ req[i].op = "mkdir" THEN "directory" ELSE "file"

Steps == {"idle", "make", "rename", "look", "write", "place", "read", "lock",
          "recheck", "replace", "stat", "root", "mark", "wrap", "describe",
          "bin", "sync", "undo", "open", "restore", "strip", "truncate", "fill",
          "done", "killed"}

TypeOK ==
    /\ files \in [Names -> Inodes \cup {None}]
    /\ content \in [Inodes -> Inodes \cup {"empty"}]
    /\ root \in Helpers \cup {"none", "marked"}
    /\ wrapper \in [Helpers -> {"none", "empty", "described"}]
    /\ data \in [Helpers -> Inodes \cup {None}]
    /\ homeLock \in Helpers \cup {None}
    /\ locks \in [Inodes -> Helpers \cup {None}]
    /\ \A h \in Helpers : pc[h] \in Steps
    /\ \A h \in Helpers : pc[h] # "idle" => req[h] \in Requests
    /\ \A h \in Helpers : tries[h] \in 1..Len(UploadName[req[h].path])

Init ==
    /\ files \in {f \in [Names -> {Old, None}] :
                    Cardinality({n \in Names : f[n] = Old}) = 1}
    /\ content = [i \in Inodes |-> i]
    /\ root = "none"
    /\ wrapper = [h \in Helpers |-> "none"]
    /\ data = [h \in Helpers |-> None]
    /\ homeLock = None
    /\ locks = [i \in Inodes |-> None]
    /\ req = [h \in Helpers |-> CHOOSE r \in Requests : TRUE]
    /\ pc = [h \in Helpers |-> "idle"]
    /\ seen = [h \in Helpers |-> None]
    /\ source = [h \in Helpers |-> None]
    /\ tries = [h \in Helpers |-> 1]
    /\ outcome = [h \in Helpers |-> "none"]
    /\ meddled = [h \in Helpers |-> FALSE]

-----------------------------------------------------------------------------
(* The name space.                                                          *)

Goto(h, step) == pc' = [pc EXCEPT ![h] = step] /\ UNCHANGED outcome

Finish(h, code) ==
    /\ pc' = [pc EXCEPT ![h] = "done"]
    /\ outcome' = [outcome EXCEPT ![h] = code]

Path(h) == req[h].path
At(h) == files[Path(h)]

(* Every lock of a process goes with its descriptors.                       *)
Unlocked(h) == [i \in Inodes |-> IF locks[i] = h THEN None ELSE locks[i]]

(* renameat2 with RENAME_NOREPLACE takes a vacant name only.                *)
Vacant(n) == files[n] = None

(* Somewhere between its look at an entry and its use of it.                *)
Relying(h) == pc[h] \in {"replace", "root", "mark", "wrap", "describe", "bin"}

(* h changes what is under some names, or what is in some inodes: noted for *)
(* whoever relies on that.                                                  *)
Meddle(h, names, inodes) ==
    meddled' = [k \in Helpers |->
                  meddled[k] \/ /\ k # h /\ Relying(k)
                                /\ Path(k) \in names \/ source[k] \in inodes]

-----------------------------------------------------------------------------
(* Requests.                                                                *)

FirstStep(op) ==
    CASE op \in {"mkdir", "move"} -> "make"
      [] op \in {"error", "replace", "keep-both"} -> "look"
      [] op = "save" -> "read"
      [] op = "trash" -> "stat"
      [] op = "restore" -> "root"
      [] op = "write" -> "truncate"

(* A route starts its helper.                                               *)
Start(h) ==
    /\ pc[h] = "idle"
    /\ \E r \in Requests :
         /\ req' = [req EXCEPT ![h] = r]
         /\ Goto(h, FirstStep(r.op))
    /\ UNCHANGED <<disk, homeLock, locks, seen, source, tries, meddled>>

(* The helper dies where it is: its request was cancelled, or the container *)
(* stopped.                                                                 *)
Kill(h) ==
    /\ pc[h] \notin {"idle", "done", "killed"}
    /\ pc' = [pc EXCEPT ![h] = "killed"]
    /\ homeLock' = IF homeLock = h THEN None ELSE homeLock
    /\ locks' = Unlocked(h)
    /\ UNCHANGED <<disk, own, outcome, meddled>>

(* mkdir, and move: the checks before them only choose the error earlier.   *)
Mkdir(h) ==
    /\ pc[h] = "make" /\ req[h].op = "mkdir"
    /\ IF Vacant(Path(h))
         THEN /\ files' = [files EXCEPT ![Path(h)] = h]
              /\ Meddle(h, {Path(h)}, {})
              /\ Finish(h, "ok")
         ELSE Finish(h, "conflict") /\ UNCHANGED <<files, meddled>>
    /\ UNCHANGED <<content, root, wrapper, data, homeLock, locks, own>>

Move(h) ==
    /\ pc[h] = "make" /\ req[h].op = "move"
    /\ IF At(h) = None THEN Finish(h, "missing") /\ UNCHANGED <<files, meddled>>
       ELSE IF ~Vacant(req[h].to)
         THEN Finish(h, "conflict") /\ UNCHANGED <<files, meddled>>
       ELSE /\ files' = [files EXCEPT ![req[h].to] = At(h), ![Path(h)] = None]
            /\ Meddle(h, {Path(h), req[h].to}, {})
            /\ Finish(h, "ok")
    /\ UNCHANGED <<content, root, wrapper, data, homeLock, locks, own>>

(* UserFS.write of the other file API: it truncates what it opens, then     *)
(* writes, and takes no lock.                                               *)
Truncate(h) ==
    /\ pc[h] = "truncate"
    /\ IF At(h) # None /\ KindOf(At(h)) = "directory"
         THEN Finish(h, "io") /\ UNCHANGED <<files, content, source, meddled>>
         ELSE LET i == IF At(h) = None THEN h ELSE At(h) IN
              /\ files' = [files EXCEPT ![Path(h)] = i]
              /\ content' = [content EXCEPT ![i] = "empty"]
              /\ source' = [source EXCEPT ![h] = i]
              /\ Meddle(h, {Path(h)}, {i})
              /\ Goto(h, "fill")
    /\ UNCHANGED <<root, wrapper, data, homeLock, locks, req, seen, tries>>

Fill(h) ==
    /\ pc[h] = "fill"
    /\ content' = [content EXCEPT ![source[h]] = h]
    /\ Meddle(h, {}, {source[h]})
    /\ Finish(h, "ok")
    /\ UNCHANGED <<files, root, wrapper, data, homeLock, locks, own>>

-----------------------------------------------------------------------------
(* upload.                                                                  *)

Look(h) ==
    /\ pc[h] = "look"
    /\ IF \/ At(h) # None /\ req[h].op = "error"
          \/ At(h) # None /\ req[h].op = "replace" /\ KindOf(At(h)) = "directory"
         THEN Finish(h, "conflict")
         ELSE Goto(h, "write")
    /\ UNCHANGED <<disk, homeLock, locks, own, meddled>>

(* _write_upload: the temporary file, complete or removed again.            *)
WriteTemporary(h) ==
    /\ pc[h] = "write" /\ req[h].op # "save"
    /\ Goto(h, "place") \/ Finish(h, "interrupted")
    /\ UNCHANGED <<disk, homeLock, locks, own, meddled>>

(* The temporary file takes the name asked for, or a numbered one.          *)
PlaceReplacing(h) ==
    /\ pc[h] = "place" /\ req[h].op = "replace"
    /\ IF At(h) # None /\ KindOf(At(h)) = "directory"
         THEN Finish(h, "io") /\ UNCHANGED <<files, meddled>>
         ELSE /\ files' = [files EXCEPT ![Path(h)] = h]
              /\ Meddle(h, {Path(h)}, {})
              /\ Finish(h, "ok")
    /\ UNCHANGED <<content, root, wrapper, data, homeLock, locks, own>>

Place(h) ==
    /\ pc[h] = "place" /\ req[h].op \in {"error", "keep-both"}
    /\ LET candidate == UploadName[Path(h)][tries[h]] IN
       IF Vacant(candidate)
         THEN /\ files' = [files EXCEPT ![candidate] = h]
              /\ Meddle(h, {candidate}, {})
              /\ Finish(h, "ok") /\ UNCHANGED tries
         ELSE /\ IF req[h].op = "error"
                   THEN Finish(h, "conflict") /\ UNCHANGED tries
                   ELSE /\ tries[h] < Len(UploadName[Path(h)])
                        /\ tries' = [tries EXCEPT ![h] = @ + 1]
                        /\ UNCHANGED <<pc, outcome>>
              /\ UNCHANGED <<files, meddled>>
    /\ UNCHANGED <<content, root, wrapper, data, homeLock, locks, req, seen, source>>

-----------------------------------------------------------------------------
(* save.                                                                    *)

(* GET /home-files/text: the user reads the version to edit.                *)
ReadText(h) ==
    /\ pc[h] = "read"
    /\ IF At(h) = None \/ KindOf(At(h)) = "directory"
         THEN Finish(h, "missing") /\ UNCHANGED seen
         ELSE /\ seen' = [seen EXCEPT ![h] = content[At(h)]]
              /\ Goto(h, "open")
    /\ UNCHANGED <<disk, homeLock, locks, req, source, tries, meddled>>

OpenSource(h) ==
    /\ pc[h] = "open" /\ req[h].op = "save"
    /\ IF At(h) = None \/ KindOf(At(h)) = "directory"
         THEN Finish(h, "missing") /\ UNCHANGED source
         ELSE /\ source' = [source EXCEPT ![h] = At(h)]
              /\ Goto(h, "lock")
    /\ UNCHANGED <<disk, homeLock, locks, req, seen, tries, meddled>>

(* Slip: the source is not locked.                                          *)
SlipTaken(i) == FALSE

Taken(i) == locks[i] # None

(* The lock, then the comparison with the version the user edited.          *)
LockSource(h) ==
    /\ pc[h] = "lock" /\ ~Taken(source[h])
    /\ IF content[source[h]] = seen[h]
         THEN /\ locks' = [locks EXCEPT ![source[h]] = h]
              /\ Goto(h, "write")
         ELSE Finish(h, "stale") /\ UNCHANGED locks
    /\ UNCHANGED <<disk, homeLock, own, meddled>>

WriteSaved(h) ==
    /\ pc[h] = "write" /\ req[h].op = "save"
    /\ Goto(h, "recheck")
    /\ UNCHANGED <<disk, homeLock, locks, own, meddled>>

Current(h) == At(h) = source[h] /\ content[source[h]] = seen[h]

(* The last check, and the start of the window in which only the lock on    *)
(* the source still protects the rename.                                    *)
Recheck(h) ==
    /\ pc[h] = "recheck"
    /\ IF Current(h)
         THEN /\ Goto(h, "replace")
              /\ meddled' = [meddled EXCEPT ![h] = FALSE]
              /\ UNCHANGED locks
         ELSE Finish(h, "stale") /\ locks' = Unlocked(h) /\ UNCHANGED meddled
    /\ UNCHANGED <<disk, homeLock, own>>

(* A save that others got in the way of gets in the way itself.             *)
Replace(h) ==
    /\ pc[h] = "replace"
    /\ IF At(h) # None /\ KindOf(At(h)) = "directory"
         THEN Finish(h, "io") /\ UNCHANGED files
         ELSE Finish(h, "ok") /\ files' = [files EXCEPT ![Path(h)] = h]
    /\ locks' = Unlocked(h)
    /\ Meddle(h, IF meddled[h] THEN {Path(h)} ELSE {}, {})
    /\ UNCHANGED <<content, root, wrapper, data, homeLock, own>>

-----------------------------------------------------------------------------
(* The trash directory.                                                     *)

(* Slip: the home is not locked.                                            *)
SlipHomeFree == TRUE

HomeFree == homeLock = None

(* _open_trash_root(create=False), for restore.                             *)
OpenRoot(h) ==
    /\ pc[h] = "root" /\ req[h].op = "restore" /\ HomeFree
    /\ \/ root = "none" /\ Finish(h, "missing")
       \/ root \in Helpers /\ Finish(h, "unmarked")
       \/ root = "marked" /\ Goto(h, "open")
    /\ UNCHANGED <<disk, homeLock, locks, own, meddled>>

(* _open_trash_root(create=True), for trash: a new root is marked under the *)
(* lock; one that was there must have its marker.                           *)
CreateRoot(h) ==
    /\ pc[h] = "root" /\ req[h].op = "trash" /\ HomeFree
    /\ \/ /\ root = "none"
          /\ root' = h /\ homeLock' = h
          /\ Goto(h, "mark")
       \/ root \in Helpers /\ Finish(h, "unmarked") /\ UNCHANGED <<root, homeLock>>
       \/ root = "marked" /\ Goto(h, "wrap") /\ UNCHANGED <<root, homeLock>>
    /\ UNCHANGED <<files, content, wrapper, data, locks, own, meddled>>

(* The marker; when it cannot be written the new root is removed again.  An *)
(* error of that rmdir is passed over: it leaves the root without marker,   *)
(* or, when the marker could not be unlinked either, with all of it.        *)
MarkRoot(h) ==
    /\ pc[h] = "mark"
    /\ \/ root' = "marked" /\ Goto(h, "wrap")
       \/ root' \in {"none", h, "marked"} /\ Finish(h, "io")
    /\ homeLock' = None
    /\ UNCHANGED <<files, content, wrapper, data, locks, own, meddled>>

-----------------------------------------------------------------------------
(* trash.                                                                   *)

Stat(h) ==
    /\ pc[h] = "stat"
    /\ IF At(h) = None
         THEN Finish(h, "missing") /\ UNCHANGED <<seen, meddled>>
         ELSE /\ seen' = [seen EXCEPT ![h] = KindOf(At(h))]
              /\ meddled' = [meddled EXCEPT ![h] = FALSE]
              /\ Goto(h, "root")
    /\ UNCHANGED <<disk, homeLock, locks, req, source, tries>>

MakeWrapper(h) ==
    /\ pc[h] = "wrap"
    /\ \/ wrapper' = [wrapper EXCEPT ![h] = "empty"] /\ Goto(h, "describe")
       \/ Finish(h, "io") /\ UNCHANGED wrapper
    /\ UNCHANGED <<files, content, root, data, homeLock, locks, own, meddled>>

Describe(h) ==
    /\ pc[h] = "describe"
    /\ \/ wrapper' = [wrapper EXCEPT ![h] = "described"] /\ Goto(h, "bin")
       \/ Goto(h, "undo") /\ UNCHANGED wrapper
    /\ UNCHANGED <<files, content, root, data, homeLock, locks, own, meddled>>

(* The entry moves into the wrapper, whatever it is by now.                 *)
Bin(h) ==
    /\ pc[h] = "bin"
    /\ IF At(h) = None
         THEN Goto(h, "undo") /\ UNCHANGED <<files, data>>
         ELSE /\ files' = [files EXCEPT ![Path(h)] = None]
              /\ data' = [data EXCEPT ![h] = At(h)]
              /\ Goto(h, "sync")
    /\ Meddle(h, {Path(h)}, {})
    /\ UNCHANGED <<content, root, wrapper, homeLock, locks, own>>

(* os.fsync of the wrapper can still fail, after the move.                  *)
Sync(h) ==
    /\ pc[h] = "sync"
    /\ Finish(h, "ok") \/ Goto(h, "undo")
    /\ UNCHANGED <<disk, homeLock, locks, own, meddled>>

(* Slip: the metadata is removed without a look at the data.                *)
SlipUnused(h) == TRUE

Unused(h) == data[h] = None

(* The error path: metadata.json is kept while there is data, and rmdir     *)
(* removes an empty wrapper only.                                           *)
Undo(h) ==
    /\ pc[h] = "undo"
    /\ wrapper' = [wrapper EXCEPT ![h] = IF data[h] = None THEN "none"
                                         ELSE IF Unused(h) THEN "empty" ELSE @]
    /\ Finish(h, "missing")
    /\ UNCHANGED <<files, content, root, data, homeLock, locks, own, meddled>>

-----------------------------------------------------------------------------
(* list_trash and restore.                                                  *)

(* What list_trash lists, and restore accepts.                              *)
Listed(w) ==
    /\ wrapper[w] = "described" /\ data[w] # None
    /\ KindOf(data[w]) = seen[w]

(* restore opens a wrapper by its id and checks what list_trash checks.     *)
OpenWrapper(h) ==
    /\ pc[h] = "open" /\ req[h].op = "restore"
    /\ \/ \E w \in Helpers :
            /\ wrapper[w] # "none"
            /\ IF ~Listed(w)
                 THEN Finish(h, "forbidden") /\ UNCHANGED source
                 ELSE /\ source' = [source EXCEPT ![h] = w]
                      /\ Goto(h, "restore")
       \/ (\A w \in Helpers : wrapper[w] = "none")
          /\ Finish(h, "missing") /\ UNCHANGED source
    /\ UNCHANGED <<disk, homeLock, locks, req, seen, tries, meddled>>

(* Back to the path of the record, if that is vacant and the data is still  *)
(* there.                                                                   *)
Restore(h) ==
    /\ pc[h] = "restore"
    /\ LET w == source[h] n == Path(w) IN
       IF data[w] = None \/ ~Vacant(n)
         THEN /\ Finish(h, IF data[w] = None THEN "missing" ELSE "conflict")
              /\ UNCHANGED <<files, data, meddled>>
         ELSE /\ files' = [files EXCEPT ![n] = data[w]]
              /\ data' = [data EXCEPT ![w] = None]
              /\ Meddle(h, {n}, {})
              /\ Goto(h, "strip")
    /\ UNCHANGED <<content, root, wrapper, homeLock, locks, own>>

(* The wrapper goes; the kill between unlink and rmdir leaves it empty.     *)
Strip(h) ==
    /\ pc[h] = "strip"
    /\ LET w == source[h] IN
       \/ wrapper' = [wrapper EXCEPT ![w] = "none"] /\ Finish(h, "ok")
       \/ wrapper' = [wrapper EXCEPT ![w] = "empty"] /\ Finish(h, "ok")
       \/ UNCHANGED wrapper /\ Finish(h, "ok")
    /\ UNCHANGED <<files, content, root, data, homeLock, locks, own, meddled>>

Next ==
    \E h \in Helpers :
       \/ Start(h) \/ Kill(h) \/ Mkdir(h) \/ Move(h) \/ Truncate(h) \/ Fill(h)
       \/ Look(h) \/ WriteTemporary(h) \/ PlaceReplacing(h) \/ Place(h)
       \/ ReadText(h) \/ OpenSource(h) \/ LockSource(h) \/ WriteSaved(h)
       \/ Recheck(h) \/ Replace(h)
       \/ OpenRoot(h) \/ CreateRoot(h) \/ MarkRoot(h)
       \/ Stat(h) \/ MakeWrapper(h) \/ Describe(h) \/ Bin(h) \/ Sync(h) \/ Undo(h)
       \/ OpenWrapper(h) \/ Restore(h) \/ Strip(h)

Spec == Init /\ [][Next]_vars

-----------------------------------------------------------------------------
(* Properties.                                                              *)

Kept == {files[n] : n \in Names} \cup {data[w] : w \in Helpers}

(* Nobody's work disappears in the operations modelled here.  An inode      *)
(* leaves only when an upload that was told to replace takes its name, or   *)
(* when a save does, and then it is the file and the content the user had   *)
(* read, unless others than saves were at that name between the save's last *)
(* check and its rename.  /files/delete and /files/move are not among these *)
(* operations; the latter checks that its destination is vacant, awaits,    *)
(* and then moves onto whatever is there.                                   *)
NothingLost ==
    [][\A i \in Kept \ {None} : i \notin Kept' =>
         \E h \in Helpers :
            /\ files'[Path(h)] = h /\ files[Path(h)] = i
            /\ \/ req[h].op = "replace"
               \/ /\ req[h].op = "save"
                  /\ meddled[h] \/ (source[h] = i /\ content[i] = seen[h])]_vars

(* What was moved to the trash can be listed and restored, after every kill *)
(* and failure: only an entry that changed between the look of its trash    *)
(* and the move may be recorded under the wrong kind.                       *)
TrashRestorable ==
    \A w \in Helpers : data[w] # None =>
        /\ root = "marked" /\ wrapper[w] = "described"
        /\ KindOf(data[w]) = seen[w] \/ meddled[w]

(* The maker of a root was killed, or answered that it failed.              *)
GivenUp(h) == pc[h] = "killed" \/ (pc[h] = "done" /\ outcome[h] = "io")

(* No helper sees a root another one is still initialising or rolling back  *)
(* (the comment in _open_trash_root).  One is refused for the missing       *)
(* marker only when the very helper that made this root was killed in it,   *)
(* or failed to mark it and then to remove it again.                        *)
RootNeverHalfMade ==
    \A h \in Helpers : outcome[h] = "unmarked" => root \in Helpers /\ GivenUp(root)

=============================================================================
