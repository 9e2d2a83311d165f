-------------------------- MODULE StorageEndpoint --------------------------
(***************************************************************************)
(* One storage endpoint as the threads of the web server drive it.  Every  *)
(* method of StorageEndpoint takes the endpoint's spinlock, searches the   *)
(* tree, applies its effect through the pointer the search returned, and   *)
(* releases the lock.  Two ways into the tree take no lock: dirCreate, and *)
(* the destructor of WriteFileTransaction, which takes the file of an      *)
(* upload that was given up out of its directory (operation "revert").     *)
(*                                                                         *)
(* What the overlap of two threads can do is modelled by what libstdc++    *)
(* makes of it:                                                            *)
(*  - VirtualFilesystem::iterationCache is one vector for all searches: of *)
(*    two that overlap each clears and pops what the other pushed, so      *)
(*    either may end early and miss what it looks for; so may one that     *)
(*    walks a vector while it changes.                                     *)
(*  - A pointer to a directory is a slot of its parent's vector.  An       *)
(*    erasure shifts the later slots; a pointer past the last one names    *)
(*    nothing until an append takes that slot again.  An append to a       *)
(*    vector that is full (16 are reserved, VirtualDirectory.cpp:16) moves *)
(*    it to other memory, an erased directory frees its own, and pointers  *)
(*    into either dangle.  A dangling pointer names an empty directory     *)
(*    outside the tree: what is added to it is lost.                       *)
(*  - erase_if first tests and moves, then cuts the vector off.  What      *)
(*    another thread adds in between may be cut off with it, or what was   *)
(*    erased may stay; when another erase_if runs in between, either cuts  *)
(*    the vector where the other has moved it, and any element may go.     *)
(* Executions in which a race crashes the process end there, and a listing *)
(* that meets a change shows what was there before or after it.            *)
(*                                                                         *)
(* userCanAction grants every request (uac/UserAccessControl.cpp), so the  *)
(* branch that refuses one is never taken and is left out.                 *)
(***************************************************************************)
EXTENDS VirtualFilesystem, FiniteSets

CONSTANTS
  Thread,   \* the threads of the web server
  MaxUID,   \* bound: the largest uid handed out, or named by a request
  Ops,      \* the operations the threads are asked for
  Reserve,  \* how many subdirectories a new directory has room for: 16
  UnlockedAlone, \* TRUE: no request ever overlaps an operation without a lock
  NoOwner   \* the lock is free

ASSUME MaxUIDAssumption == MaxUID \in Nat
ASSUME ReserveAssumption == Reserve \in Nat
ASSUME UnlockedAloneAssumption == UnlockedAlone \in BOOLEAN
ASSUME NoOwnerAssumption == NoOwner \notin Thread

VARIABLES
  entries,    \* the tree
  nextUID,    \* UID of FileID.cpp, incremented under a lock of its own
  lock,       \* StorageEndpoint::lock: its owner or NoOwner
  pc,         \* pc[t]: where thread t is in its operation
  req,        \* req[t]: the request it serves
  found,      \* found[t]: the pointer to a directory its search returned
  overlapped, \* overlapped[t]: another thread was in what t is searching or changing
  torn,       \* history: directories that grew while another thread changed them
  reply       \* reply[t]: the result of its last operation

vars == <<entries, nextUID, lock, pc, req, found, overlapped, torn, reply>>

\* The same state, read as that of an endpoint whose operations are atomic.
stage == [t \in Thread |-> CASE pc[t] = "idle" -> "idle"
                             [] pc[t] = "done" -> "done"
                             [] OTHER -> "called"]
Atomic == INSTANCE AtomicEndpoint
            WITH entries <- entries, nextUID <- nextUID, stage <- stage, req <- req, reply <- reply

PC == {"idle", "lock", "enter", "search", "apply", "emplace", "erase", "done"}

CreateOp == Atomic!CreateOp
LookupOp == Atomic!LookupOp
DeleteOp == {"fileDelete", "dirDelete"}
Request  == Atomic!Request
Plain(s) == Atomic!Plain(s)

UnlockedOp_Deletes == {"dirCreate", "dirDelete", "revert"}

\* What does not take the lock.
UnlockedOp == {"dirCreate", "revert"}

Busy(t)     == pc[t] \notin {"idle", "done"}
Unlocked(t) == req[t].op \in UnlockedOp
Holds(t)    == ~Unlocked(t) /\ pc[t] \in {"enter", "search", "apply", "erase"}

\* Pointers to directories: the vector they point into, by its owner, and the slot.
Pointer == [vector : Nat, slot : Nat]
RootPtr == [vector |-> NULL, slot |-> Root]
NoPtr   == [vector |-> NULL, slot |-> NULL]

\* The directories of a vector are in the order of their uids.
Slot(fs, d) == Cardinality({x \in Vector(fs, d.parent) : x.id < d.id})

PointerTo(fs, uid) ==
  IF uid = Root THEN RootPtr
  ELSE LET d == CHOOSE e \in fs : e.id = uid /\ e.directory
       IN  [vector |-> d.parent, slot |-> Slot(fs, d)]

\* The directory a pointer names when it is used: the root, one of the tree, or none.
At(fs, p) ==
  LET there == {d \in Vector(fs, p.vector) : Slot(fs, d) = p.slot}
  IN  CASE p = RootPtr -> Root
        [] p # RootPtr /\ there # {} -> (CHOOSE d \in there : TRUE).id
        [] OTHER -> NULL

Dir(t) == At(entries, found[t])

\* The threads in the middle of an erase_if on directory dir: on its vector of
\* directories (dirDelete) or of files (revert).
Erasing(op, dir) == {u \in Thread : pc[u] = "erase" /\ req[u].op = op /\ Dir(u) = dir}

\* Bound: creations are only asked for while uids are left for all of them.
UIDsLeft(r) ==
  r.op \in CreateOp =>
    nextUID + Cardinality({t \in Thread : Busy(t) /\ req[t].op \in CreateOp}) <= MaxUID

Init ==
  /\ entries = InitialTree
  /\ nextUID = Root + 2
  /\ lock = NoOwner
  /\ pc = [t \in Thread |-> "idle"]
  /\ req = [t \in Thread |-> Atomic!NoReq]
  /\ found = [t \in Thread |-> NoPtr]
  /\ overlapped = [t \in Thread |-> FALSE]
  /\ torn = {}
  /\ reply = [t \in Thread |-> Atomic!NoReply]

-----------------------------------------------------------------------------
(* Calls, the lock, and returns.                                           *)

\* Whether the clients' requests may overlap as a call of r by t would.
MayOverlap(t, r) ==
  UnlockedAlone =>
    \A u \in Thread \ {t} : Busy(u) => r.op \notin UnlockedOp /\ ~Unlocked(u)

\* An upload takes back the file that it created, in the directory it created
\* it in, and does so once.
MayRevert(t, r) ==
  r.op = "revert" =>
    /\ r.id < r.file /\ Root + 1 < r.file /\ r.file < nextUID
    /\ \A e \in entries : e.id = r.file => ~e.directory /\ e.parent = r.id
    /\ \A u \in Thread \ {t} : req[u].op = "revert" => req[u].file # r.file

Call(t, r) ==
  /\ pc[t] = "idle"
  /\ r.op \in Ops
  /\ UIDsLeft(r)
  /\ MayOverlap(t, r)
  /\ MayRevert(t, r)
  /\ pc' = [pc EXCEPT ![t] = IF r.op \in UnlockedOp THEN "enter" ELSE "lock"]
  /\ req' = [req EXCEPT ![t] = r]
  /\ UNCHANGED <<entries, nextUID, lock, found, overlapped, torn, reply>>

Lock(t) ==
  /\ pc[t] = "lock"
  /\ lock = NoOwner
  /\ lock' = t
  /\ pc' = [pc EXCEPT ![t] = "enter"]
  /\ UNCHANGED <<entries, nextUID, req, found, overlapped, torn, reply>>

Leave_Locked(t, a) ==
  /\ pc' = [pc EXCEPT ![t] = "done"]
  /\ reply' = [reply EXCEPT ![t] = a]
  /\ UNCHANGED <<lock, req>>

\* The method returns: the guard's destructor releases the lock.
Leave(t, a) ==
  /\ pc' = [pc EXCEPT ![t] = "done"]
  /\ reply' = [reply EXCEPT ![t] = a]
  /\ lock' = IF Unlocked(t) THEN lock ELSE NoOwner
  /\ UNCHANGED req

Finish(t, a) ==
  /\ Leave(t, a)
  /\ found' = [found EXCEPT ![t] = NoPtr]

Refuse(t, status) ==
  /\ Finish(t, Plain(status))
  /\ UNCHANGED <<entries, nextUID, overlapped, torn>>

Return(t) ==
  /\ pc[t] = "done"
  /\ pc' = [pc EXCEPT ![t] = "idle"]
  /\ req' = [req EXCEPT ![t] = Atomic!NoReq]
  /\ reply' = [reply EXCEPT ![t] = Atomic!NoReply]
  /\ overlapped' = [overlapped EXCEPT ![t] = FALSE]
  /\ UNCHANGED <<entries, nextUID, lock, found, torn>>

-----------------------------------------------------------------------------
(* The search each method starts with.                                     *)

\* The operations that start with findDir; the others look for an entry.
DirOp == CreateOp \union {"dirGetEntries", "revert"}

Find(fs, r) ==
  CASE r.op \in DirOp -> findDir(fs, r.id)
    [] r.op \in DeleteOp -> findContainingDir(fs, r.id)
    [] r.op \in LookupOp -> findFile(fs, r.id)

Missing_Unknown(r) == "ERR_NO_SUCH_ENTRY"

\* The destructor only logs that the directory is gone.
Missing(r) ==
  CASE r.op \in LookupOp -> "ERR_NO_SUCH_FILE"
    [] r.op = "revert" -> "OK"
    [] OTHER -> "ERR_NO_SUCH_DIR"

Named(r)    == r.op \in CreateOp => r.name \in ValidName
RootOnly(r) == r.op \in DirOp /\ r.id = Root

InvalidName(t) ==
  /\ pc[t] = "enter"
  /\ ~Named(req[t])
  /\ Refuse(t, "ERR_INVALID_FILE_NAME")

\* findDir answers the root at once and leaves the iteration cache alone.
FindRoot(t) ==
  /\ pc[t] = "enter"
  /\ Named(req[t])
  /\ RootOnly(req[t])
  /\ pc' = [pc EXCEPT ![t] = "apply"]
  /\ found' = [found EXCEPT ![t] = RootPtr]
  /\ UNCHANGED <<entries, nextUID, lock, req, overlapped, torn, reply>>

Searching == {t \in Thread : pc[t] = "search"}

\* Whether what u erases is walked by the search of t: findDir looks at no files.
Walks(t, u) == req[u].op = "revert" => req[t].op \notin DirOp

BeginSearch(t) ==
  /\ pc[t] = "enter"
  /\ Named(req[t])
  /\ ~RootOnly(req[t])
  /\ pc' = [pc EXCEPT ![t] = "search"]
  /\ overlapped' = [u \in Thread |->
                      CASE u = t -> \/ Searching # {}
                                    \/ \E v \in Thread : pc[v] = "erase" /\ Walks(t, v)
                        [] u \in Searching -> TRUE
                        [] OTHER -> overlapped[u]]
  /\ UNCHANGED <<entries, nextUID, lock, req, found, torn, reply>>

\* A file that is found is only read.
FindsIt(t) ==
  LET uid == Find(entries, req[t])
  IN  /\ pc[t] = "search"
      /\ uid # NULL
      /\ pc' = [pc EXCEPT ![t] = "apply"]
      /\ found' = [found EXCEPT ![t] = IF req[t].op \in LookupOp THEN NoPtr
                                       ELSE PointerTo(entries, uid)]
      /\ UNCHANGED <<entries, nextUID, lock, req, overlapped, torn, reply>>

\* It is not there, or another thread disturbed the iteration.
MissesIt(t) ==
  /\ pc[t] = "search"
  /\ Find(entries, req[t]) = NULL \/ overlapped[t]
  /\ Refuse(t, Missing(req[t]))

-----------------------------------------------------------------------------
(* The effects: an action per method, two where another thread can come in *)
(* between.                                                                *)

\* Each thread of met is told that another one changed what it is changing.
Tell(met) == overlapped' = [u \in Thread |-> overlapped[u] \/ u \in met]

\* emplace_back on a vector of t's directory that the threads of met change too.
Append(t, tree, met) ==
  /\ \/ Dir(t) # NULL /\ entries' = tree
     \/ (Dir(t) = NULL \/ met # {}) /\ UNCHANGED entries
  /\ nextUID' = nextUID + 1

FileCreate_SameUID(t) ==
  LET dir == Dir(t)  name == req[t].name
  IN  /\ pc[t] = "apply" /\ req[t].op = "fileCreate"
      /\ ~fileNameExists(entries, dir, name)
      /\ entries' = fileAdd(entries, dir, name, nextUID)
      /\ Finish(t, [Plain("OK") EXCEPT !.id = nextUID])
      /\ UNCHANGED <<nextUID, overlapped, torn>>

\* The names are read while a revert may be moving the files.
FileCreate(t) ==
  LET dir == Dir(t)  name == req[t].name
      met == Erasing("revert", dir)
  IN  /\ pc[t] = "apply" /\ req[t].op = "fileCreate"
      /\ \/ /\ fileNameExists(entries, dir, name)
            /\ Refuse(t, "ERR_NO_UNIQUE_NAME")
         \/ /\ ~fileNameExists(entries, dir, name) \/ met # {}
            /\ Append(t, fileAdd(entries, dir, name, nextUID), met)
            /\ Tell(met)
            /\ torn' = IF met = {} THEN torn ELSE torn \union {dir}
            /\ Finish(t, [Plain("OK") EXCEPT !.id = nextUID])

\* Two changes of the files of t's directory at one time, one an erasure.
Garble(t) == \E lost \in SUBSET Files(entries, Dir(t)) : entries' = entries \ lost

FileDelete(t) ==
  LET gone == fileDelete(entries, Dir(t), req[t].id)
      met  == Erasing("revert", Dir(t))
  IN  /\ pc[t] = "apply" /\ req[t].op = "fileDelete"
      /\ \/ gone = {} /\ Refuse(t, "ERR_UNSUCCESSFUL")
         \/ /\ gone # {}
            /\ \/ entries' = entries \ gone
               \/ met # {} /\ Garble(t)
            /\ Tell(met)
            /\ Finish(t, Plain("OK"))
            /\ UNCHANGED <<nextUID, torn>>

\* An erase_if has found what to erase and moves what comes after it.
StartErase(t) ==
  /\ pc' = [pc EXCEPT ![t] = "erase"]
  /\ overlapped' = [u \in Thread |-> /\ u # t
                                     /\ overlapped[u] \/ (u \in Searching /\ Walks(u, t))]
  /\ UNCHANGED <<entries, nextUID, lock, req, found, torn, reply>>

\* dirDelete asks whether the directory is empty before it erases it.
DirTest(t) ==
  LET gone == dirDelete(entries, Dir(t), req[t].id)
  IN  /\ pc[t] = "apply" /\ req[t].op = "dirDelete"
      /\ \/ gone = {} /\ Refuse(t, "ERR_UNSUCCESSFUL")
         \/ gone # {} /\ StartErase(t)

\* The directory goes with all that it holds by now.  Pointers into it dangle,
\* those into the vector it was in name another slot.
DirErase(t) ==
  /\ pc[t] = "erase" /\ req[t].op = "dirDelete"
  /\ \/ \E e \in Vector(entries, Dir(t)) :
          LET gone == Subtree(entries, e)
          IN  /\ e.id = req[t].id
              /\ entries' = entries \ gone
              /\ found' = [u \in Thread |->
                             IF u = t \/ \E d \in gone : found[u].vector = d.id
                               THEN NoPtr ELSE found[u]]
              /\ Tell({u \in Thread : pc[u] = "emplace" /\ found[u].vector = e.parent})
     \/ /\ overlapped[t] \/ \A e \in Vector(entries, Dir(t)) : e.id # req[t].id
        /\ found' = [found EXCEPT ![t] = NoPtr]
        /\ UNCHANGED <<entries, overlapped>>
  /\ Leave(t, Plain("OK"))
  /\ UNCHANGED <<nextUID, torn>>

\* ~WriteFileTransaction: the file is looked for in the directory, then erased.
RevertTest(t) ==
  LET gone == fileDelete(entries, Dir(t), req[t].file)
  IN  /\ pc[t] = "apply" /\ req[t].op = "revert"
      /\ \/ gone = {} /\ Refuse(t, "OK")
         \/ gone # {} /\ StartErase(t)

RevertErase(t) ==
  /\ pc[t] = "erase" /\ req[t].op = "revert"
  /\ \/ entries' = entries \ fileDelete(entries, Dir(t), req[t].file)
     \/ overlapped[t] /\ Garble(t)
  /\ Tell(Erasing("revert", Dir(t)))
  /\ Finish(t, Plain("OK"))
  /\ UNCHANGED <<nextUID, torn>>

\* fileWrite, fileRead and infoFile: the file exists, nothing changes.
Lookup(t) ==
  /\ pc[t] = "apply" /\ req[t].op \in LookupOp
  /\ Refuse(t, "OK")

DirGetEntries(t) ==
  /\ pc[t] = "apply" /\ req[t].op = "dirGetEntries"
  /\ Finish(t, [Plain("OK") EXCEPT !.listing = collectEntries(entries, Dir(t))])
  /\ UNCHANGED <<entries, nextUID, overlapped, torn>>

\* dirCreate asks for the name and adds the directory in two steps: there is
\* no lock to keep another thread out in between.
DirNameCheck(t) ==
  LET exists == dirNameExists(entries, Dir(t), req[t].name)
      met    == Erasing("dirDelete", Dir(t))
  IN  /\ pc[t] = "apply" /\ req[t].op = "dirCreate"
      /\ \/ exists /\ Refuse(t, "ERR_NO_UNIQUE_NAME")
         \/ /\ ~exists \/ met # {}
            /\ pc' = [pc EXCEPT ![t] = "emplace"]
            /\ overlapped' = [overlapped EXCEPT ![t] = met # {}]
            /\ UNCHANGED <<entries, nextUID, lock, req, found, torn, reply>>

\* The append moves the vector when it is full, which one that has grown before
\* need not be: searches under way are disturbed and pointers into it dangle.
DirEmplace(t) ==
  LET dir == Dir(t)
      met == Erasing("dirDelete", dir)
               \union {u \in Thread \ {t} : pc[u] = "emplace" /\ Dir(u) = dir}
  IN  /\ pc[t] = "emplace" /\ req[t].op = "dirCreate"
      /\ Append(t, dirAdd(entries, dir, req[t].name, nextUID), met)
      /\ torn' = IF met = {} /\ ~overlapped[t] THEN torn ELSE torn \union {dir}
      /\ Leave(t, Plain("OK"))
      /\ \/ /\ found' = [found EXCEPT ![t] = NoPtr]
            /\ Tell(met)
         \/ /\ entries' # entries
            /\ Cardinality(Vector(entries, dir)) >= Reserve
            /\ found' = [u \in Thread |->
                           IF u = t \/ found[u].vector = dir THEN NoPtr ELSE found[u]]
            /\ Tell(met \union Searching)

-----------------------------------------------------------------------------

Step(t) ==
  \/ Lock(t)
  \/ InvalidName(t) \/ FindRoot(t) \/ BeginSearch(t) \/ FindsIt(t) \/ MissesIt(t)
  \/ FileCreate(t) \/ FileDelete(t) \/ DirTest(t) \/ DirErase(t)
  \/ RevertTest(t) \/ RevertErase(t)
  \/ Lookup(t) \/ DirGetEntries(t)
  \/ DirNameCheck(t) \/ DirEmplace(t)
  \/ Return(t)

Next == \E t \in Thread : Step(t) \/ \E r \in Request : Call(t, r)

Spec == Init /\ [][Next]_vars

\* A thread that has a request keeps running; nobody owes it the spinlock.
FairSpec == Spec /\ \A t \in Thread : WF_vars(Step(t))

-----------------------------------------------------------------------------
(* Properties.                                                             *)

TypeOK ==
  /\ entries \subseteq Entry
  /\ nextUID \in Nat
  /\ lock \in Thread \union {NoOwner}
  /\ pc \in [Thread -> PC]
  /\ req \in [Thread -> Request]
  /\ found \in [Thread -> Pointer]
  /\ overlapped \in [Thread -> BOOLEAN]
  /\ torn \subseteq Nat
  /\ reply \in [Thread -> Atomic!Reply]

\* The lock is owned exactly while a method that takes it runs, whatever path
\* the method leaves by, and what runs without it does not disturb that.
LockInv == \A t \in Thread : lock = t <=> Holds(t)

\* VirtualFilesystem.h:12: "File names must be unique per directory".  Whatever
\* overlaps, two files of a directory come to have one name only where a file
\* was added while the destructor of an upload was erasing another.
FileNamesUnique ==
  \A e, f \in entries :
    /\ ~e.directory /\ ~f.directory
    /\ e.parent = f.parent /\ e.parent \notin torn
    /\ e.name = f.name
    => e = f

\* The same of directories, which dirAdd sets out to ensure (VirtualDirectory.cpp:133):
\* dirCreate leaves two of one name only where it met another dirCreate or
\* a dirDelete, not by any path of a dirCreate that others only surround.
DirNamesUnique ==
  \A e, f \in entries :
    /\ e.directory /\ f.directory
    /\ e.parent = f.parent /\ e.parent \notin torn
    /\ e.name = f.name
    => e = f

\* No uid is given twice, and none that is in the tree is given again.
UIDsUnique ==
  /\ Root < nextUID
  /\ \A e, f \in entries : e.id = f.id => e = f
  /\ \A e \in entries : Root < e.id /\ e.id < nextUID

\* Some directory has more subdirectories than a new one has room for.
Grown == \E e \in entries : Cardinality(Vector(entries, e.parent)) > Reserve

\* A method that holds the lock works through a pointer to the directory its
\* client named, or that holds the entry it named, however many dirCreates and
\* reverts run at the same time -- as long as no vector has outgrown what was
\* reserved for it.
PointersLive ==
  \A t \in Thread :
    Holds(t) /\ pc[t] \in {"apply", "erase"} /\ req[t].op \notin LookupOp =>
      \/ Grown
      \/ Dir(t) # NULL /\ Find(entries, req[t]) \in {Dir(t), NULL}

\* Thread t, which owns the lock, now acknowledges the deletion of entry e.
Deletes(t, e) ==
  /\ lock = t
  /\ req[t].id = e.id
  /\ req[t].op = IF e.directory THEN "dirDelete" ELSE "fileDelete"
  /\ pc'[t] = "done" /\ reply'[t].status = "OK"

\* Thread t now ends the revert of the upload of e.
Reverts(t, e) ==
  req[t].op = "revert" /\ req[t].file = e.id /\ pc[t] = "erase" /\ pc'[t] = "done"

\* Thread t is erasing a file next to e while another thread changes the files of
\* the same directory.
Collides(t, e) ==
  /\ req[t].op = "revert" /\ pc[t] = "erase" /\ Dir(t) = e.parent
  /\ overlapped[t] \/ pc'[t] = "erase"

\* A file only disappears by an acknowledged deletion of that very file under
\* the lock, by the end of its own upload, or where the end of an upload to its
\* directory met another change of the files there: never with a directory, and
\* never because of what happens in another one.  A directory only does by an
\* acknowledged deletion of it or of one that it lies in.
OnlyDeletionsRemove ==
  [][\A e \in entries \ entries' :
       \/ \E t \in Thread : Deletes(t, e)
       \/ ~e.directory /\ \E t \in Thread : Reverts(t, e) \/ Collides(t, e)
       \/ e.directory /\ \E t \in Thread, d \in entries :
            d.directory /\ Deletes(t, d) /\ e \in Subtree(entries, d)]_vars

\* docs/implementation/Filesystem.md:17: "All operations in the VFS are atomic
\* and instant".  Every execution of the endpoint is one of AtomicEndpoint.
AtomicVFS == Atomic!Spec

\* Whenever a thread waits for the endpoint some thread gets its answer: no
\* path of any method leaves the lock behind.  (Which thread, the spinlock
\* does not say.)
Progress == (\E t \in Thread : Busy(t)) ~> (\E t \in Thread : pc[t] = "done")

=============================================================================
