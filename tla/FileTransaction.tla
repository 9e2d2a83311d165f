-------------------------- MODULE FileTransaction --------------------------
(***************************************************************************)
(* Uploads, downloads and deletions of files over HTTP: the handlers of    *)
(* FileUpload, FileDownload and FileDelete, the transactions they create,  *)
(* and what those do to the tree and to the disk.                          *)
(*                                                                         *)
(* A transaction lives in the callbacks of its response (onData,           *)
(* onWritable); its destructor runs when uWebSockets drops them.  The      *)
(* server has several threads: handlers of different connections           *)
(* interleave at every call into the endpoint or the datastore.  A call    *)
(* into the endpoint is one step: that is what AtomicityCorrect of         *)
(* StorageEndpointProofs shows when nothing that takes no lock overlaps    *)
(* it.  The destructor is such a one; here it takes its file out of the    *)
(* tree in one step too, and StorageEndpoint has what may happen instead.  *)
(* Directories play no part: every file lies in the root.                  *)
(*                                                                         *)
(* What the destructor defers until after it ran still uses the            *)
(* transaction; here it answers the client the transaction was for, and an *)
(* execution in which it finds other memory there is one with a Crash.     *)
(*                                                                         *)
(* The process dies by Crash, or when a destructor uses the null datastore *)
(* of a transaction that fileWrite or fileRead refused to initialise.  The *)
(* tree and the uid counter live in memory only, the files stay on disk.   *)
(*                                                                         *)
(* uWebSockets is external: it delivers the chunks of a body in order, the *)
(* last one marked, drops onData after it, and drops a connection that     *)
(* closes, or whose body is awaited for too long.  A download that has met *)
(* a full client may stay as long as that client does.                     *)
(***************************************************************************)
EXTENDS VirtualFilesystem, LocalFileSystem

CONSTANTS
  Backpressure,  \* TRUE: a write to a client may report that it is full
  MaxRestarts    \* bound: how often the server is started again

ASSUME BackpressureAssumption == Backpressure \in BOOLEAN
ASSUME MaxRestartsAssumption == MaxRestarts \in Nat
ASSUME RootNotUploaded == Root \notin UID /\ Root + 1 \in UID

VARIABLES
  entries,   \* the tree of the endpoint
  nextUID,   \* the uid counter
  alive,     \* the process runs
  restarts,  \* how often it was started again
  pc,        \* pc[c]: the call connection c's handler makes next, or what it awaits
  file,      \* file[c]: the file of c's transaction
  sent,      \* sent[c]: the chunks of the body delivered by c
  answer,    \* answer[c]: the status the client of c was sent first
  got,       \* got[c]: the body the client of c was sent
  outcome,   \* outcome[f]: how the upload of f in this run ended (history)
  before     \* before[f]: disk[f] when that upload began (history)

treeVars == <<entries, nextUID>>
ghosts   == <<outcome, before>>
connVars == <<pc, file, sent, answer, got>>
vars == <<storeVars, treeVars, alive, restarts, connVars, ghosts>>

UploadPC   == {"fileWrite", "createFile", "initWrite", "receiving", "unlink", "rename",
               "revertVFS", "closeWrite", "deleteFile"}
DownloadPC == {"initRead", "infoFile", "reading", "held", "finishRead", "closeRead"}

Each(x) == [c \in Conn |-> x]

Init ==
  /\ StoreInit
  /\ entries = InitialTree
  /\ nextUID = Root + 2
  /\ alive = TRUE
  /\ restarts = 0
  /\ pc = Each("idle") /\ file = Each(NoFile) /\ sent = Each(0)
  /\ answer = Each("none") /\ got = Each(<< >>)
  /\ outcome = [f \in UID |-> "none"]
  /\ before = [f \in UID |-> Absent]

-----------------------------------------------------------------------------
(* Parts of the actions.                                                   *)

At(c, label)  == alive /\ pc[c] = label
Goto(c, label) == pc' = [pc EXCEPT ![c] = label]

\* Only the first end of a response reaches the client.
Answer(c, status) ==
  answer' = [answer EXCEPT ![c] = IF @ = "none" THEN status ELSE @]

\* The transaction of an upload is over: how the client sees it.
Ended(c, committed) ==
  /\ Goto(c, "idle")
  /\ outcome' = [outcome EXCEPT ![file[c]] =
                   IF committed /\ answer[c] = "none" THEN "stored" ELSE "refused"]
  /\ UNCHANGED before

\* The process is gone, and everything in its memory with it.
Die ==
  /\ alive' = FALSE
  /\ pc' = Each("idle") /\ file' = Each(NoFile) /\ sent' = Each(0)
  /\ answer' = Each("none") /\ got' = Each(<< >>)
  /\ entries' = InitialTree
  /\ nextUID' = Root + 2
  /\ wh' = Each(NewWriteHandle) /\ rh' = Each(NewReadHandle) /\ taken' = {}
  /\ outcome' = [f \in UID |-> IF outcome[f] = "uploading" THEN "none" ELSE outcome[f]]
  /\ UNCHANGED <<disk, temp, faults, restarts, before>>

-----------------------------------------------------------------------------
(* Uploads.                                                                *)

\* FileUploadEndpoint: the file is in the tree before any of its data is here.
BeginUpload(c, name) ==
  /\ At(c, "idle")
  /\ \/ /\ fileNameExists(entries, Root, name)
        /\ answer' = [answer EXCEPT ![c] = "400"]
        /\ UNCHANGED <<storeVars, treeVars, pc, file, sent, ghosts>>
     \/ /\ ~fileNameExists(entries, Root, name)
        /\ nextUID \in UID
        /\ entries' = fileAdd(entries, Root, name, nextUID)
        /\ nextUID' = nextUID + 1
        /\ Goto(c, "fileWrite")
        /\ file' = [file EXCEPT ![c] = nextUID]
        /\ sent' = [sent EXCEPT ![c] = 0]
        /\ answer' = [answer EXCEPT ![c] = "none"]
        /\ wh' = [wh EXCEPT ![c] = NewWriteHandle]
        /\ outcome' = [outcome EXCEPT ![nextUID] = "uploading"]
        /\ before' = [before EXCEPT ![nextUID] = disk[nextUID]]
        /\ UNCHANGED <<disk, temp, rh, taken, faults>>
  /\ got' = [got EXCEPT ![c] = << >>]
  /\ UNCHANGED <<alive, restarts>>

\* When the file has been deleted since, the transaction is never initialised
\* and its destructor calls a method of no datastore.
FileWrite(c) ==
  /\ At(c, "fileWrite")
  /\ \/ /\ findFile(entries, file[c]) # NULL
        /\ Goto(c, "createFile")
        /\ UNCHANGED <<storeVars, treeVars, alive, restarts, file, sent, answer, got, ghosts>>
     \/ findFile(entries, file[c]) = NULL /\ Die

\* WriteFileTransaction::start makes two calls; either failing ends the handler.
Start(c, ok, next) ==
  /\ Goto(c, IF ok THEN next ELSE "revertVFS")
  /\ IF ok THEN UNCHANGED answer ELSE Answer(c, "400")
  /\ UNCHANGED <<treeVars, alive, restarts, file, sent, got, ghosts>>

CreateFile(c) ==
  /\ At(c, "createFile")
  /\ \E ok \in BOOLEAN : createFile(file[c], ok) /\ Start(c, ok, "initWrite")

InitWrite(c) ==
  /\ At(c, "initWrite")
  /\ \E ok \in BOOLEAN : initWrite(c, file[c], ok) /\ Start(c, ok, "receiving")

\* onData.  After a chunk that fails the connection stays open and the next
\* ones are written; the last one alone decides whether to commit.
OnData(c) ==
  LET chunk == sent[c] + 1
      last  == chunk = Chunks
  IN  /\ At(c, "receiving")
      /\ sent' = [sent EXCEPT ![c] = chunk]
      /\ \E ok \in BOOLEAN :
           /\ writeFile(c, chunk, last, ok)
           /\ IF ok THEN UNCHANGED answer ELSE Answer(c, "400")
           /\ Goto(c, CASE ~last -> "receiving"
                        [] last /\ ok -> "unlink"
                        [] last /\ ~ok -> "revertVFS")
      /\ UNCHANGED <<treeVars, alive, restarts, file, got, ghosts>>

\* The client hangs up, or sends nothing of its body for too long: the callbacks
\* go, and the transaction they hold.
HangUp(c) ==
  /\ \/ At(c, "receiving") /\ Goto(c, "revertVFS")
     \/ At(c, "held") /\ Goto(c, "closeRead")
  /\ UNCHANGED <<storeVars, treeVars, alive, restarts, file, sent, answer, got, ghosts>>

\* WriteFileTransaction::commit looks at no result ...
CommitUnlink(c) ==
  /\ At(c, "unlink")
  /\ \E ok \in BOOLEAN : closeWriteUnlink(c, ok)
  /\ Goto(c, "rename")
  /\ UNCHANGED <<treeVars, alive, restarts, file, sent, answer, got, ghosts>>

CommitRename_ThenReverts(c) ==
  /\ At(c, "rename")
  /\ \E ok \in BOOLEAN : closeWriteRename(c, ok)
  /\ Answer(c, "200")
  /\ Goto(c, "revertVFS")
  /\ UNCHANGED <<treeVars, alive, restarts, file, sent, got, ghosts>>

\* ... and the destructor that follows answers 200.
CommitRename(c) ==
  /\ At(c, "rename")
  /\ \E ok \in BOOLEAN : closeWriteRename(c, ok)
  /\ Answer(c, "200")
  /\ Ended(c, TRUE)
  /\ UNCHANGED <<treeVars, alive, restarts, file, sent, got>>

\* The destructor of a transaction that was not committed, call by call.
RevertVFS(c) ==
  /\ At(c, "revertVFS")
  /\ entries' = entries \ fileDelete(entries, Root, file[c])
  /\ Goto(c, "closeWrite")
  /\ UNCHANGED <<storeVars, nextUID, alive, restarts, file, sent, answer, got, ghosts>>

RevertWrite(c) ==
  /\ At(c, "closeWrite")
  /\ \E ok \in BOOLEAN : closeWriteRevert(c, ok)
  /\ Goto(c, "deleteFile")
  /\ UNCHANGED <<treeVars, alive, restarts, file, sent, answer, got, ghosts>>

RevertFile(c) ==
  /\ At(c, "deleteFile")
  /\ \E ok \in BOOLEAN : deleteFile(file[c], ok)
  /\ Ended(c, FALSE)
  /\ UNCHANGED <<treeVars, alive, restarts, file, sent, answer, got>>

-----------------------------------------------------------------------------
(* Deletions: the tree forgets the file, the datastore is not told.        *)

FileDelete(c, f) ==
  /\ At(c, "idle")
  /\ entries' = entries \ fileDelete(entries, Root, f)
  /\ answer' = [answer EXCEPT ![c] = IF entries' = entries THEN "400" ELSE "200"]
  /\ got' = [got EXCEPT ![c] = << >>]
  /\ UNCHANGED <<storeVars, nextUID, alive, restarts, pc, file, sent, ghosts>>

-----------------------------------------------------------------------------
(* Downloads.                                                              *)

\* FileDownloadEndpoint: fileRead initialises the transaction when the file is
\* there; if not, its destructor calls a method of no datastore.
BeginDownload(c, f) ==
  /\ At(c, "idle")
  /\ \/ /\ findFile(entries, f) # NULL
        /\ Goto(c, "initRead")
        /\ file' = [file EXCEPT ![c] = f]
        /\ answer' = [answer EXCEPT ![c] = "none"]
        /\ got' = [got EXCEPT ![c] = << >>]
        /\ rh' = [rh EXCEPT ![c] = NewReadHandle]
        /\ UNCHANGED <<disk, temp, wh, taken, faults, treeVars, alive, restarts, sent, ghosts>>
     \/ findFile(entries, f) = NULL /\ Die

InitRead_Waits(c) ==
  /\ At(c, "initRead")
  /\ disk[file[c]] # Absent => taken # Buffer
  /\ \E ok \in BOOLEAN :
       /\ initRead(c, file[c], ok)
       /\ Goto(c, IF ok THEN "infoFile" ELSE "closeRead")
       /\ IF ok THEN UNCHANGED answer ELSE Answer(c, "400")
  /\ UNCHANGED <<treeVars, alive, restarts, file, sent, got, ghosts>>

InitRead(c) ==
  /\ At(c, "initRead")
  /\ \E ok \in BOOLEAN :
       /\ initRead(c, file[c], ok)
       /\ Goto(c, IF ok THEN "infoFile" ELSE "closeRead")
       /\ IF ok THEN UNCHANGED answer ELSE Answer(c, "400")
  /\ UNCHANGED <<treeVars, alive, restarts, file, sent, got, ghosts>>

InfoFile(c) ==
  /\ At(c, "infoFile")
  /\ \/ /\ findFile(entries, file[c]) # NULL
        /\ Goto(c, "reading")
        /\ UNCHANGED answer
     \/ /\ findFile(entries, file[c]) = NULL
        /\ Goto(c, "closeRead")
        /\ Answer(c, "400")
  /\ UNCHANGED <<storeVars, treeVars, alive, restarts, file, sent, got, ghosts>>

\* One turn of the loop in ReadFileTransaction::readFile.  A failed read ends
\* the response; a client that is full sets canReadMore to FALSE, for good.
\* In both cases onWritable holds the transaction until the client hangs up.
\* What onWritable may still read after a failed read goes to a response that
\* is over, and is left out.
Read(c) ==
  /\ At(c, "reading")
  /\ \E ok \in BOOLEAN :
       /\ readFile(c, ok)
       /\ got' = [got EXCEPT ![c] = IF ok THEN @ \o nextChunk(c) ELSE @]
       /\ \/ ~ok /\ Answer(c, "400") /\ Goto(c, "held")
          \/ ok /\ atLast(c) /\ Answer(c, "200") /\ Goto(c, "finishRead")
          \/ ok /\ ~atLast(c) /\ UNCHANGED <<answer, pc>>
          \/ ok /\ ~atLast(c) /\ Backpressure /\ UNCHANGED answer /\ Goto(c, "held")
  /\ UNCHANGED <<treeVars, alive, restarts, file, sent, ghosts>>

\* closeRead: after the last chunk, and in the destructor.
CloseRead(c) ==
  /\ At(c, "finishRead") \/ At(c, "closeRead")
  /\ closeRead(c)
  /\ Goto(c, "idle")
  /\ UNCHANGED <<treeVars, alive, restarts, file, sent, answer, got, ghosts>>

-----------------------------------------------------------------------------
(* Crashes and restarts.                                                   *)

Crash == alive /\ restarts < MaxRestarts /\ Die

\* The constructor of the endpoint makes the tree anew and counts from 1 again.
Restart ==
  /\ ~alive
  /\ restarts < MaxRestarts
  /\ alive' = TRUE
  /\ restarts' = restarts + 1
  /\ UNCHANGED <<storeVars, treeVars, connVars, ghosts>>

-----------------------------------------------------------------------------

Handler(c) ==
  \/ FileWrite(c) \/ CreateFile(c) \/ InitWrite(c)
  \/ CommitUnlink(c) \/ CommitRename(c)
  \/ RevertVFS(c) \/ RevertWrite(c) \/ RevertFile(c)
  \/ InitRead(c) \/ InfoFile(c) \/ Read(c) \/ CloseRead(c)

Request(c) ==
  \/ \E name \in ValidName : BeginUpload(c, name)
  \/ \E f \in UID : BeginDownload(c, f) \/ FileDelete(c, f)

Next ==
  \/ \E c \in Conn : Handler(c) \/ OnData(c) \/ HangUp(c) \/ Request(c)
  \/ Crash
  \/ Restart

Spec == Init /\ [][Next]_vars

\* A handler runs on; a connection whose body is awaited sends more of it or is
\* closed as idle.  Nobody has to hang up on a download that does not go on:
\* with onWritable installed its connection may stay for ever.
FairSpec ==
  /\ Spec
  /\ \A c \in Conn :
       /\ WF_vars(Handler(c))
       /\ WF_vars(At(c, "receiving") /\ (OnData(c) \/ HangUp(c)))

-----------------------------------------------------------------------------
(* Properties.                                                             *)

TypeOK ==
  /\ StoreTypeOK
  /\ entries \subseteq Entry
  /\ nextUID \in Nat
  /\ alive \in BOOLEAN
  /\ restarts \in 0..MaxRestarts
  /\ pc \in [Conn -> {"idle"} \union UploadPC \union DownloadPC]
  /\ file \in [Conn -> UID \union {NoFile}]
  /\ sent \in [Conn -> 0..Chunks]
  /\ answer \in [Conn -> {"none", "200", "400"}]
  /\ got \in [Conn -> Content]
  /\ outcome \in [UID -> {"none", "uploading", "stored", "refused"}]
  /\ before \in [UID -> Content \union {Absent}]

\* docs/implementation/Filesystem.md:57: "Specific operations either always
\* happen together or not at all".  All of them: an upload that was answered
\* with 200 has left its data, complete, under the name of its target.
StoredWhole ==
  \A f \in UID : outcome[f] = "stored" => disk[f] = Whole /\ temp[f] = Absent

\* ... line 58: "If transaction doesn't finish the state is reverted as if it
\* never happened".  None of them: an upload that was refused, or whose client
\* hung up, leaves no entry, no temporary file, and the disk as it found it.
RevertRestores ==
  \A f \in UID : outcome[f] = "refused" =>
    /\ findFile(entries, f) = NULL
    /\ disk[f] = before[f]
    /\ temp[f] = Absent

\* ... line 58 again: whatever an upload that is reverted has done, the data of
\* a file that was complete before it began is still there.
RevertKeepsData ==
  \A f \in UID : outcome[f] = "refused" /\ before[f] = Whole => disk[f] = Whole

\* A download that ended well is the whole file, or nothing of a file that is
\* still being uploaded (line 72), never a part of it or a mixture, also when
\* the file is deleted, committed or reverted while it is read.
ReadWhole ==
  \A c \in Conn : answer[c] = "200" => got[c] \in {<< >>, Whole}

\* Each read buffer that is taken belongs to exactly one open download and each
\* open download has one: no path leaks a buffer, none gives it to two readers.
BufferInv ==
  /\ \A c \in Conn : rh[c].open =>
       pc[c] \in DownloadPC /\ rh[c].buffer \in taken
  /\ \A c, d \in Conn : rh[c].open /\ rh[d].open /\ rh[c].buffer = rh[d].buffer => c = d
  /\ \A b \in taken : \E c \in Conn : rh[c].open /\ rh[c].buffer = b

\* A temporary file is written by one upload only, and is there until that
\* upload commits or reverts it.
WritersApart ==
  \A c \in Conn : writeValid(c) =>
    /\ wh[c].file = file[c] /\ temp[file[c]] # Absent
    /\ \A d \in Conn : writeValid(d) /\ wh[d].file = file[c] => d = c

\* As long as the server has not been started again nothing that happens later,
\* whatever fails or crashes, touches the data of a file that was committed.
NothingLost ==
  [][restarts' = 0 => \A f \in UID : disk[f] = Whole => disk'[f] = Whole]_vars

\* Every transaction is over some time, its buffer and its files given back,
\* unless it is a download that has met a full client, which stays for as long
\* as that client does (ReadFileTransaction.cpp:47): and no other waits for it,
\* neither for its buffer nor for its file.
Released == \A c \in Conn : []<>(pc[c] \in {"idle", "held"})

=============================================================================
