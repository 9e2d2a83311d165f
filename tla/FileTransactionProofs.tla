----------------------- MODULE FileTransactionProofs -----------------------
(***************************************************************************)
(* Proofs about FileTransaction, for every number of connections, buffers, *)
(* files, faults and restarts.                                             *)
(***************************************************************************)
EXTENDS FileTransaction, SequenceTheorems, TLAPS

USE DEF NoFile, NoBuffer

-----------------------------------------------------------------------------
(* The inductive invariant.                                                *)

\* Uploads in progress have been given different files.
FilesApart ==
  /\ \A c \in Conn : pc[c] \in UploadPC => file[c] \in UID /\ file[c] < nextUID
  /\ \A c, d \in Conn :
       pc[c] \in UploadPC /\ pc[d] \in UploadPC /\ file[c] = file[d] => c = d

WritePC == {"receiving", "unlink", "rename", "revertVFS", "closeWrite"}

\* A write handle is open only between initWrite and closeWrite.
HandlesHeld ==
  \A c \in Conn : wh[c].open =>
    pc[c] \in WritePC /\ wh[c].file = file[c] /\ temp[file[c]] # Absent

BodyPC == {"fileWrite", "createFile", "initWrite", "receiving"}

\* The chunks still to come: of the body of an upload, and of a file read.
ChunksLeft ==
  \A c \in Conn :
    /\ pc[c] \in BodyPC => sent[c] < Chunks
    /\ pc[c] \in {"infoFile", "reading"} =>
         rh[c].data = << >> \/ rh[c].position < Len(rh[c].data)
    /\ pc[c] \in DownloadPC => file[c] \in UID

\* A download has no open handle before it opens one.
NotYetOpen == \A c \in Conn : pc[c] = "initRead" => ~rh[c].open

Inv == TypeOK /\ BufferInv /\ FilesApart /\ HandlesHeld /\ ChunksLeft /\ NotYetOpen

-----------------------------------------------------------------------------
(* The methods of the datastore keep its state well-typed.                 *)

\* Appending a chunk, or the part of it that was written, gives contents.
LEMMA AppendsContent ==
  ASSUME NEW s \in Content, NEW chunk \in 1..Chunks,
         NEW w \in {<<chunk>>, << >>, <<Part(chunk)>>}
  PROVE  s \o w \in Content
<1>1. chunk \in Piece /\ Part(chunk) \in Piece
  BY ChunksAssumption DEF Piece, Part
<1>2. \A p \in Piece : <<p>> \in Seq(Piece)
  OBVIOUS
<1>3. w \in Seq(Piece)
  BY <1>1, <1>2, EmptySeq
<1> QED
  BY <1>3, ConcatProperties DEF Content

\* createFile and deleteFile only put << >> or Absent in place of a target.
LEMMA FilesTyped ==
  ASSUME StoreTypeOK, NEW f \in UID, NEW ok \in BOOLEAN,
         createFile(f, ok) \/ deleteFile(f, ok)
  PROVE  StoreTypeOK'
<1>1. << >> \in Content
  BY EmptySeq DEF Content
<1>2. faults' \in 0..MaxFaults
  BY MaxFaultsAssumption DEF StoreTypeOK, createFile, deleteFile, Result
<1>3. disk' \in [UID -> Content \union {Absent}]
  <2>1. CASE createFile(f, ok)
    BY <1>1, <2>1 DEF createFile, StoreTypeOK
  <2>2. CASE deleteFile(f, ok)
    BY <1>1, <2>2 DEF deleteFile, StoreTypeOK
  <2> QED BY <2>1, <2>2
<1> QED
  BY <1>2, <1>3 DEF StoreTypeOK, createFile, deleteFile

\* The four methods on write handles; writeFile needs the temporary file of
\* an open handle to be there.
LEMMA WritesTyped ==
  ASSUME StoreTypeOK, NEW c \in Conn, NEW f \in UID, NEW ok \in BOOLEAN,
         NEW chunk \in 1..Chunks, NEW last \in BOOLEAN,
         writeValid(c) => temp[wh[c].file] # Absent,
         \/ initWrite(c, f, ok) \/ writeFile(c, chunk, last, ok)
         \/ closeWriteRevert(c, ok) \/ closeWriteUnlink(c, ok) \/ closeWriteRename(c, ok)
  PROVE  StoreTypeOK'
<1>1. << >> \in Content
  BY EmptySeq DEF Content
<1>2. faults' \in 0..MaxFaults
  BY MaxFaultsAssumption
  DEF StoreTypeOK, initWrite, writeFile, closeWriteRevert, closeWriteUnlink,
      closeWriteRename, Result
<1>3. wh[c].file \in UID \union {NoFile}
  BY DEF StoreTypeOK, WriteHandle
<1>4. CASE initWrite(c, f, ok)
  BY <1>1, <1>2, <1>4 DEF initWrite, StoreTypeOK, WriteHandle
<1>5. CASE writeFile(c, chunk, last, ok)
  <2>1. wh' \in [Conn -> WriteHandle]
    BY <1>5 DEF writeFile, StoreTypeOK, WriteHandle
  <2>2. temp' \in [UID -> Content \union {Absent}]
    <3>1. PICK w \in {<<chunk>>, << >>, <<Part(chunk)>>} :
             temp' = [g \in UID |->
                        IF writeValid(c) /\ ~wh[c].done /\ g = wh[c].file
                          THEN temp[g] \o w ELSE temp[g]]
      BY <1>5 DEF writeFile
    <3>2. ASSUME NEW g \in UID, writeValid(c), g = wh[c].file
          PROVE  temp[g] \o w \in Content
      BY <3>2, AppendsContent DEF StoreTypeOK
    <3> QED
      BY <3>1, <3>2 DEF StoreTypeOK
  <2> QED
    BY <1>2, <1>5, <2>1, <2>2 DEF writeFile, StoreTypeOK
<1>6. CASE closeWriteRevert(c, ok)
  BY <1>2, <1>6 DEF closeWriteRevert, Closed, StoreTypeOK, WriteHandle
<1>7. CASE closeWriteUnlink(c, ok)
  BY <1>2, <1>7 DEF closeWriteUnlink, StoreTypeOK
<1>8. CASE closeWriteRename(c, ok)
  BY <1>2, <1>8 DEF closeWriteRename, Closed, StoreTypeOK, WriteHandle
<1> QED
  BY <1>4, <1>5, <1>6, <1>7, <1>8

\* The three methods on read handles.
LEMMA ReadsTyped ==
  ASSUME StoreTypeOK, NEW c \in Conn, NEW f \in UID, NEW ok \in BOOLEAN,
         initRead(c, f, ok) \/ readFile(c, ok) \/ closeRead(c)
  PROVE  StoreTypeOK'
<1>1. << >> \in Content
  BY EmptySeq DEF Content
<1>2. faults' \in 0..MaxFaults
  BY MaxFaultsAssumption DEF StoreTypeOK, initRead, readFile, closeRead, Result
<1>3. CASE initRead(c, f, ok)
  <2>1. CASE UNCHANGED <<rh, taken>>
    BY <1>2, <1>3, <2>1 DEF initRead, StoreTypeOK
  <2>2. CASE disk[f] # Absent /\ TakeBuffer(c, IF ok THEN disk[f] ELSE << >>)
    <3>1. (IF ok THEN disk[f] ELSE << >>) \in Content
      BY <1>1, <2>2 DEF StoreTypeOK
    <3> QED
      BY <1>2, <1>3, <2>2, <3>1 DEF initRead, TakeBuffer, StoreTypeOK, ReadHandle
  <2> QED
    BY <1>3, <2>1, <2>2 DEF initRead
<1>4. CASE readFile(c, ok)
  BY <1>2, <1>4 DEF readFile, StoreTypeOK, ReadHandle
<1>5. CASE closeRead(c)
  BY <1>2, <1>5 DEF closeRead, StoreTypeOK, ReadHandle
<1> QED
  BY <1>3, <1>4, <1>5
-----------------------------------------------------------------------------
(* Types.                                                                  *)

\* What a new endpoint starts from.
LEMMA FreshTypes ==
  /\ InitialTree \subseteq Entry
  /\ Root + 2 \in Nat
  /\ << >> \in Content
  /\ 0 \in 0..Chunks
  /\ Each(NewWriteHandle) \in [Conn -> WriteHandle]
  /\ Each(NewReadHandle) \in [Conn -> ReadHandle]
<1>1. << >> \in Content
  BY EmptySeq DEF Content
<1>2. InitialTree \subseteq Entry
  BY NameAssumption, RootAssumption DEF InitialTree, File, Entry
<1>3. Each(NewReadHandle) \in [Conn -> ReadHandle]
  BY <1>1 DEF Each, NewReadHandle, ReadHandle
<1>4. Each(NewWriteHandle) \in [Conn -> WriteHandle]
  BY DEF Each, NewWriteHandle, WriteHandle
<1> QED
  BY <1>1, <1>2, <1>3, <1>4, RootAssumption, ChunksAssumption

\* The server starts in a well-typed state.
LEMMA TypeInit == Init => TypeOK
BY FreshTypes, MaxFaultsAssumption, MaxRestartsAssumption
   DEF Init, StoreInit, TypeOK, StoreTypeOK, Each

\* When the process dies the disk is as it was and all the rest is fresh.
LEMMA DieTyped ==
  ASSUME TypeOK, Die
  PROVE  TypeOK'
<1>1. StoreTypeOK'
  BY FreshTypes DEF TypeOK, StoreTypeOK, Die
<1> QED
  BY <1>1, FreshTypes DEF TypeOK, Die, Each

\* The chunk a download sends next is a chunk of a file.
LEMMA NextChunkTyped ==
  ASSUME TypeOK, NEW c \in Conn, rh[c].data = << >> \/ rh[c].position < Len(rh[c].data)
  PROVE  nextChunk(c) \in Content
<1>1. rh[c].data \in Seq(Piece) /\ rh[c].position \in Nat
  BY DEF TypeOK, StoreTypeOK, ReadHandle, Content
<1>2. CASE rh[c].data = << >>
  BY <1>2, EmptySeq DEF nextChunk, Content
<1>3. CASE rh[c].data # << >>
  <2>1. rh[c].data[rh[c].position + 1] \in Piece
    BY <1>1, <1>3
  <2> QED
    BY <2>1, <1>3 DEF nextChunk, Content
<1> QED
  BY <1>2, <1>3

\* Every step of a handler keeps the types.
LEMMA HandlerTyped ==
  ASSUME Inv, NEW c \in Conn, Handler(c)
  PROVE  TypeOK'
<1> USE DEF Inv
<1>0. writeValid(c) => temp[wh[c].file] # Absent
  BY DEF HandlesHeld, writeValid
<1>u. pc[c] \in UploadPC \union DownloadPC => file[c] \in UID
  BY DEF FilesApart, ChunksLeft
<1>1. CASE FileWrite(c)
  BY <1>1, DieTyped DEF FileWrite, TypeOK, StoreTypeOK, storeVars, treeVars, ghosts,
                        Goto, At, UploadPC
<1>2. CASE CreateFile(c)
  <2>1. PICK ok \in BOOLEAN : createFile(file[c], ok) /\ Start(c, ok, "initWrite")
    BY <1>2 DEF CreateFile
  <2>2. StoreTypeOK'
    BY <1>2, <2>1, <1>u, FilesTyped DEF CreateFile, At, TypeOK, UploadPC
  <2> QED
    BY <2>1, <2>2 DEF Start, Goto, Answer, TypeOK, treeVars, ghosts, UploadPC
<1>3. CASE InitWrite(c)
  <2>1. PICK ok \in BOOLEAN : initWrite(c, file[c], ok) /\ Start(c, ok, "receiving")
    BY <1>3 DEF InitWrite
  <2>2. StoreTypeOK'
    BY <1>3, <2>1, <1>0, <1>u, ChunksAssumption, WritesTyped
    DEF InitWrite, At, TypeOK, UploadPC
  <2> QED
    BY <2>1, <2>2 DEF Start, Goto, Answer, TypeOK, treeVars, ghosts, UploadPC
<1>4. CASE CommitUnlink(c)
  <2>1. StoreTypeOK'
    BY <1>4, <1>0, <1>u, ChunksAssumption, WritesTyped
    DEF CommitUnlink, At, TypeOK, UploadPC
  <2> QED
    BY <1>4, <2>1 DEF CommitUnlink, Goto, TypeOK, treeVars, ghosts, UploadPC
<1>5. CASE CommitRename(c)
  <2>1. StoreTypeOK'
    BY <1>5, <1>0, <1>u, ChunksAssumption, WritesTyped
    DEF CommitRename, At, TypeOK, UploadPC
  <2> QED
    BY <1>5, <2>1 DEF CommitRename, Ended, Answer, Goto, TypeOK, treeVars
<1>6. CASE RevertVFS(c)
  BY <1>6 DEF RevertVFS, Goto, TypeOK, StoreTypeOK, storeVars, ghosts, UploadPC
<1>7. CASE RevertWrite(c)
  <2>1. StoreTypeOK'
    BY <1>7, <1>0, <1>u, ChunksAssumption, WritesTyped
    DEF RevertWrite, At, TypeOK, UploadPC
  <2> QED
    BY <1>7, <2>1 DEF RevertWrite, Goto, TypeOK, treeVars, ghosts, UploadPC
<1>8. CASE RevertFile(c)
  <2>1. StoreTypeOK'
    BY <1>8, <1>u, FilesTyped DEF RevertFile, At, TypeOK, UploadPC
  <2> QED
    BY <1>8, <2>1 DEF RevertFile, Ended, Goto, TypeOK, treeVars
<1>9. CASE InitRead(c)
  <2>1. StoreTypeOK'
    BY <1>9, <1>u, ReadsTyped DEF InitRead, At, TypeOK, DownloadPC
  <2> QED
    BY <1>9, <2>1 DEF InitRead, Goto, Answer, TypeOK, treeVars, ghosts, DownloadPC
<1>10. CASE InfoFile(c)
  BY <1>10 DEF InfoFile, Goto, Answer, TypeOK, StoreTypeOK, storeVars, treeVars, ghosts,
               DownloadPC
<1>11. CASE Read(c)
  <2>1. StoreTypeOK'
    BY <1>11, <1>u, ReadsTyped DEF Read, At, TypeOK, DownloadPC
  <2>2. nextChunk(c) \in Content
    BY <1>11, NextChunkTyped DEF Read, At, ChunksLeft
  <2>3. got[c] \o nextChunk(c) \in Content
    BY <2>2, ConcatProperties DEF TypeOK, Content
  <2> QED
    BY <1>11, <2>1, <2>3 DEF Read, Goto, Answer, TypeOK, treeVars, ghosts, DownloadPC
<1>12. CASE CloseRead(c)
  <2>1. StoreTypeOK'
    BY <1>12, RootNotUploaded, ReadsTyped DEF CloseRead, At, TypeOK
  <2> QED
    BY <1>12, <2>1 DEF CloseRead, Goto, TypeOK, treeVars, ghosts
<1> QED
  BY <1>1, <1>2, <1>3, <1>4, <1>5, <1>6, <1>7, <1>8, <1>9, <1>10, <1>11, <1>12 DEF Handler

\* So do requests, arriving data, clients that leave, crashes and restarts.
LEMMA TypeStep ==
  ASSUME Inv, [Next]_vars
  PROVE  TypeOK'
<1> USE DEF Inv
<1>1. ASSUME NEW c \in Conn, OnData(c) PROVE TypeOK'
  <2> writeValid(c) => temp[wh[c].file] # Absent
    BY DEF HandlesHeld, writeValid
  <2>1. sent[c] + 1 \in 1..Chunks
    BY <1>1, ChunksAssumption DEF OnData, At, ChunksLeft, BodyPC, TypeOK
  <2>2. StoreTypeOK'
    BY <1>1, <2>1, RootNotUploaded, WritesTyped DEF OnData, TypeOK
  <2> QED
    BY <1>1, <2>1, <2>2 DEF OnData, Goto, Answer, TypeOK, treeVars, ghosts, UploadPC
<1>2. ASSUME NEW c \in Conn, HangUp(c) PROVE TypeOK'
  BY <1>2 DEF HangUp, Goto, TypeOK, StoreTypeOK, storeVars, treeVars, ghosts, UploadPC, DownloadPC
<1>e. << >> \in Content
  BY FreshTypes
<1>3. ASSUME NEW c \in Conn, NEW name \in ValidName, BeginUpload(c, name) PROVE TypeOK'
  <2>1. CASE fileNameExists(entries, Root, name)
    <3>1. /\ UNCHANGED <<storeVars, treeVars, pc, file, sent, ghosts, alive, restarts>>
          /\ answer' = [answer EXCEPT ![c] = "400"]
          /\ got' = [got EXCEPT ![c] = << >>]
      BY <1>3, <2>1 DEF BeginUpload
    <3> QED
      BY <3>1, <1>e DEF TypeOK, StoreTypeOK, storeVars, treeVars, ghosts
  <2>2. CASE ~fileNameExists(entries, Root, name)
    <3>1. /\ nextUID \in UID
          /\ entries' = fileAdd(entries, Root, name, nextUID)
          /\ nextUID' = nextUID + 1
          /\ pc' = [pc EXCEPT ![c] = "fileWrite"]
          /\ file' = [file EXCEPT ![c] = nextUID]
          /\ sent' = [sent EXCEPT ![c] = 0]
          /\ answer' = [answer EXCEPT ![c] = "none"]
          /\ wh' = [wh EXCEPT ![c] = NewWriteHandle]
          /\ outcome' = [outcome EXCEPT ![nextUID] = "uploading"]
          /\ before' = [before EXCEPT ![nextUID] = disk[nextUID]]
          /\ got' = [got EXCEPT ![c] = << >>]
          /\ UNCHANGED <<disk, temp, rh, taken, faults, alive, restarts>>
      BY <1>3, <2>2 DEF BeginUpload, Goto
    <3>2. entries' \subseteq Entry /\ nextUID' \in Nat
      <4>1. name \in Name /\ Root \in Nat /\ nextUID \in Nat
        BY NameAssumption, RootAssumption DEF TypeOK
      <4>2. File(nextUID, Root, name) \in Entry
        BY <4>1 DEF File, Entry
      <4> QED
        BY <3>1, <4>1, <4>2 DEF TypeOK, fileAdd
    <3>3. wh' \in [Conn -> WriteHandle]
      BY <3>1 DEF TypeOK, StoreTypeOK, NewWriteHandle, WriteHandle
    <3>4. sent' \in [Conn -> 0..Chunks]
      BY <3>1, ChunksAssumption DEF TypeOK
    <3> QED
      BY <1>e, <3>1, <3>2, <3>3, <3>4 DEF TypeOK, StoreTypeOK, UploadPC
  <2> QED BY <2>1, <2>2
<1>4. ASSUME NEW c \in Conn, NEW f \in UID, BeginDownload(c, f) PROVE TypeOK'
  <2>1. CASE Die
    BY <2>1, DieTyped
  <2>2. CASE ~Die
    <3>1. /\ pc' = [pc EXCEPT ![c] = "initRead"]
          /\ file' = [file EXCEPT ![c] = f]
          /\ answer' = [answer EXCEPT ![c] = "none"]
          /\ got' = [got EXCEPT ![c] = << >>]
          /\ rh' = [rh EXCEPT ![c] = NewReadHandle]
          /\ UNCHANGED <<disk, temp, wh, taken, faults, treeVars, alive, restarts, sent, ghosts>>
      BY <1>4, <2>2 DEF BeginDownload, Goto
    <3>2. rh' \in [Conn -> ReadHandle]
      BY <3>1, <1>e DEF TypeOK, StoreTypeOK, NewReadHandle, ReadHandle
    <3> QED
      BY <1>e, <3>1, <3>2 DEF TypeOK, StoreTypeOK, treeVars, ghosts, DownloadPC
  <2> QED BY <2>1, <2>2
<1>5. ASSUME NEW c \in Conn, NEW f \in UID, FileDelete(c, f) PROVE TypeOK'
  BY <1>5, FreshTypes DEF FileDelete, TypeOK, StoreTypeOK, storeVars, ghosts
<1>6. CASE Crash
  BY <1>6, DieTyped DEF Crash
<1>7. CASE Restart
  BY <1>7, MaxRestartsAssumption
  DEF Restart, TypeOK, StoreTypeOK, storeVars, treeVars, connVars, ghosts
<1>8. CASE UNCHANGED vars
  BY <1>8 DEF vars, TypeOK, StoreTypeOK, storeVars, treeVars, connVars, ghosts
<1> QED
  BY <1>1, <1>2, <1>3, <1>4, <1>5, <1>6, <1>7, <1>8, HandlerTyped DEF Next, Request
-----------------------------------------------------------------------------
(* The buffers of the readers.                                             *)

\* A step that touches neither handles nor flags and moves no download out of
\* its handler keeps BufferInv.
LEMMA BufferFrame ==
  ASSUME BufferInv, UNCHANGED <<rh, taken>>,
         \A c \in Conn : pc[c] \in DownloadPC => pc'[c] \in DownloadPC
  PROVE  BufferInv'
BY DEF BufferInv

\* The process that dies takes handles and flags with it.
LEMMA BufferDie == ASSUME Die PROVE BufferInv'
BY DEF Die, BufferInv, Each, NewReadHandle

\* initRead takes a free buffer for its handle, or none.
LEMMA BufferInitRead ==
  ASSUME Inv, NEW c \in Conn, InitRead(c)
  PROVE  BufferInv'
<1> USE DEF Inv
<1>2. PICK ok \in BOOLEAN :
         initRead(c, file[c], ok) /\ pc' = [pc EXCEPT ![c] = IF ok THEN "infoFile" ELSE "closeRead"]
  BY DEF InitRead, Goto
<1>3. \A d \in Conn : pc[d] \in DownloadPC => pc'[d] \in DownloadPC
  BY <1>2 DEF TypeOK, DownloadPC
<1>4. CASE UNCHANGED <<rh, taken>>
  BY <1>3, <1>4, BufferFrame
<1>5. CASE ~UNCHANGED <<rh, taken>>
  <2>1. PICK b \in Buffer \ taken : \E data :
           /\ taken' = taken \union {b}
           /\ rh' = [rh EXCEPT ![c] =
                       [open |-> TRUE, buffer |-> b, data |-> data, position |-> 0]]
    BY <1>2, <1>5 DEF initRead, TakeBuffer
  <2>2. rh'[c].open /\ rh'[c].buffer = b /\ \A d \in Conn \ {c} : rh'[d] = rh[d]
    BY <2>1 DEF TypeOK, StoreTypeOK
  <2>3. ~rh[c].open
    BY DEF InitRead, At, NotYetOpen
  <2>4. pc'[c] \in DownloadPC
    BY <1>2 DEF TypeOK, DownloadPC
  <2> QED
    BY <1>3, <2>1, <2>2, <2>3, <2>4 DEF BufferInv
<1> QED
  BY <1>4, <1>5

\* closeRead gives back the buffer of an open handle.
LEMMA BufferCloseRead ==
  ASSUME Inv, NEW c \in Conn, CloseRead(c)
  PROVE  BufferInv'
<1> USE DEF Inv
<1>1. /\ taken' = IF readValid(c) THEN taken \ {rh[c].buffer} ELSE taken
      /\ rh' = [rh EXCEPT ![c].open = FALSE]
      /\ pc' = [pc EXCEPT ![c] = "idle"]
  BY DEF CloseRead, closeRead, Goto
<1>2. rh[c].open => readValid(c)
  BY BufferAssumption DEF BufferInv, readValid, TypeOK, StoreTypeOK
<1>3. /\ ~rh'[c].open
      /\ \A d \in Conn \ {c} : rh'[d] = rh[d] /\ pc'[d] = pc[d]
  BY <1>1 DEF TypeOK, StoreTypeOK, ReadHandle
<1>4. readValid(c) => rh[c].open
  BY DEF readValid
<1> QED
  BY <1>1, <1>2, <1>3, <1>4 DEF BufferInv

\* Every step keeps BufferInv.
LEMMA BufferStep ==
  ASSUME Inv, [Next]_vars
  PROVE  BufferInv'
<1> USE DEF Inv
<1>n. \A c \in Conn : pc[c] \notin DownloadPC => ~rh[c].open
  BY DEF BufferInv
<1>1. ASSUME NEW c \in Conn, Handler(c) PROVE BufferInv'
  <2>1. CASE InitRead(c)
    BY <2>1, BufferInitRead
  <2>2. CASE CloseRead(c)
    BY <2>2, BufferCloseRead
  <2>3. CASE FileWrite(c)
    <3>1. CASE Die
      BY <3>1, BufferDie
    <3>2. CASE ~Die
      BY <2>3, <3>2, BufferFrame DEF FileWrite, At, Goto, storeVars, TypeOK, DownloadPC
    <3> QED BY <3>1, <3>2
  <2>4. CASE CreateFile(c)
    BY <2>4, BufferFrame DEF CreateFile, createFile, Start, At, Goto, TypeOK, DownloadPC
  <2>5. CASE InitWrite(c)
    BY <2>5, BufferFrame DEF InitWrite, initWrite, Start, At, Goto, TypeOK, DownloadPC
  <2>6. CASE CommitUnlink(c)
    BY <2>6, BufferFrame DEF CommitUnlink, closeWriteUnlink, At, Goto, TypeOK, DownloadPC
  <2>7. CASE CommitRename(c)
    BY <2>7, BufferFrame
    DEF CommitRename, closeWriteRename, Ended, At, Goto, TypeOK, DownloadPC
  <2>8. CASE RevertVFS(c)
    BY <2>8, BufferFrame DEF RevertVFS, storeVars, At, Goto, TypeOK, DownloadPC
  <2>9. CASE RevertWrite(c)
    BY <2>9, BufferFrame DEF RevertWrite, closeWriteRevert, At, Goto, TypeOK, DownloadPC
  <2>10. CASE RevertFile(c)
    BY <2>10, BufferFrame DEF RevertFile, deleteFile, Ended, At, Goto, TypeOK, DownloadPC
  <2>11. CASE InfoFile(c)
    BY <2>11, BufferFrame DEF InfoFile, storeVars, At, Goto, TypeOK, DownloadPC
  <2>12. CASE Read(c)
    <3>1. /\ UNCHANGED taken
          /\ \A d \in Conn : rh'[d].open = rh[d].open /\ rh'[d].buffer = rh[d].buffer
      BY <2>12 DEF Read, readFile, TypeOK, StoreTypeOK, ReadHandle
    <3>2. \A d \in Conn : pc[d] \in DownloadPC => pc'[d] \in DownloadPC
      BY <2>12 DEF Read, Goto, TypeOK, DownloadPC
    <3> QED
      BY <3>1, <3>2 DEF BufferInv
  <2> QED
    BY <1>1, <2>1, <2>2, <2>3, <2>4, <2>5, <2>6, <2>7, <2>8, <2>9, <2>10, <2>11, <2>12
    DEF Handler
<1>2. ASSUME NEW c \in Conn, OnData(c) PROVE BufferInv'
  BY <1>2, BufferFrame DEF OnData, writeFile, At, Goto, TypeOK, DownloadPC
<1>3. ASSUME NEW c \in Conn, HangUp(c) PROVE BufferInv'
  BY <1>3, BufferFrame DEF HangUp, storeVars, At, Goto, TypeOK, DownloadPC
<1>4. ASSUME NEW c \in Conn, NEW name \in ValidName, BeginUpload(c, name) PROVE BufferInv'
  BY <1>4, BufferFrame DEF BeginUpload, storeVars, At, Goto, TypeOK, DownloadPC
<1>5. ASSUME NEW c \in Conn, NEW f \in UID, BeginDownload(c, f) PROVE BufferInv'
  <2>1. CASE Die
    BY <2>1, BufferDie
  <2>2. CASE ~Die
    <3>1. ~rh[c].open
      BY <1>5, <1>n DEF BeginDownload, At, DownloadPC
    <3>2. /\ UNCHANGED taken
          /\ rh' = [rh EXCEPT ![c] = NewReadHandle]
          /\ pc' = [pc EXCEPT ![c] = "initRead"]
      BY <1>5, <2>2 DEF BeginDownload, Goto
    <3>3. /\ ~rh'[c].open
          /\ \A d \in Conn \ {c} : rh'[d] = rh[d] /\ pc'[d] = pc[d]
      BY <3>2 DEF TypeOK, StoreTypeOK, NewReadHandle
    <3> QED
      BY <3>1, <3>2, <3>3 DEF BufferInv
  <2> QED BY <2>1, <2>2
<1>6. ASSUME NEW c \in Conn, NEW f \in UID, FileDelete(c, f) PROVE BufferInv'
  BY <1>6, BufferFrame DEF FileDelete, storeVars
<1>7. CASE Crash
  BY <1>7, BufferDie DEF Crash
<1>8. CASE Restart
  BY <1>8, BufferFrame DEF Restart, storeVars, connVars
<1>9. CASE UNCHANGED vars
  BY <1>9, BufferFrame DEF vars, storeVars, connVars
<1> QED
  BY <1>1, <1>2, <1>3, <1>4, <1>5, <1>6, <1>7, <1>8, <1>9 DEF Next, Request
-----------------------------------------------------------------------------
(* The files of the uploads and the handles of the writers.                *)

Writers == FilesApart /\ HandlesHeld

\* A step that leaves files and handles alone, begins no upload, and moves no
\* open handle out of its handler keeps them apart.
LEMMA WriterFrame ==
  ASSUME Writers, UNCHANGED <<wh, temp, file, nextUID>>,
         \A c \in Conn : pc'[c] \in UploadPC => pc[c] \in UploadPC,
         \A c \in Conn : wh[c].open /\ pc[c] \in WritePC => pc'[c] \in WritePC
  PROVE  Writers'
BY DEF Writers, FilesApart, HandlesHeld

\* A step that closes the handle of one upload and changes at most that upload's
\* temporary file keeps the others apart.
LEMMA WriterClose ==
  ASSUME Inv, Writers, NEW c \in Conn, pc[c] \in UploadPC,
         Closed(c), UNCHANGED <<file, nextUID>>,
         \A f \in UID : f # wh[c].file \/ ~wh[c].open => temp'[f] = temp[f],
         \A d \in Conn \ {c} : pc'[d] = pc[d]
  PROVE  Writers'
<1>1. /\ ~wh'[c].open
      /\ \A d \in Conn \ {c} : wh'[d] = wh[d]
  BY DEF Closed, Inv, TypeOK, StoreTypeOK, WriteHandle
<1>2. FilesApart'
  BY DEF Writers, FilesApart
<1>3. ASSUME NEW d \in Conn, wh'[d].open
      PROVE  pc'[d] \in WritePC /\ wh'[d].file = file'[d] /\ temp'[file'[d]] # Absent
  <2>1. d # c /\ wh'[d] = wh[d] /\ pc'[d] = pc[d] /\ wh[d].open
    BY <1>1, <1>3
  <2>2. pc[d] \in WritePC /\ wh[d].file = file[d] /\ temp[file[d]] # Absent
    BY <2>1 DEF Writers, HandlesHeld
  <2>3. pc[d] \in UploadPC /\ file[d] \in UID
    BY <2>2 DEF WritePC, UploadPC, Writers, FilesApart
  <2>4. wh[c].open => wh[c].file = file[c] /\ file[c] # file[d]
    BY <2>1, <2>3 DEF Writers, HandlesHeld, FilesApart
  <2> QED
    BY <2>1, <2>2, <2>3, <2>4
<1> QED
  BY <1>2, <1>3 DEF Writers, HandlesHeld

\* The process that dies closes every handle and forgets every upload.
LEMMA WriterDie == ASSUME Die PROVE Writers'
BY DEF Die, Writers, FilesApart, HandlesHeld, Each, NewWriteHandle, UploadPC

\* An upload that begins is given a file no other upload in progress has.
LEMMA WriterBegin ==
  ASSUME Inv, NEW c \in Conn, NEW name \in ValidName, BeginUpload(c, name)
  PROVE  Writers'
<1> USE DEF Inv
<1>1. CASE fileNameExists(entries, Root, name)
  BY <1>1, WriterFrame DEF BeginUpload, storeVars, treeVars, Writers
<1>2. CASE ~fileNameExists(entries, Root, name)
  <2>1. /\ nextUID \in UID /\ nextUID' = nextUID + 1 /\ nextUID \in Nat
        /\ pc' = [pc EXCEPT ![c] = "fileWrite"]
        /\ file' = [file EXCEPT ![c] = nextUID]
        /\ wh' = [wh EXCEPT ![c] = NewWriteHandle]
        /\ temp' = temp
    BY <1>2 DEF BeginUpload, Goto, TypeOK
  <2>2. /\ pc'[c] \in UploadPC /\ file'[c] = nextUID /\ ~wh'[c].open
        /\ \A d \in Conn \ {c} : pc'[d] = pc[d] /\ file'[d] = file[d] /\ wh'[d] = wh[d]
    BY <2>1 DEF TypeOK, StoreTypeOK, NewWriteHandle, UploadPC
  <2>3. \A f \in UID : f \in Nat
    BY UIDAssumption
  <2>4. FilesApart'
    <3>1. ASSUME NEW d \in Conn, pc'[d] \in UploadPC
          PROVE  file'[d] \in UID /\ file'[d] < nextUID' /\ (d # c => file'[d] < nextUID)
      <4>1. CASE d = c
        BY <2>1, <2>2, <4>1
      <4>2. CASE d # c
        <5>1. file[d] \in UID /\ file[d] < nextUID /\ file'[d] = file[d]
          BY <2>2, <3>1, <4>2 DEF FilesApart
        <5>2. file[d] \in Nat
          BY <2>3, <5>1
        <5> QED
          BY <2>1, <5>1, <5>2
      <4> QED BY <4>1, <4>2
    <3>2. ASSUME NEW d \in Conn, NEW e \in Conn, pc'[d] \in UploadPC, pc'[e] \in UploadPC,
                 file'[d] = file'[e]
          PROVE  d = e
      BY <2>1, <2>2, <2>3, <3>1, <3>2 DEF FilesApart
    <3> QED
      BY <3>1, <3>2 DEF FilesApart
  <2>5. HandlesHeld'
    BY <2>1, <2>2 DEF HandlesHeld
  <2> QED
    BY <2>4, <2>5 DEF Writers
<1> QED
  BY <1>1, <1>2

\* initWrite opens the handle of an upload on its own file.
LEMMA WriterInit ==
  ASSUME Inv, NEW c \in Conn, InitWrite(c)
  PROVE  Writers'
<1> USE DEF Inv
<1>1. PICK ok \in BOOLEAN : initWrite(c, file[c], ok) /\ Start(c, ok, "receiving")
  BY DEF InitWrite
<1>2. CASE ~ok
  <2>1. wh' = wh /\ temp' = temp
    BY <1>1, <1>2 DEF initWrite, TypeOK, StoreTypeOK
  <2> QED
    BY <1>1, <1>2, <2>1, WriterFrame
    DEF Writers, InitWrite, Start, At, Goto, treeVars, TypeOK, UploadPC, WritePC
<1>3. CASE ok
  <2>1. /\ wh' = [wh EXCEPT ![c] = [file |-> file[c], open |-> TRUE, done |-> FALSE]]
        /\ temp' = [temp EXCEPT ![file[c]] = << >>]
        /\ pc' = [pc EXCEPT ![c] = "receiving"]
        /\ UNCHANGED <<file, nextUID>>
        /\ disk[file[c]] # Absent
    BY <1>1, <1>3 DEF initWrite, Start, Goto, treeVars, Result
  <2>2. file[c] \in UID /\ pc[c] \in UploadPC
    BY DEF InitWrite, At, FilesApart, UploadPC
  <2>3. FilesApart'
    BY <2>1, <2>2 DEF FilesApart, TypeOK, UploadPC
  <2>4. temp'[file[c]] # Absent
    BY <2>1, <2>2, FreshTypes, AbsentAssumption DEF TypeOK, StoreTypeOK
  <2>5. HandlesHeld'
    BY <2>1, <2>2, <2>4 DEF HandlesHeld, TypeOK, StoreTypeOK, WritePC
  <2> QED
    BY <2>3, <2>5 DEF Writers
<1> QED
  BY <1>2, <1>3

\* A chunk that arrives goes to the file of its own upload.
LEMMA WriterData ==
  ASSUME Inv, NEW c \in Conn, OnData(c)
  PROVE  Writers'
<1> USE DEF Inv
<1>1. PICK ok \in BOOLEAN :
         /\ writeFile(c, sent[c] + 1, sent[c] + 1 = Chunks, ok)
         /\ Goto(c, CASE ~(sent[c] + 1 = Chunks) -> "receiving"
                      [] sent[c] + 1 = Chunks /\ ok -> "unlink"
                      [] sent[c] + 1 = Chunks /\ ~ok -> "revertVFS")
  BY DEF OnData
<1>2. /\ wh' = [wh EXCEPT ![c].done = @ \/ (ok /\ sent[c] + 1 = Chunks)]
      /\ \A f \in UID : temp[f] # Absent => temp'[f] # Absent
  <2>1. PICK w \in {<<sent[c] + 1>>, << >>, <<Part(sent[c] + 1)>>} :
           temp' = [g \in UID |->
                      IF writeValid(c) /\ ~wh[c].done /\ g = wh[c].file
                        THEN temp[g] \o w ELSE temp[g]]
    BY <1>1 DEF writeFile
  <2>2. ASSUME NEW f \in UID, temp[f] # Absent
        PROVE  temp'[f] # Absent
    <3>1. temp[f] \in Seq(Piece)
      BY <2>2 DEF TypeOK, StoreTypeOK, Content
    <3>2. temp[f] \o w \in Content
      <4>1. sent[c] + 1 \in 1..Chunks
        BY ChunksAssumption DEF OnData, At, ChunksLeft, BodyPC, TypeOK
      <4> QED
        BY <3>1, <4>1, AppendsContent DEF Content
    <3> QED
      BY <2>1, <2>2, <3>2, AbsentAssumption
  <2> QED
    BY <1>1, <2>2 DEF writeFile
<1>3. \A d \in Conn : wh'[d].open = wh[d].open /\ wh'[d].file = wh[d].file
  BY <1>2 DEF TypeOK, StoreTypeOK, WriteHandle
<1>4. /\ pc[c] = "receiving" /\ pc'[c] \in {"receiving", "unlink", "revertVFS"}
      /\ \A d \in Conn \ {c} : pc'[d] = pc[d]
      /\ UNCHANGED <<file, nextUID>>
  BY <1>1 DEF OnData, At, Goto, TypeOK, treeVars
<1>5. FilesApart'
  BY <1>4 DEF FilesApart, UploadPC
<1>6. HandlesHeld'
  <2>1. ASSUME NEW d \in Conn, wh'[d].open
        PROVE  pc'[d] \in WritePC /\ wh'[d].file = file'[d] /\ temp'[file'[d]] # Absent
    <3>1. pc[d] \in WritePC /\ wh[d].file = file[d] /\ temp[file[d]] # Absent
      BY <1>3, <2>1 DEF HandlesHeld
    <3>2. file[d] \in UID
      BY <3>1 DEF FilesApart, WritePC, UploadPC
    <3> QED
      BY <1>2, <1>3, <1>4, <3>1, <3>2 DEF WritePC
  <2> QED
    BY <2>1 DEF HandlesHeld
<1> QED
  BY <1>5, <1>6 DEF Writers

\* Every step keeps the writers apart.
LEMMA WriterStep ==
  ASSUME Inv, [Next]_vars
  PROVE  Writers'
<1> USE DEF Inv
<1>w. Writers
  BY DEF Writers
<1>1. ASSUME NEW c \in Conn, Handler(c) PROVE Writers'
  <2>1. CASE FileWrite(c)
    <3>1. CASE Die
      BY <3>1, WriterDie
    <3>2. CASE ~Die
      BY <1>w, <2>1, <3>2, WriterFrame
      DEF FileWrite, At, Goto, storeVars, treeVars, TypeOK, UploadPC, WritePC
    <3> QED BY <3>1, <3>2
  <2>2. CASE CreateFile(c)
    BY <1>w, <2>2, WriterFrame
    DEF CreateFile, createFile, Start, At, Goto, treeVars, TypeOK, UploadPC, WritePC
  <2>3. CASE InitWrite(c)
    BY <2>3, WriterInit
  <2>4. CASE CommitUnlink(c)
    BY <1>w, <2>4, WriterFrame
    DEF CommitUnlink, closeWriteUnlink, At, Goto, treeVars, TypeOK, UploadPC, WritePC
  <2>5. CASE CommitRename(c)
    <3>1. PICK ok \in BOOLEAN : closeWriteRename(c, ok)
      BY <2>5 DEF CommitRename
    <3>2. \A f \in UID : f # wh[c].file \/ ~wh[c].open => temp'[f] = temp[f]
      BY <3>1 DEF closeWriteRename, Result, writeValid, TypeOK, StoreTypeOK
    <3> QED
      BY <1>w, <2>5, <3>1, <3>2, WriterClose
      DEF CommitRename, closeWriteRename, Ended, At, Goto, treeVars, TypeOK, UploadPC
  <2>6. CASE RevertVFS(c)
    BY <1>w, <2>6, WriterFrame DEF RevertVFS, storeVars, At, Goto, TypeOK, UploadPC, WritePC
  <2>7. CASE RevertWrite(c)
    <3>1. PICK ok \in BOOLEAN : closeWriteRevert(c, ok)
      BY <2>7 DEF RevertWrite
    <3>2. \A f \in UID : f # wh[c].file \/ ~wh[c].open => temp'[f] = temp[f]
      BY <3>1 DEF closeWriteRevert, Result, writeValid, TypeOK, StoreTypeOK
    <3> QED
      BY <1>w, <2>7, <3>1, <3>2, WriterClose
      DEF RevertWrite, closeWriteRevert, At, Goto, treeVars, TypeOK, UploadPC
  <2>8. CASE RevertFile(c)
    BY <1>w, <2>8, WriterFrame
    DEF RevertFile, deleteFile, Ended, At, Goto, treeVars, TypeOK, UploadPC, WritePC
  <2>9. CASE InitRead(c)
    BY <1>w, <2>9, WriterFrame
    DEF InitRead, initRead, At, Goto, treeVars, TypeOK, UploadPC, WritePC
  <2>10. CASE InfoFile(c)
    BY <1>w, <2>10, WriterFrame
    DEF InfoFile, storeVars, At, Goto, treeVars, TypeOK, UploadPC, WritePC
  <2>11. CASE Read(c)
    BY <1>w, <2>11, WriterFrame
    DEF Read, readFile, At, Goto, treeVars, TypeOK, UploadPC, WritePC
  <2>12. CASE CloseRead(c)
    BY <1>w, <2>12, WriterFrame
    DEF CloseRead, closeRead, At, Goto, treeVars, TypeOK, UploadPC, WritePC
  <2> QED
    BY <1>1, <2>1, <2>2, <2>3, <2>4, <2>5, <2>6, <2>7, <2>8, <2>9, <2>10, <2>11, <2>12
    DEF Handler
<1>2. ASSUME NEW c \in Conn, HangUp(c) PROVE Writers'
  BY <1>2, <1>w, WriterFrame
  DEF HangUp, storeVars, treeVars, At, Goto, TypeOK, UploadPC, WritePC
<1>3. ASSUME NEW c \in Conn, NEW f \in UID, BeginDownload(c, f) PROVE Writers'
  <2>1. CASE Die
    BY <2>1, WriterDie
  <2>2. CASE ~Die
    <3>1. /\ pc[c] = "idle" /\ pc' = [pc EXCEPT ![c] = "initRead"]
          /\ file' = [file EXCEPT ![c] = f]
          /\ UNCHANGED <<wh, temp, nextUID>>
      BY <1>3, <2>2 DEF BeginDownload, At, Goto, treeVars
    <3>2. /\ pc'[c] \notin UploadPC /\ pc[c] \notin WritePC
          /\ \A d \in Conn \ {c} : pc'[d] = pc[d] /\ file'[d] = file[d]
      BY <3>1 DEF TypeOK, UploadPC, WritePC
    <3> QED
      BY <3>1, <3>2 DEF Writers, FilesApart, HandlesHeld
  <2> QED BY <2>1, <2>2
<1>4. ASSUME NEW c \in Conn, NEW f \in UID, FileDelete(c, f) PROVE Writers'
  BY <1>4, <1>w, WriterFrame DEF FileDelete, storeVars
<1>5. CASE Crash
  BY <1>5, WriterDie DEF Crash
<1>6. CASE Restart
  BY <1>6, <1>w, WriterFrame DEF Restart, storeVars, treeVars, connVars
<1>7. CASE UNCHANGED vars
  BY <1>7, <1>w, WriterFrame DEF vars, storeVars, treeVars, connVars
<1> QED
  BY <1>1, <1>2, <1>3, <1>4, <1>5, <1>6, <1>7, WriterData, WriterBegin DEF Next, Request

-----------------------------------------------------------------------------
(* What is left to send and to read.                                       *)

Left == ChunksLeft /\ NotYetOpen

\* A step that leaves counters and read handles alone and moves no connection
\* into one of the places these speak of keeps them.
LEMMA LeftFrame ==
  ASSUME Inv, NEW c \in Conn, UNCHANGED <<sent, rh, file>>,
         \A d \in Conn \ {c} : pc'[d] = pc[d],
         \/ pc'[c] = pc[c]
         \/ pc'[c] \notin BodyPC \union DownloadPC
         \/ pc[c] \in BodyPC /\ pc'[c] \in BodyPC
         \/ pc[c] \in DownloadPC /\ pc'[c] \in DownloadPC \ {"initRead", "infoFile", "reading"}
         \/ pc[c] = "infoFile" /\ pc'[c] = "reading"
  PROVE  Left'
BY DEF Inv, Left, ChunksLeft, NotYetOpen, BodyPC, DownloadPC

\* The process that dies leaves nobody anywhere.
LEMMA LeftDie == ASSUME Die PROVE Left'
BY DEF Die, Left, ChunksLeft, NotYetOpen, Each, BodyPC, DownloadPC

\* initRead starts at the first chunk of what it opened.
LEMMA LeftInitRead ==
  ASSUME Inv, NEW c \in Conn, InitRead(c)
  PROVE  Left'
<1> USE DEF Inv
<1>1. PICK ok \in BOOLEAN :
         /\ initRead(c, file[c], ok)
         /\ pc' = [pc EXCEPT ![c] = IF ok THEN "infoFile" ELSE "closeRead"]
         /\ UNCHANGED <<sent, file>>
  BY DEF InitRead, Goto
<1>2. \A d \in Conn \ {c} : pc'[d] = pc[d] /\ rh'[d] = rh[d]
  BY <1>1 DEF initRead, TakeBuffer, TypeOK, StoreTypeOK
<1>3. file[c] \in UID
  BY DEF InitRead, At, ChunksLeft, DownloadPC
<1>4. pc'[c] = "infoFile" => rh'[c].data = << >> \/ rh'[c].position < Len(rh'[c].data)
  <2>1. SUFFICES ASSUME ok
                 PROVE  rh'[c].data = << >> \/ rh'[c].position < Len(rh'[c].data)
    BY <1>1 DEF TypeOK
  <2>2. disk[file[c]] \in Content
    BY <1>1, <1>3, <2>1 DEF initRead, Result, TypeOK, StoreTypeOK
  <2>3. rh'[c].data = disk[file[c]] /\ rh'[c].position = 0
    BY <1>1, <2>1 DEF initRead, Result, TakeBuffer, TypeOK, StoreTypeOK
  <2>4. \A s \in Seq(Piece) : s = << >> \/ 0 < Len(s)
    BY EmptySeq
  <2> QED
    BY <2>2, <2>3, <2>4 DEF Content
<1>5. pc'[c] \in {"infoFile", "closeRead"}
  BY <1>1 DEF TypeOK
<1> QED
  BY <1>1, <1>2, <1>3, <1>4, <1>5 DEF Left, ChunksLeft, NotYetOpen, BodyPC, DownloadPC

\* A read that was not of the last chunk leaves one.
LEMMA LeftRead ==
  ASSUME Inv, NEW c \in Conn, Read(c)
  PROVE  Left'
<1> USE DEF Inv
<1>1. pc[c] = "reading" /\ UNCHANGED <<sent, file>>
  BY DEF Read, At
<1>2. /\ \A d \in Conn \ {c} : pc'[d] = pc[d] /\ rh'[d] = rh[d]
      /\ pc'[c] \in {"reading", "held", "finishRead"}
      /\ rh'[c].data = rh[c].data
  BY <1>1 DEF Read, readFile, Goto, TypeOK, StoreTypeOK, ReadHandle
<1>3. pc'[c] = "reading" =>
         rh'[c].position = rh[c].position + 1 /\ ~(rh[c].position + 1 >= Len(rh[c].data))
  BY <1>1 DEF Read, readFile, Goto, atLast, TypeOK, StoreTypeOK, ReadHandle
<1>4. rh[c].position \in Nat /\ Len(rh[c].data) \in Nat
  BY LenProperties DEF TypeOK, StoreTypeOK, ReadHandle, Content
<1> QED
  BY <1>1, <1>2, <1>3, <1>4 DEF Left, ChunksLeft, NotYetOpen, BodyPC, DownloadPC

\* Every step keeps what is left.
LEMMA LeftStep ==
  ASSUME Inv, [Next]_vars
  PROVE  Left'
<1> USE DEF Inv
<1>w. Left
  BY DEF Left
<1>1. ASSUME NEW c \in Conn, Handler(c) PROVE Left'
  <2>1. CASE FileWrite(c)
    <3>1. CASE Die
      BY <3>1, LeftDie
    <3>2. CASE ~Die
      BY <2>1, <3>2, LeftFrame DEF FileWrite, At, Goto, storeVars, TypeOK, BodyPC, DownloadPC
    <3> QED BY <3>1, <3>2
  <2>2. CASE CreateFile(c)
    BY <2>2, LeftFrame DEF CreateFile, createFile, Start, At, Goto, TypeOK, BodyPC, DownloadPC
  <2>3. CASE InitWrite(c)
    <3>1. PICK ok \in BOOLEAN : initWrite(c, file[c], ok) /\ Start(c, ok, "receiving")
      BY <2>3 DEF InitWrite
    <3>2. /\ UNCHANGED <<sent, rh, file>>
          /\ \A d \in Conn \ {c} : pc'[d] = pc[d]
          /\ pc'[c] \in {"receiving", "revertVFS"}
      BY <3>1 DEF initWrite, Start, Goto, TypeOK
    <3>3. sent[c] < Chunks
      BY <2>3 DEF InitWrite, At, ChunksLeft, BodyPC
    <3> QED
      BY <3>2, <3>3 DEF Left, ChunksLeft, NotYetOpen, BodyPC, DownloadPC
  <2>4. CASE CommitUnlink(c)
    BY <2>4, LeftFrame DEF CommitUnlink, closeWriteUnlink, Goto, TypeOK, BodyPC, DownloadPC
  <2>5. CASE CommitRename(c)
    BY <2>5, LeftFrame DEF CommitRename, closeWriteRename, Ended, Goto, TypeOK, BodyPC, DownloadPC
  <2>6. CASE RevertVFS(c)
    BY <2>6, LeftFrame DEF RevertVFS, storeVars, Goto, TypeOK, BodyPC, DownloadPC
  <2>7. CASE RevertWrite(c)
    BY <2>7, LeftFrame DEF RevertWrite, closeWriteRevert, Goto, TypeOK, BodyPC, DownloadPC
  <2>8. CASE RevertFile(c)
    BY <2>8, LeftFrame DEF RevertFile, deleteFile, Ended, Goto, TypeOK, BodyPC, DownloadPC
  <2>9. CASE InitRead(c)
    BY <2>9, LeftInitRead
  <2>10. CASE InfoFile(c)
    BY <2>10, LeftFrame DEF InfoFile, storeVars, At, Goto, TypeOK, BodyPC, DownloadPC
  <2>11. CASE Read(c)
    BY <2>11, LeftRead
  <2>12. CASE CloseRead(c)
    <3>1. /\ UNCHANGED <<sent, file>> /\ pc' = [pc EXCEPT ![c] = "idle"]
          /\ rh' = [rh EXCEPT ![c].open = FALSE]
      BY <2>12 DEF CloseRead, closeRead, Goto
    <3>2. /\ pc'[c] = "idle"
          /\ \A d \in Conn \ {c} : pc'[d] = pc[d] /\ rh'[d] = rh[d]
      BY <3>1 DEF TypeOK, StoreTypeOK
    <3> QED
      BY <3>1, <3>2 DEF Left, ChunksLeft, NotYetOpen, BodyPC, DownloadPC
  <2> QED
    BY <1>1, <2>1, <2>2, <2>3, <2>4, <2>5, <2>6, <2>7, <2>8, <2>9, <2>10, <2>11, <2>12
    DEF Handler
<1>2. ASSUME NEW c \in Conn, OnData(c) PROVE Left'
  <2>1. /\ UNCHANGED <<rh, file>>
        /\ sent' = [sent EXCEPT ![c] = sent[c] + 1]
        /\ sent[c] \in 0..Chunks /\ sent[c] < Chunks
        /\ \A d \in Conn \ {c} : pc'[d] = pc[d]
        /\ pc'[c] \in {"receiving", "unlink", "revertVFS"}
        /\ pc'[c] = "receiving" => sent[c] + 1 # Chunks
    BY <1>2 DEF OnData, writeFile, At, Goto, TypeOK, ChunksLeft, BodyPC
  <2>2. /\ sent'[c] = sent[c] + 1
        /\ \A d \in Conn \ {c} : sent'[d] = sent[d]
    BY <2>1 DEF TypeOK
  <2> QED
    BY <2>1, <2>2, ChunksAssumption DEF Left, ChunksLeft, NotYetOpen, BodyPC, DownloadPC
<1>3. ASSUME NEW c \in Conn, HangUp(c) PROVE Left'
  BY <1>3, LeftFrame DEF HangUp, storeVars, At, Goto, TypeOK, BodyPC, DownloadPC
<1>4. ASSUME NEW c \in Conn, NEW name \in ValidName, BeginUpload(c, name) PROVE Left'
  <2>1. CASE fileNameExists(entries, Root, name)
    BY <1>4, <2>1, LeftFrame DEF BeginUpload, storeVars
  <2>2. CASE ~fileNameExists(entries, Root, name)
    <3>1. /\ rh' = rh
          /\ pc' = [pc EXCEPT ![c] = "fileWrite"]
          /\ sent' = [sent EXCEPT ![c] = 0]
          /\ file' = [file EXCEPT ![c] = nextUID]
      BY <1>4, <2>2 DEF BeginUpload, Goto
    <3>2. /\ pc'[c] = "fileWrite" /\ sent'[c] = 0
          /\ \A d \in Conn \ {c} : pc'[d] = pc[d] /\ sent'[d] = sent[d] /\ file'[d] = file[d]
      BY <3>1 DEF TypeOK
    <3> QED
      BY <3>1, <3>2, ChunksAssumption DEF Left, ChunksLeft, NotYetOpen, BodyPC, DownloadPC
  <2> QED BY <2>1, <2>2
<1>5. ASSUME NEW c \in Conn, NEW f \in UID, BeginDownload(c, f) PROVE Left'
  <2>1. CASE Die
    BY <2>1, LeftDie
  <2>2. CASE ~Die
    <3>1. /\ pc' = [pc EXCEPT ![c] = "initRead"]
          /\ file' = [file EXCEPT ![c] = f]
          /\ rh' = [rh EXCEPT ![c] = NewReadHandle]
          /\ sent' = sent
      BY <1>5, <2>2 DEF BeginDownload, Goto
    <3>2. /\ pc'[c] = "initRead" /\ file'[c] = f /\ ~rh'[c].open
          /\ \A d \in Conn \ {c} : pc'[d] = pc[d] /\ rh'[d] = rh[d] /\ file'[d] = file[d]
      BY <3>1 DEF TypeOK, StoreTypeOK, NewReadHandle
    <3> QED
      BY <3>1, <3>2 DEF Left, ChunksLeft, NotYetOpen, BodyPC, DownloadPC
  <2> QED BY <2>1, <2>2
<1>6. ASSUME NEW c \in Conn, NEW f \in UID, FileDelete(c, f) PROVE Left'
  BY <1>6, LeftFrame DEF FileDelete, storeVars
<1>7. CASE Crash
  BY <1>7, LeftDie DEF Crash
<1>8. CASE Restart \/ UNCHANGED vars
  BY <1>8 DEF Restart, vars, storeVars, connVars, Left, ChunksLeft, NotYetOpen
<1> QED
  BY <1>1, <1>2, <1>3, <1>4, <1>5, <1>6, <1>7, <1>8 DEF Next, Request

-----------------------------------------------------------------------------
(* The theorems.                                                           *)

\* The inductive invariant holds in every execution.
LEMMA InvCorrect == Spec => []Inv
<1>1. Init => Inv
  BY TypeInit
  DEF Init, StoreInit, Inv, BufferInv, FilesApart, HandlesHeld, ChunksLeft, NotYetOpen,
      Each, NewReadHandle, NewWriteHandle, UploadPC, BodyPC, DownloadPC
<1>2. Inv /\ [Next]_vars => Inv'
  BY TypeStep, BufferStep, WriterStep, LeftStep DEF Inv, Writers, Left
<1> QED
  BY <1>1, <1>2, PTL DEF Spec

\* Every variable keeps its type, for any number of connections, buffers,
\* faults and restarts: no handler leaves a state the next one cannot read.
THEOREM TypeCorrect == Spec => []TypeOK
<1>1. Inv => TypeOK
  BY DEF Inv
<1> QED
  BY <1>1, InvCorrect, PTL

\* However downloads, failures, hang-ups and crashes interleave, the buffers
\* that are taken and the downloads that are open correspond one to one.
THEOREM BuffersCorrect == Spec => []BufferInv
<1>1. Inv => BufferInv
  BY DEF Inv
<1> QED
  BY <1>1, InvCorrect, PTL

\* However uploads, failures, hang-ups and crashes interleave, no two uploads
\* write one temporary file, and none loses its own before it closes it.
THEOREM WritersCorrect == Spec => []WritersApart
<1>1. Inv => WritersApart
  <2>1. SUFFICES ASSUME Inv, NEW c \in Conn, writeValid(c)
                 PROVE  /\ wh[c].file = file[c] /\ temp[file[c]] # Absent
                        /\ \A d \in Conn : writeValid(d) /\ wh[d].file = file[c] => d = c
    BY DEF WritersApart
  <2>2. \A d \in Conn : writeValid(d) =>
           pc[d] \in UploadPC /\ wh[d].file = file[d] /\ temp[file[d]] # Absent
    BY <2>1 DEF writeValid, Inv, HandlesHeld, WritePC, UploadPC
  <2> QED
    BY <2>1, <2>2 DEF Inv, FilesApart
<1> QED
  BY <1>1, InvCorrect, PTL
-----------------------------------------------------------------------------
(* Committed data within one run.                                          *)

\* In the first run a target exists only for a uid that was given out, does not
\* exist before createFile, and is not complete while its upload goes on.
OneRun ==
  restarts = 0 /\ alive =>
    /\ \A f \in UID : disk[f] # Absent => f < nextUID
    /\ \A c \in Conn : pc[c] \in {"fileWrite", "createFile"} => disk[file[c]] = Absent
    /\ \A c \in Conn : pc[c] \in UploadPC => disk[file[c]] # Whole

\* A complete file is not empty, and it is a file.
LEMMA WholeFile == Whole # << >> /\ Whole # Absent
<1>1. Whole # << >>
  BY ChunksAssumption DEF Whole
<1>2. Whole \in Content
  <2>1. \A k \in 1..Chunks : Whole[k] \in Piece
    BY ChunksAssumption DEF Whole, Piece
  <2> QED
    BY <2>1, ChunksAssumption DEF Whole, Content
<1> QED
  BY <1>1, <1>2, AbsentAssumption

\* A step that touches no target and begins no upload keeps OneRun.
LEMMA OneRunFrame ==
  ASSUME OneRun, UNCHANGED <<disk, nextUID, restarts>>, alive' = TRUE => alive,
         \A c \in Conn : pc'[c] \in UploadPC => pc[c] \in UploadPC /\ file'[c] = file[c],
         \A c \in Conn : pc'[c] \in {"fileWrite", "createFile"} =>
                           pc[c] \in {"fileWrite", "createFile"}
  PROVE  OneRun' /\ UNCHANGED disk
BY DEF OneRun, UploadPC

\* A step that changes the target of one upload in progress, which then goes on
\* only with a target that is not complete, leaves all others as they were.
LEMMA OneRunTarget ==
  ASSUME Inv, OneRun, NEW c \in Conn, pc[c] \in UploadPC, alive, restarts = 0,
         UNCHANGED <<file, nextUID>>,
         \A f \in UID : f # file[c] => disk'[f] = disk[f],
         \A d \in Conn \ {c} : pc'[d] = pc[d],
         pc'[c] \notin {"fileWrite", "createFile"},
         pc'[c] \in UploadPC => disk'[file[c]] # Whole
  PROVE  /\ OneRun'
         /\ \A f \in UID : disk[f] = Whole => disk'[f] = Whole
<1>1. file[c] \in UID /\ file[c] < nextUID /\ disk[file[c]] # Whole
  BY DEF Inv, FilesApart, OneRun
<1>2. \A d \in Conn \ {c} : pc[d] \in UploadPC => file[d] # file[c] /\ file[d] \in UID
  BY DEF Inv, FilesApart
<1> QED
  BY <1>1, <1>2 DEF OneRun, UploadPC

\* In the first run every step keeps OneRun and every complete file.
LEMMA OneRunStep ==
  ASSUME restarts = 0, Inv, OneRun, [Next]_vars
  PROVE  /\ OneRun'
         /\ \A f \in UID : disk[f] = Whole => disk'[f] = Whole
<1> USE DEF Inv
<1> DEFINE Goal == OneRun' /\ \A f \in UID : disk[f] = Whole => disk'[f] = Whole
<1>0. restarts = 0 /\ restarts \in Nat
  BY DEF TypeOK
<1>d. ASSUME Die PROVE Goal
  BY <1>d DEF Die, OneRun
<1>1. ASSUME NEW c \in Conn, Handler(c) PROVE Goal
  <2>1. CASE FileWrite(c)
    <3>1. CASE ~Die
      BY <2>1, <3>1, OneRunFrame
      DEF FileWrite, At, Goto, storeVars, treeVars, TypeOK, UploadPC
    <3> QED BY <1>d, <3>1
  <2>2. CASE CreateFile(c)
    <3>1. PICK ok \in BOOLEAN : createFile(file[c], ok) /\ Start(c, ok, "initWrite")
      BY <2>2 DEF CreateFile
    <3>2. file[c] \in UID /\ pc[c] \in UploadPC /\ disk[file[c]] = Absent
      BY <1>0, <2>2 DEF CreateFile, At, FilesApart, OneRun, UploadPC
    <3>3. disk'[file[c]] \in {<< >>, Absent} /\ \A f \in UID : f # file[c] => disk'[f] = disk[f]
      BY <3>1, <3>2 DEF createFile, TypeOK, StoreTypeOK
    <3>4. /\ pc'[c] \notin {"fileWrite", "createFile"}
          /\ \A d \in Conn \ {c} : pc'[d] = pc[d]
      BY <3>1 DEF Start, Goto, TypeOK
    <3> QED
      BY <1>0, <2>2, <3>1, <3>2, <3>3, <3>4, WholeFile, OneRunTarget
      DEF CreateFile, At, Start, treeVars
  <2>3. CASE InitWrite(c)
    BY <2>3, OneRunFrame
    DEF InitWrite, initWrite, Start, At, Goto, treeVars, TypeOK, UploadPC
  <2>4. CASE CommitUnlink(c)
    <3>1. PICK ok \in BOOLEAN : closeWriteUnlink(c, ok)
      BY <2>4 DEF CommitUnlink
    <3>2. file[c] \in UID /\ pc[c] \in UploadPC /\ disk[file[c]] # Whole
      BY <1>0, <2>4 DEF CommitUnlink, At, FilesApart, OneRun, UploadPC
    <3>3. ok => wh[c].file = file[c]
      BY <3>1 DEF closeWriteUnlink, Result, writeValid, HandlesHeld
    <3>4. disk'[file[c]] # Whole /\ \A f \in UID : f # file[c] => disk'[f] = disk[f]
      BY <3>1, <3>2, <3>3, WholeFile DEF closeWriteUnlink
    <3>5. pc'[c] = "rename" /\ \A d \in Conn \ {c} : pc'[d] = pc[d]
      BY <2>4 DEF CommitUnlink, Goto, TypeOK
    <3> QED
      BY <1>0, <2>4, <3>2, <3>4, <3>5, OneRunTarget DEF CommitUnlink, At, treeVars
  <2>5. CASE CommitRename(c)
    <3>1. PICK ok \in BOOLEAN : closeWriteRename(c, ok)
      BY <2>5 DEF CommitRename
    <3>2. pc[c] \in UploadPC
      BY <2>5 DEF CommitRename, At, UploadPC
    <3>3. ok => wh[c].file = file[c]
      BY <3>1 DEF closeWriteRename, Result, writeValid, HandlesHeld
    <3>4. \A f \in UID : f # file[c] => disk'[f] = disk[f]
      BY <3>1, <3>3 DEF closeWriteRename
    <3>5. pc'[c] = "idle" /\ \A d \in Conn \ {c} : pc'[d] = pc[d]
      BY <2>5 DEF CommitRename, Ended, Goto, TypeOK
    <3> QED
      BY <1>0, <2>5, <3>2, <3>4, <3>5, OneRunTarget DEF CommitRename, At, treeVars, UploadPC
  <2>6. CASE RevertVFS(c)
    BY <2>6, OneRunFrame DEF RevertVFS, storeVars, At, Goto, TypeOK, UploadPC
  <2>7. CASE RevertWrite(c)
    BY <2>7, OneRunFrame DEF RevertWrite, closeWriteRevert, At, Goto, treeVars, TypeOK, UploadPC
  <2>8. CASE RevertFile(c)
    <3>1. pc[c] \in UploadPC
      BY <2>8 DEF RevertFile, At, UploadPC
    <3>2. \A f \in UID : f # file[c] => disk'[f] = disk[f]
      BY <2>8 DEF RevertFile, deleteFile, TypeOK, StoreTypeOK
    <3>3. pc'[c] = "idle" /\ \A d \in Conn \ {c} : pc'[d] = pc[d]
      BY <2>8 DEF RevertFile, Ended, Goto, TypeOK
    <3> QED
      BY <1>0, <2>8, <3>1, <3>2, <3>3, OneRunTarget DEF RevertFile, At, treeVars, UploadPC
  <2>9. CASE InitRead(c)
    BY <2>9, OneRunFrame DEF InitRead, initRead, At, Goto, treeVars, TypeOK, UploadPC
  <2>10. CASE InfoFile(c)
    BY <2>10, OneRunFrame DEF InfoFile, storeVars, At, Goto, treeVars, TypeOK, UploadPC
  <2>11. CASE Read(c)
    BY <2>11, OneRunFrame DEF Read, readFile, At, Goto, treeVars, TypeOK, UploadPC
  <2>12. CASE CloseRead(c)
    BY <2>12, OneRunFrame DEF CloseRead, closeRead, At, Goto, treeVars, TypeOK, UploadPC
  <2> QED
    BY <1>1, <2>1, <2>2, <2>3, <2>4, <2>5, <2>6, <2>7, <2>8, <2>9, <2>10, <2>11, <2>12
    DEF Handler
<1>2. ASSUME NEW c \in Conn, OnData(c) PROVE Goal
  BY <1>2, OneRunFrame DEF OnData, writeFile, At, Goto, treeVars, TypeOK, UploadPC
<1>3. ASSUME NEW c \in Conn, HangUp(c) PROVE Goal
  BY <1>3, OneRunFrame DEF HangUp, storeVars, treeVars, At, Goto, TypeOK, UploadPC
<1>4. ASSUME NEW c \in Conn, NEW name \in ValidName, BeginUpload(c, name) PROVE Goal
  <2>1. CASE fileNameExists(entries, Root, name)
    BY <1>4, <2>1, OneRunFrame DEF BeginUpload, storeVars, treeVars
  <2>2. CASE ~fileNameExists(entries, Root, name)
    <3>1. /\ nextUID \in UID /\ nextUID' = nextUID + 1 /\ disk' = disk /\ alive
          /\ pc' = [pc EXCEPT ![c] = "fileWrite"]
          /\ file' = [file EXCEPT ![c] = nextUID]
      BY <1>4, <2>2 DEF BeginUpload, At, Goto
    <3>2. disk[nextUID] = Absent
      BY <1>0, <3>1 DEF OneRun, TypeOK
    <3>3. /\ pc'[c] = "fileWrite" /\ file'[c] = nextUID
          /\ \A d \in Conn \ {c} : pc'[d] = pc[d] /\ file'[d] = file[d]
      BY <3>1 DEF TypeOK
    <3>4. \A f \in UID : disk'[f] # Absent => f < nextUID'
      <4>1. ASSUME NEW f \in UID, disk[f] # Absent PROVE f < nextUID + 1
        <5>1. f < nextUID /\ f \in Nat /\ nextUID \in Nat
          BY <1>0, <3>1, <4>1, UIDAssumption DEF OneRun, TypeOK
        <5> QED BY <5>1
      <4> QED BY <3>1, <4>1
    <3> QED
      BY <1>0, <3>1, <3>2, <3>3, <3>4, WholeFile DEF OneRun, UploadPC
  <2> QED BY <2>1, <2>2
<1>5. ASSUME NEW c \in Conn, NEW f \in UID, BeginDownload(c, f) PROVE Goal
  <2>1. CASE ~Die
    <3>1. /\ pc' = [pc EXCEPT ![c] = "initRead"]
          /\ file' = [file EXCEPT ![c] = f]
          /\ UNCHANGED <<disk, nextUID, alive, restarts>>
      BY <1>5, <2>1 DEF BeginDownload, Goto, treeVars
    <3> QED
      BY <3>1, OneRunFrame DEF TypeOK, UploadPC
  <2> QED BY <1>d, <2>1
<1>6. ASSUME NEW c \in Conn, NEW f \in UID, FileDelete(c, f) PROVE Goal
  BY <1>6, OneRunFrame DEF FileDelete, storeVars
<1>7. CASE Crash
  BY <1>7, <1>d DEF Crash
<1>8. CASE Restart
  BY <1>0, <1>8 DEF Restart, OneRun, storeVars
<1>9. CASE UNCHANGED vars
  BY <1>9, OneRunFrame DEF vars, storeVars, treeVars, connVars
<1> QED
  BY <1>1, <1>2, <1>3, <1>4, <1>5, <1>6, <1>7, <1>8, <1>9 DEF Next, Request

\* A server that was started again is in no first run any more.
LEMMA LaterRuns ==
  ASSUME Inv, restarts # 0, [Next]_vars
  PROVE  restarts' # 0
<1>1. restarts \in Nat
  BY DEF Inv, TypeOK
<1>2. restarts' = restarts \/ restarts' = restarts + 1
  <2>1. ASSUME NEW c \in Conn, Handler(c)
        PROVE  restarts' = restarts
    BY <2>1
       DEF Handler, Die, Start, FileWrite, CreateFile, InitWrite, CommitUnlink, CommitRename, RevertVFS,
           RevertWrite, RevertFile, InitRead, InfoFile, Read, CloseRead
  <2>2. ASSUME NEW c \in Conn, OnData(c) \/ HangUp(c) \/ Request(c)
        PROVE  restarts' = restarts
    BY <2>2 DEF Die, OnData, HangUp, Request, BeginUpload, BeginDownload, FileDelete
  <2>3. Crash \/ Restart => restarts' = restarts \/ restarts' = restarts + 1
    BY Zenon DEF Crash, Die, Restart
  <2>4. UNCHANGED vars => restarts' = restarts
    BY Zenon DEF vars
  <2> QED
    BY <2>1, <2>2, <2>3, <2>4, Zenon DEF Next
<1> QED
  BY <1>1, <1>2

\* Until the server is started a second time nothing that happens after a file
\* is complete, no failure of any call and no crash included, changes its data.
THEOREM NothingLostCorrect == Spec => NothingLost
<1>1. Init => OneRun
  BY WholeFile DEF Init, StoreInit, OneRun, Each, UploadPC
<1>2. Inv /\ [Next]_vars /\ restarts' = 0 => restarts = 0
  BY LaterRuns
<1>3. Inv /\ OneRun /\ [Next]_vars => OneRun'
  BY <1>2, OneRunStep DEF OneRun
<1>4. Inv /\ OneRun /\ [Next]_vars =>
        [restarts' = 0 => \A f \in UID : disk[f] = Whole => disk'[f] = Whole]_vars
  BY <1>2, OneRunStep
<1> QED
  BY <1>1, <1>3, <1>4, InvCorrect, PTL DEF Spec, NothingLost

-----------------------------------------------------------------------------
(* All or nothing: while no system call fails and the process is not       *)
(* started again, an upload leaves all of its data or nothing, and a       *)
(* download reads all of a file or nothing, however requests, clients that *)
(* leave and deletions interleave.                                         *)

\* No system call fails and the process is not started again.
NoFaults == MaxFaults = 0 /\ MaxRestarts = 0

-----------------------------------------------------------------------------
(* Their inductive invariant.                                              *)

\* The first n chunks of a file.
Prefix(n) == [k \in 1..n |-> k]

\* What an upload in progress has done so far, phase by phase.
Progressed(c) ==
  /\ answer[c] = "none" /\ got[c] = << >>
  /\ outcome[file[c]] = "uploading" /\ before[file[c]] = Absent
  /\ disk[file[c]] = IF pc[c] \in {"fileWrite", "createFile", "rename"} THEN Absent ELSE << >>
  /\ pc[c] \in {"fileWrite", "createFile", "initWrite", "deleteFile"} => temp[file[c]] = Absent
  /\ pc[c] \in {"fileWrite", "createFile", "initWrite"} => sent[c] = 0
  /\ pc[c] \in WritePC => wh[c].open /\ temp[file[c]] # Absent
  /\ pc[c] = "receiving" => ~wh[c].done /\ temp[file[c]] = Prefix(sent[c])
  /\ pc[c] \in {"unlink", "rename"} => temp[file[c]] = Whole
  /\ pc[c] \in {"closeWrite", "deleteFile"} => findFile(entries, file[c]) = NULL

\* What an upload that is over has left.
Settled(f) ==
  /\ outcome[f] = "stored" => disk[f] = Whole /\ temp[f] = Absent
  /\ outcome[f] = "refused" =>
       findFile(entries, f) = NULL /\ disk[f] = Absent /\ before[f] = Absent /\ temp[f] = Absent

\* A uid that has not been given out has no file and no history.
Untouched(f) == disk[f] = Absent /\ temp[f] = Absent /\ outcome[f] = "none"

UploadInv ==
  /\ \A c \in Conn : pc[c] \in UploadPC => Progressed(c)
  /\ \A f \in UID : Settled(f)
  /\ \A f \in UID : outcome[f] # "none" => f >= Root + 2
  /\ alive => nextUID >= Root + 2 /\ \A f \in UID : f >= nextUID => Untouched(f)
  /\ \A e \in entries : ~e.directory /\ e.parent = Root /\ e.id < nextUID

\* A target is empty or complete, and so is what a download opens; what it has
\* sent is what it has read.
ReadInv ==
  /\ \A f \in UID : disk[f] \in {Absent, << >>, Whole}
  /\ \A c \in Conn :
       /\ rh[c].data \in {<< >>, Whole}
       /\ pc[c] \in {"initRead", "infoFile"} => got[c] = << >>
       /\ pc[c] = "infoFile" => rh[c].position = 0
       /\ pc[c] = "reading" =>
            got[c] = IF rh[c].data = << >> THEN << >> ELSE Prefix(rh[c].position)
       /\ answer[c] = "200" =>
            got[c] \in {<< >>, Whole} /\ pc[c] \in {"idle", "finishRead"}

SteadyInv == UploadInv /\ ReadInv

-----------------------------------------------------------------------------
(* The chunks of a file.                                                   *)

\* A prefix grows by the next chunk; the longest is the whole file.
LEMMA PrefixGrows ==
  ASSUME NEW n \in Nat
  PROVE  /\ Prefix(n) \o <<n + 1>> = Prefix(n + 1)
         /\ Prefix(0) = << >> /\ Whole = Prefix(Chunks)
<1>1. Prefix(n) \in Seq(Nat) /\ Len(Prefix(n)) = n
  BY DEF Prefix
<1>2. Prefix(n + 1) \in Seq(Nat) /\ Len(Prefix(n + 1)) = n + 1
  BY DEF Prefix
<1>3. Prefix(n) \o <<n + 1>> \in Seq(Nat) /\ Len(Prefix(n) \o <<n + 1>>) = n + 1
  BY <1>1
<1>4. \A k \in 1..n + 1 : (Prefix(n) \o <<n + 1>>)[k] = Prefix(n + 1)[k]
  BY <1>1 DEF Prefix
<1>5. Prefix(n) \o <<n + 1>> = Prefix(n + 1)
  BY <1>2, <1>3, <1>4, SeqEqual
<1>6. Prefix(0) = << >>
  BY DEF Prefix
<1> QED
  BY <1>5, <1>6 DEF Prefix, Whole

\* A part of a file is a sequence, so it is a file; what is empty is not whole.
LEMMA PrefixFile ==
  ASSUME NEW n \in 0..Chunks
  PROVE  Prefix(n) # Absent /\ << >> # Absent /\ Whole # << >> /\ Whole # Absent
<1>1. Prefix(n) \in Content
  BY ChunksAssumption DEF Prefix, Content, Piece
<1>2. << >> \in Content
  BY EmptySeq DEF Content
<1> QED
  BY <1>1, <1>2, AbsentAssumption, WholeFile

-----------------------------------------------------------------------------
(* Steps and the parts of the invariant.                                   *)

\* A step that leaves the files, the histories and the uploads alone, and adds
\* nothing to the tree.
LEMMA UploadUntouched ==
  ASSUME UploadInv, UNCHANGED <<disk, temp, outcome, before, nextUID>>,
         entries' \subseteq entries, alive' => alive,
         \A c \in Conn : pc'[c] \in UploadPC =>
           /\ pc'[c] = pc[c] /\ file'[c] = file[c] /\ answer'[c] = answer[c]
           /\ got'[c] = got[c] /\ wh'[c] = wh[c] /\ sent'[c] = sent[c]
  PROVE  UploadInv'
<1>1. \A f \in UID : findFile(entries, f) = NULL => findFile(entries', f) = NULL
  BY UIDAssumption DEF findFile, NULL
<1>2. \A f \in UID : Settled(f)' /\ (outcome'[f] # "none" => f >= Root + 2)
  BY <1>1 DEF UploadInv, Settled
<1>3. \A c \in Conn : pc'[c] \in UploadPC => Progressed(c)'
  BY <1>1 DEF UploadInv, Progressed, findFile, NULL
<1>4. alive' => nextUID' >= Root + 2 /\ \A f \in UID : f >= nextUID' => Untouched(f)'
  BY DEF UploadInv, Untouched
<1> QED
  BY <1>2, <1>3, <1>4 DEF UploadInv

\* A step of one upload changes its own files and history only.
LEMMA UploadFrame ==
  ASSUME Inv, UploadInv, NEW c \in Conn, pc[c] \in UploadPC, alive,
         UNCHANGED <<nextUID, file>>, entries' \subseteq entries,
         \A f \in UID \ {file[c]} :
           /\ disk'[f] = disk[f] /\ temp'[f] = temp[f]
           /\ outcome'[f] = outcome[f] /\ before'[f] = before[f],
         \A d \in Conn \ {c} :
           /\ pc'[d] = pc[d] /\ answer'[d] = answer[d] /\ got'[d] = got[d]
           /\ wh'[d] = wh[d] /\ sent'[d] = sent[d],
         pc'[c] \in UploadPC => Progressed(c)', Settled(file[c])'
  PROVE  UploadInv'
<1>0. file[c] \in UID /\ file[c] < nextUID /\ nextUID \in Nat /\ UID \subseteq Nat
  BY UIDAssumption DEF Inv, FilesApart, TypeOK
<1>1. \A f \in UID : findFile(entries, f) = NULL => findFile(entries', f) = NULL
  BY UIDAssumption DEF findFile, NULL
<1>2. ASSUME NEW f \in UID PROVE Settled(f)'
  <2>1. CASE f = file[c]
    BY <2>1
  <2>2. CASE f # file[c]
    BY <1>1, <2>2 DEF UploadInv, Settled
  <2> QED BY <2>1, <2>2
<1>3. ASSUME NEW d \in Conn, pc'[d] \in UploadPC PROVE Progressed(d)'
  <2>1. CASE d = c
    BY <1>3, <2>1
  <2>2. CASE d # c
    <3>1. pc[d] \in UploadPC /\ file[d] \in UID \ {file[c]} /\ file'[d] = file[d]
      BY <1>3, <2>2 DEF Inv, FilesApart
    <3>2. Progressed(d)
      BY <3>1 DEF UploadInv
    <3> QED
      BY <1>1, <2>2, <3>1, <3>2 DEF Progressed
  <2> QED BY <2>1, <2>2
<1>4. \A f \in UID : outcome'[f] # "none" => f >= Root + 2
  <2>1. file[c] >= Root + 2
    BY <1>0 DEF UploadInv, Progressed
  <2> QED
    BY <2>1 DEF UploadInv
<1>5. nextUID' >= Root + 2 /\ \A f \in UID : f >= nextUID' => Untouched(f)'
  <2>1. \A f \in UID : f >= nextUID => f # file[c]
    BY <1>0
  <2> QED
    BY <2>1 DEF UploadInv, Untouched
<1> QED
  BY <1>2, <1>3, <1>4, <1>5 DEF UploadInv

\* The process that dies leaves the files of the uploads that were over.
LEMMA SteadyDie ==
  ASSUME Inv, SteadyInv, Die
  PROVE  SteadyInv'
<1>0. Root \in Nat /\ UID \subseteq Nat
  BY RootAssumption, UIDAssumption
<1>1. \A f \in UID : f >= Root + 2 => findFile(InitialTree, f) = NULL
  BY <1>0 DEF InitialTree, File, findFile, NULL
<1>2. \A f \in UID :
        /\ outcome'[f] # "none" => outcome'[f] = outcome[f]
        /\ disk'[f] = disk[f] /\ temp'[f] = temp[f] /\ before'[f] = before[f]
  BY DEF Die
<1>3. \A f \in UID : Settled(f)' /\ (outcome'[f] # "none" => f >= Root + 2)
  BY <1>1, <1>2 DEF SteadyInv, UploadInv, Settled, Die
<1>4. \A e \in entries' : ~e.directory /\ e.parent = Root /\ e.id < nextUID'
  BY <1>0 DEF Die, InitialTree, File
<1>5. UploadInv'
  BY <1>3, <1>4 DEF UploadInv, Die, Each, UploadPC
<1>6. ReadInv'
  BY <1>2 DEF SteadyInv, ReadInv, Die, Each, NewReadHandle
<1> QED
  BY <1>5, <1>6 DEF SteadyInv

\* A step of an upload keeps what downloads rely on if it leaves targets empty
\* or complete.
LEMMA ReadFrame ==
  ASSUME ReadInv, UNCHANGED <<rh, got>>,
         \A f \in UID : disk'[f] \in {Absent, << >>, Whole},
         \A c \in Conn :
           \/ pc'[c] = pc[c] /\ answer'[c] = answer[c]
           \/ pc'[c] \notin DownloadPC /\ answer'[c] # "200"
           \/ pc'[c] = "idle" /\ got[c] = << >>
           \/ pc'[c] = "closeRead" /\ answer'[c] # "200"
  PROVE  ReadInv'
BY DEF ReadInv, DownloadPC

-----------------------------------------------------------------------------
(* The steps of an upload.                                                 *)

\* Other connections are not changed by a step of c.
LEMMA OthersKept ==
  ASSUME TypeOK, NEW c \in Conn, NEW label, Goto(c, label)
  PROVE  pc'[c] = label /\ \A d \in Conn \ {c} : pc'[d] = pc[d]
BY DEF TypeOK, Goto

\* What the invariants say about an upload in progress.
LEMMA UploadFacts ==
  ASSUME NoFaults, Inv, SteadyInv, NEW c \in Conn, pc[c] \in UploadPC
  PROVE  /\ file[c] \in UID /\ file[c] # NoFile /\ file[c] >= Root + 2
         /\ Progressed(c) /\ MaxFaults = 0 /\ faults = 0
         /\ wh[c].open => writeValid(c) /\ wh[c].file = file[c]
<1>1. file[c] \in UID /\ Progressed(c)
  BY DEF Inv, FilesApart, SteadyInv, UploadInv
<1>2. file[c] # NoFile
  BY <1>1, UIDAssumption
<1>3. file[c] >= Root + 2
  BY <1>1 DEF Progressed, SteadyInv, UploadInv
<1>4. faults = 0 /\ MaxFaults = 0
  BY DEF NoFaults, Inv, TypeOK, StoreTypeOK
<1>5. wh[c].open => writeValid(c) /\ wh[c].file = file[c]
  BY <1>2 DEF writeValid, Inv, HandlesHeld
<1> QED
  BY <1>1, <1>2, <1>3, <1>4, <1>5

\* The transaction is initialised, or the process dies.
LEMMA SteadyFileWrite ==
  ASSUME NoFaults, Inv, SteadyInv, NEW c \in Conn, FileWrite(c)
  PROVE  SteadyInv'
<1>1. CASE Die
  BY <1>1, SteadyDie
<1>2. CASE ~Die
  <2>1. /\ Goto(c, "createFile") /\ pc[c] = "fileWrite" /\ alive
        /\ UNCHANGED <<storeVars, treeVars, alive, restarts, file, sent, answer, got, ghosts>>
    BY <1>2 DEF FileWrite, At
  <2>2. pc'[c] = "createFile" /\ \A d \in Conn \ {c} : pc'[d] = pc[d]
    BY <2>1, OthersKept DEF Inv
  <2>3. pc[c] \in UploadPC
    BY <2>1 DEF UploadPC
  <2>4. Progressed(c)' /\ Settled(file[c])'
    BY <2>1, <2>2, <2>3, UploadFacts
    DEF Progressed, Settled, storeVars, treeVars, ghosts, WritePC
  <2>5. UploadInv'
    BY <2>1, <2>2, <2>3, <2>4, UploadFrame DEF SteadyInv, storeVars, treeVars, ghosts
  <2>6. ReadInv'
    BY <2>1, <2>2, ReadFrame DEF SteadyInv, ReadInv, storeVars, DownloadPC
  <2> QED
    BY <2>5, <2>6 DEF SteadyInv
<1> QED BY <1>1, <1>2

\* No uid had a target before it was given out, so createFile makes an empty one.
LEMMA SteadyCreateFile ==
  ASSUME NoFaults, Inv, SteadyInv, NEW c \in Conn, CreateFile(c)
  PROVE  SteadyInv'
<1> DEFINE f == file[c]
<1>1. PICK ok \in BOOLEAN : createFile(f, ok) /\ Start(c, ok, "initWrite")
  BY DEF CreateFile
<1>2. pc[c] = "createFile" /\ pc[c] \in UploadPC /\ alive
  BY DEF CreateFile, At, UploadPC
<1>3. Progressed(c) /\ f \in UID /\ disk[f] = Absent /\ faults = 0 /\ MaxFaults = 0
  BY <1>2, UploadFacts DEF Progressed
<1>4. ok
  BY <1>1, <1>3 DEF createFile, Result
<1>5. /\ disk' = [disk EXCEPT ![f] = << >>] /\ UNCHANGED <<temp, wh, rh>>
      /\ Goto(c, "initWrite")
      /\ UNCHANGED <<answer, treeVars, alive, restarts, file, sent, got, ghosts>>
  BY <1>1, <1>3, <1>4 DEF createFile, Start
<1>6. pc'[c] = "initWrite" /\ \A d \in Conn \ {c} : pc'[d] = pc[d]
  BY <1>5, OthersKept DEF Inv
<1>7. disk'[f] = << >> /\ \A g \in UID \ {f} : disk'[g] = disk[g]
  BY <1>3, <1>5 DEF Inv, TypeOK, StoreTypeOK
<1>8. Progressed(c)' /\ Settled(f)'
  BY <1>2, <1>3, <1>5, <1>6, <1>7 DEF Progressed, Settled, ghosts, WritePC
<1>9. UploadInv'
  BY <1>2, <1>5, <1>6, <1>7, <1>8, UploadFrame DEF SteadyInv, treeVars, ghosts
<1>10. ReadInv'
  <2>1. \A g \in UID : disk'[g] \in {Absent, << >>, Whole}
    BY <1>7 DEF SteadyInv, ReadInv
  <2> QED
    BY <1>5, <1>6, <1>3, <2>1, ReadFrame DEF SteadyInv, Progressed, DownloadPC
<1> QED
  BY <1>9, <1>10 DEF SteadyInv

\* The temporary file starts empty.
LEMMA SteadyInitWrite ==
  ASSUME NoFaults, Inv, SteadyInv, NEW c \in Conn, InitWrite(c)
  PROVE  SteadyInv'
<1> DEFINE f == file[c]
<1>1. PICK ok \in BOOLEAN : initWrite(c, f, ok) /\ Start(c, ok, "receiving")
  BY DEF InitWrite
<1>2. pc[c] = "initWrite" /\ pc[c] \in UploadPC /\ alive
  BY DEF InitWrite, At, UploadPC
<1>3. Progressed(c) /\ f \in UID /\ disk[f] = << >> /\ faults = 0 /\ MaxFaults = 0
  BY <1>2, UploadFacts DEF Progressed
<1>4. ok
  BY <1>1, <1>3, PrefixFile, ChunksAssumption DEF initWrite, Result
<1>5. /\ temp' = [temp EXCEPT ![f] = << >>] /\ UNCHANGED <<disk, rh>>
      /\ wh' = [wh EXCEPT ![c] = [file |-> f, open |-> TRUE, done |-> FALSE]]
      /\ Goto(c, "receiving")
      /\ UNCHANGED <<answer, treeVars, alive, restarts, file, sent, got, ghosts>>
  BY <1>1, <1>4 DEF initWrite, Start
<1>6. pc'[c] = "receiving" /\ \A d \in Conn \ {c} : pc'[d] = pc[d]
  BY <1>5, OthersKept DEF Inv
<1>7. /\ temp'[f] = << >> /\ \A g \in UID \ {f} : temp'[g] = temp[g]
      /\ wh'[c].open /\ ~wh'[c].done /\ \A d \in Conn \ {c} : wh'[d] = wh[d]
  BY <1>3, <1>5 DEF Inv, TypeOK, StoreTypeOK
<1>8. Progressed(c)' /\ Settled(f)'
  <2>1. Prefix(0) = << >> /\ << >> # Absent
    <3> 0 \in 0..Chunks /\ 0 \in Nat
      BY ChunksAssumption
    <3> QED
      BY PrefixGrows, PrefixFile
  <2> QED
    BY <1>2, <1>3, <1>5, <1>6, <1>7, <2>1 DEF Progressed, Settled, ghosts, WritePC
<1>9. UploadInv'
  BY <1>2, <1>5, <1>6, <1>7, <1>8, UploadFrame DEF SteadyInv, treeVars, ghosts
<1>10. ReadInv'
  BY <1>3, <1>5, <1>6, ReadFrame DEF SteadyInv, ReadInv, Progressed, DownloadPC
<1> QED
  BY <1>9, <1>10 DEF SteadyInv

\* A chunk that arrives is written in full, and the last one leads to commit.
LEMMA SteadyOnData ==
  ASSUME NoFaults, Inv, SteadyInv, NEW c \in Conn, OnData(c)
  PROVE  SteadyInv'
<1> DEFINE f == file[c]
<1> DEFINE chunk == sent[c] + 1
<1>1. PICK ok \in BOOLEAN :
        /\ writeFile(c, chunk, chunk = Chunks, ok)
        /\ IF ok THEN UNCHANGED answer ELSE Answer(c, "400")
        /\ Goto(c, CASE ~(chunk = Chunks) -> "receiving"
                     [] chunk = Chunks /\ ok -> "unlink"
                     [] chunk = Chunks /\ ~ok -> "revertVFS")
  BY DEF OnData
<1>2. pc[c] = "receiving" /\ pc[c] \in UploadPC /\ alive
  BY DEF OnData, At, UploadPC
<1>3. /\ Progressed(c) /\ f \in UID /\ disk[f] = << >> /\ faults = 0 /\ MaxFaults = 0
      /\ writeValid(c) /\ ~wh[c].done /\ wh[c].file = f /\ wh[c].open
      /\ temp[f] = Prefix(sent[c])
  BY <1>2, UploadFacts DEF Progressed, WritePC
<1>4. sent[c] \in Nat /\ chunk \in 0..Chunks
  BY <1>2, ChunksAssumption DEF Inv, TypeOK, ChunksLeft, BodyPC
<1>5. ok
  BY <1>1, <1>3 DEF writeFile, Result
<1>6. /\ temp' = [g \in UID |-> IF g = f THEN Prefix(chunk) ELSE temp[g]]
      /\ wh' = [wh EXCEPT ![c].done = wh[c].done \/ chunk = Chunks]
      /\ UNCHANGED <<disk, rh>>
  <2>1. temp[f] \o <<chunk>> = Prefix(chunk)
    BY <1>3, <1>4, PrefixGrows
  <2> QED
    BY <1>1, <1>3, <1>5, <2>1 DEF writeFile
<1>7. /\ Goto(c, IF chunk = Chunks THEN "unlink" ELSE "receiving")
      /\ sent' = [sent EXCEPT ![c] = chunk]
      /\ UNCHANGED <<answer, treeVars, alive, restarts, file, got, ghosts>>
  BY <1>1, <1>5 DEF OnData
<1>8. /\ pc'[c] = IF chunk = Chunks THEN "unlink" ELSE "receiving"
      /\ \A d \in Conn \ {c} : pc'[d] = pc[d]
  BY <1>7, OthersKept DEF Inv
<1>9. /\ temp'[f] = Prefix(chunk) /\ \A g \in UID \ {f} : temp'[g] = temp[g]
      /\ wh'[c].open /\ (chunk # Chunks => ~wh'[c].done)
      /\ sent'[c] = chunk
      /\ \A d \in Conn \ {c} : wh'[d] = wh[d] /\ sent'[d] = sent[d]
  BY <1>3, <1>6, <1>7 DEF Inv, TypeOK, StoreTypeOK, WriteHandle
<1>10. Progressed(c)' /\ Settled(f)'
  BY <1>2, <1>3, <1>4, <1>6, <1>7, <1>8, <1>9, PrefixGrows, PrefixFile
  DEF Progressed, Settled, ghosts, WritePC
<1>11. UploadInv'
  BY <1>2, <1>6, <1>7, <1>8, <1>9, <1>10, UploadFrame DEF SteadyInv, treeVars, ghosts
<1>12. ReadInv'
  BY <1>3, <1>6, <1>7, <1>8, ReadFrame DEF SteadyInv, ReadInv, Progressed, DownloadPC
<1> QED
  BY <1>11, <1>12 DEF SteadyInv

\* The two halves of a commit: the target goes, the temporary file takes its place.
LEMMA SteadyCommitUnlink ==
  ASSUME NoFaults, Inv, SteadyInv, NEW c \in Conn, CommitUnlink(c)
  PROVE  SteadyInv'
<1> DEFINE f == file[c]
<1>1. PICK ok \in BOOLEAN : closeWriteUnlink(c, ok)
  BY DEF CommitUnlink
<1>2. /\ pc[c] = "unlink" /\ pc[c] \in UploadPC /\ alive /\ Goto(c, "rename")
      /\ UNCHANGED <<treeVars, alive, restarts, file, sent, answer, got, ghosts>>
  BY DEF CommitUnlink, At, UploadPC
<1>3. /\ Progressed(c) /\ f \in UID /\ disk[f] = << >> /\ faults = 0 /\ MaxFaults = 0
      /\ writeValid(c) /\ wh[c].file = f /\ << >> # Absent
  BY <1>2, UploadFacts, PrefixFile, ChunksAssumption DEF Progressed, WritePC
<1>4. ok
  BY <1>1, <1>3 DEF closeWriteUnlink, Result
<1>5. /\ disk' = [g \in UID |-> IF g = f THEN Absent ELSE disk[g]]
      /\ UNCHANGED <<temp, wh, rh>>
  BY <1>1, <1>3, <1>4 DEF closeWriteUnlink
<1>6. pc'[c] = "rename" /\ \A d \in Conn \ {c} : pc'[d] = pc[d]
  BY <1>2, OthersKept DEF Inv
<1>7. Progressed(c)' /\ Settled(f)'
  BY <1>2, <1>3, <1>5, <1>6 DEF Progressed, Settled, ghosts, WritePC
<1>8. UploadInv'
  BY <1>2, <1>5, <1>6, <1>7, UploadFrame DEF SteadyInv, treeVars, ghosts
<1>9. ReadInv'
  BY <1>2, <1>3, <1>5, <1>6, ReadFrame DEF SteadyInv, ReadInv, Progressed, DownloadPC
<1> QED
  BY <1>8, <1>9 DEF SteadyInv

\* ... and with it the upload is stored.
LEMMA SteadyCommitRename ==
  ASSUME NoFaults, Inv, SteadyInv, NEW c \in Conn, CommitRename(c)
  PROVE  SteadyInv'
<1> DEFINE f == file[c]
<1>1. PICK ok \in BOOLEAN : closeWriteRename(c, ok)
  BY DEF CommitRename
<1>2. /\ pc[c] = "rename" /\ pc[c] \in UploadPC /\ alive
      /\ Answer(c, "200") /\ Ended(c, TRUE) /\ Goto(c, "idle")
      /\ UNCHANGED <<treeVars, alive, restarts, file, sent, got, before>>
  BY DEF CommitRename, Ended, At, UploadPC
<1>3. /\ Progressed(c) /\ f \in UID /\ faults = 0 /\ MaxFaults = 0
      /\ writeValid(c) /\ wh[c].file = f /\ temp[f] = Whole /\ temp[f] # Absent
      /\ answer[c] = "none" /\ got[c] = << >>
  BY <1>2, UploadFacts DEF Progressed, WritePC
<1>4. ok
  BY <1>1, <1>3 DEF closeWriteRename, Result
<1>5. /\ disk' = [g \in UID |-> IF g = f THEN Whole ELSE disk[g]]
      /\ temp' = [g \in UID |-> IF g = f THEN Absent ELSE temp[g]]
      /\ Closed(c) /\ UNCHANGED rh
  BY <1>1, <1>3, <1>4 DEF closeWriteRename
<1>6. pc'[c] = "idle" /\ \A d \in Conn \ {c} : pc'[d] = pc[d]
  BY <1>2, OthersKept DEF Inv
<1>7. /\ disk'[f] = Whole /\ temp'[f] = Absent
      /\ \A g \in UID \ {f} : disk'[g] = disk[g] /\ temp'[g] = temp[g]
      /\ \A d \in Conn \ {c} : wh'[d] = wh[d] /\ answer'[d] = answer[d]
  BY <1>2, <1>3, <1>5 DEF Answer, Closed, Inv, TypeOK, StoreTypeOK
<1>8. outcome'[f] = "stored" /\ \A g \in UID \ {f} : outcome'[g] = outcome[g]
  BY <1>2, <1>3 DEF Ended, Inv, TypeOK
<1>9. Settled(f)' /\ pc'[c] \notin UploadPC
  BY <1>2, <1>6, <1>7, <1>8 DEF Settled, UploadPC
<1>10. UploadInv'
  BY <1>2, <1>6, <1>7, <1>8, <1>9, UploadFrame DEF SteadyInv, treeVars
<1>11. ReadInv'
  BY <1>2, <1>3, <1>5, <1>6, <1>7, ReadFrame DEF SteadyInv, ReadInv
<1> QED
  BY <1>10, <1>11 DEF SteadyInv

\* The three steps of a revert: the entry, the temporary file and the target go.
LEMMA SteadyRevertVFS ==
  ASSUME NoFaults, Inv, SteadyInv, NEW c \in Conn, RevertVFS(c)
  PROVE  SteadyInv'
<1> DEFINE f == file[c]
<1>1. /\ pc[c] = "revertVFS" /\ pc[c] \in UploadPC /\ alive /\ Goto(c, "closeWrite")
      /\ entries' = entries \ fileDelete(entries, Root, f)
      /\ UNCHANGED <<storeVars, nextUID, alive, restarts, file, sent, answer, got, ghosts>>
  BY DEF RevertVFS, At, UploadPC
<1>2. pc'[c] = "closeWrite" /\ \A d \in Conn \ {c} : pc'[d] = pc[d]
  BY <1>1, OthersKept DEF Inv
<1>3. findFile(entries', f) = NULL
  <2>1. \A e \in entries' : e.id # f
    BY <1>1 DEF SteadyInv, UploadInv, fileDelete
  <2> QED
    BY <2>1 DEF findFile
<1>4. Progressed(c)' /\ Settled(f)'
  BY <1>1, <1>2, <1>3, UploadFacts DEF Progressed, Settled, storeVars, ghosts, WritePC
<1>5. UploadInv'
  BY <1>1, <1>2, <1>4, UploadFrame DEF SteadyInv, storeVars, ghosts
<1>6. ReadInv'
  BY <1>1, <1>2, UploadFacts, ReadFrame DEF SteadyInv, ReadInv, Progressed, storeVars, DownloadPC
<1> QED
  BY <1>5, <1>6 DEF SteadyInv

\* ... then its temporary file ...
LEMMA SteadyRevertWrite ==
  ASSUME NoFaults, Inv, SteadyInv, NEW c \in Conn, RevertWrite(c)
  PROVE  SteadyInv'
<1> DEFINE f == file[c]
<1>1. PICK ok \in BOOLEAN : closeWriteRevert(c, ok)
  BY DEF RevertWrite
<1>2. /\ pc[c] = "closeWrite" /\ pc[c] \in UploadPC /\ alive /\ Goto(c, "deleteFile")
      /\ UNCHANGED <<treeVars, alive, restarts, file, sent, answer, got, ghosts>>
  BY DEF RevertWrite, At, UploadPC
<1>3. /\ Progressed(c) /\ f \in UID /\ faults = 0 /\ MaxFaults = 0
      /\ writeValid(c) /\ wh[c].file = f /\ temp[f] # Absent
  BY <1>2, UploadFacts DEF Progressed, WritePC
<1>4. ok
  BY <1>1, <1>3 DEF closeWriteRevert, Result
<1>5. /\ temp' = [g \in UID |-> IF g = f THEN Absent ELSE temp[g]]
      /\ Closed(c) /\ UNCHANGED <<disk, rh>>
  BY <1>1, <1>3, <1>4 DEF closeWriteRevert
<1>6. pc'[c] = "deleteFile" /\ \A d \in Conn \ {c} : pc'[d] = pc[d]
  BY <1>2, OthersKept DEF Inv
<1>7. \A d \in Conn \ {c} : wh'[d] = wh[d]
  BY <1>5 DEF Closed, Inv, TypeOK, StoreTypeOK
<1>8. Progressed(c)' /\ Settled(f)'
  BY <1>2, <1>3, <1>5, <1>6 DEF Progressed, Settled, treeVars, ghosts, WritePC
<1>9. UploadInv'
  BY <1>2, <1>5, <1>6, <1>7, <1>8, UploadFrame DEF SteadyInv, treeVars, ghosts
<1>10. ReadInv'
  BY <1>2, <1>3, <1>5, <1>6, ReadFrame DEF SteadyInv, ReadInv, Progressed, DownloadPC
<1> QED
  BY <1>9, <1>10 DEF SteadyInv

\* ... then its target, which createFile made.
LEMMA SteadyRevertFile ==
  ASSUME NoFaults, Inv, SteadyInv, NEW c \in Conn, RevertFile(c)
  PROVE  SteadyInv'
<1> DEFINE f == file[c]
<1>1. PICK ok \in BOOLEAN : deleteFile(f, ok)
  BY DEF RevertFile
<1>2. /\ pc[c] = "deleteFile" /\ pc[c] \in UploadPC /\ alive
      /\ Ended(c, FALSE) /\ Goto(c, "idle")
      /\ UNCHANGED <<treeVars, alive, restarts, file, sent, answer, got, before>>
  BY DEF RevertFile, Ended, At, UploadPC
<1>3. /\ Progressed(c) /\ f \in UID /\ faults = 0 /\ MaxFaults = 0
      /\ disk[f] = << >> /\ << >> # Absent
  BY <1>2, UploadFacts, PrefixFile, ChunksAssumption DEF Progressed
<1>4. ok
  BY <1>1, <1>3 DEF deleteFile, Result
<1>5. disk' = [disk EXCEPT ![f] = Absent] /\ UNCHANGED <<temp, wh, rh>>
  BY <1>1, <1>4 DEF deleteFile
<1>6. pc'[c] = "idle" /\ \A d \in Conn \ {c} : pc'[d] = pc[d]
  BY <1>2, OthersKept DEF Inv
<1>7. /\ disk'[f] = Absent /\ outcome'[f] = "refused"
      /\ \A g \in UID \ {f} : disk'[g] = disk[g] /\ outcome'[g] = outcome[g]
  BY <1>2, <1>3, <1>5 DEF Ended, Inv, TypeOK, StoreTypeOK
<1>8. Settled(f)' /\ pc'[c] \notin UploadPC
  BY <1>2, <1>3, <1>5, <1>6, <1>7 DEF Settled, Progressed, treeVars, UploadPC
<1>9. UploadInv'
  BY <1>2, <1>5, <1>6, <1>7, <1>8, UploadFrame DEF SteadyInv, treeVars
<1>10. ReadInv'
  BY <1>2, <1>3, <1>5, <1>6, <1>7, ReadFrame DEF SteadyInv, ReadInv, Progressed
<1> QED
  BY <1>9, <1>10 DEF SteadyInv

-----------------------------------------------------------------------------
(* Requests, downloads and clients that leave.                             *)

\* An upload that begins is given a uid nothing is known of.
LEMMA SteadyBeginUpload ==
  ASSUME NoFaults, Inv, SteadyInv, NEW c \in Conn, NEW name \in ValidName,
         BeginUpload(c, name)
  PROVE  SteadyInv'
<1>1. CASE fileNameExists(entries, Root, name)
  <2>1. /\ pc[c] = "idle" /\ answer' = [answer EXCEPT ![c] = "400"]
        /\ got' = [got EXCEPT ![c] = << >>]
        /\ UNCHANGED <<storeVars, treeVars, alive, restarts, pc, file, sent, ghosts>>
    BY <1>1 DEF BeginUpload, At
  <2>2. /\ answer'[c] = "400" /\ got'[c] = << >>
        /\ \A d \in Conn \ {c} : answer'[d] = answer[d] /\ got'[d] = got[d]
    BY <2>1 DEF Inv, TypeOK
  <2>3. UploadInv'
    BY <2>1, <2>2, UploadUntouched DEF SteadyInv, storeVars, treeVars, ghosts, UploadPC
  <2>4. ReadInv'
    BY <2>1, <2>2 DEF SteadyInv, ReadInv, storeVars
  <2> QED
    BY <2>3, <2>4 DEF SteadyInv
<1>2. CASE ~fileNameExists(entries, Root, name)
  <2> DEFINE f == nextUID
  <2>1. /\ pc[c] = "idle" /\ alive /\ f \in UID /\ nextUID' = f + 1
        /\ entries' = entries \union {File(f, Root, name)}
        /\ Goto(c, "fileWrite")
        /\ file' = [file EXCEPT ![c] = f]
        /\ sent' = [sent EXCEPT ![c] = 0]
        /\ answer' = [answer EXCEPT ![c] = "none"]
        /\ got' = [got EXCEPT ![c] = << >>]
        /\ wh' = [wh EXCEPT ![c] = NewWriteHandle]
        /\ outcome' = [outcome EXCEPT ![f] = "uploading"]
        /\ before' = [before EXCEPT ![f] = disk[f]]
        /\ UNCHANGED <<disk, temp, rh, alive>>
    BY <1>2 DEF BeginUpload, At, fileAdd
  <2>2. /\ pc'[c] = "fileWrite" /\ \A d \in Conn \ {c} : pc'[d] = pc[d]
    BY <2>1, OthersKept DEF Inv
  <2>3. /\ file'[c] = f /\ sent'[c] = 0 /\ answer'[c] = "none" /\ got'[c] = << >>
        /\ outcome'[f] = "uploading" /\ before'[f] = disk[f]
        /\ \A d \in Conn \ {c} :
             /\ file'[d] = file[d] /\ sent'[d] = sent[d] /\ answer'[d] = answer[d]
             /\ got'[d] = got[d] /\ wh'[d] = wh[d]
        /\ \A g \in UID \ {f} : outcome'[g] = outcome[g] /\ before'[g] = before[g]
    BY <2>1 DEF Inv, TypeOK, StoreTypeOK
  <2>4. UID \subseteq Nat /\ f \in Nat /\ Root \in Nat /\ f >= Root + 2 /\ Untouched(f)
    <3>1. UID \subseteq Nat /\ f \in Nat /\ Root \in Nat
      BY UIDAssumption, RootAssumption DEF Inv, TypeOK
    <3> QED
      BY <2>1, <3>1 DEF SteadyInv, UploadInv
  <2>5. \A g \in UID \ {f} : findFile(entries, g) = NULL => findFile(entries', g) = NULL
    BY <2>1, UIDAssumption DEF findFile, NULL, File
  <2>6. Progressed(c)'
    BY <2>1, <2>2, <2>3, <2>4 DEF Progressed, Untouched, WritePC
  <2>7. ASSUME NEW d \in Conn \ {c}, pc'[d] \in UploadPC PROVE Progressed(d)'
    <3>1. pc[d] \in UploadPC /\ file[d] \in UID \ {f} /\ Progressed(d)
      BY <2>2, <2>4, <2>7 DEF Inv, FilesApart, SteadyInv, UploadInv
    <3>2. /\ file'[d] = file[d] /\ pc'[d] = pc[d] /\ sent'[d] = sent[d]
          /\ answer'[d] = answer[d] /\ got'[d] = got[d] /\ wh'[d] = wh[d]
          /\ outcome'[file[d]] = outcome[file[d]] /\ before'[file[d]] = before[file[d]]
          /\ disk' = disk /\ temp' = temp
      BY <2>1, <2>2, <2>3, <3>1
    <3>3. findFile(entries, file[d]) = NULL => findFile(entries', file[d]) = NULL
      BY <2>5, <3>1
    <3> QED
      BY <3>1, <3>2, <3>3 DEF Progressed
  <2>8. ASSUME NEW g \in UID PROVE Settled(g)' /\ (outcome'[g] # "none" => g >= Root + 2)
    <3>1. CASE g = f
      BY <2>3, <2>4, <3>1 DEF Settled
    <3>2. CASE g # f
      <4>1. Settled(g) /\ (outcome[g] # "none" => g >= Root + 2)
        BY <2>4, Zenon DEF SteadyInv, UploadInv
      <4>2. /\ outcome'[g] = outcome[g] /\ before'[g] = before[g] /\ disk' = disk /\ temp' = temp
            /\ findFile(entries, g) = NULL => findFile(entries', g) = NULL
        BY <2>1, <2>3, <2>5, <3>2
      <4> QED
        BY <4>1, <4>2 DEF Settled
    <3> QED BY <3>1, <3>2
  <2>9. nextUID' >= Root + 2 /\ \A g \in UID : g >= nextUID' => Untouched(g)'
    <3>1. nextUID' >= Root + 2 /\ \A g \in UID : g >= nextUID' => g # f /\ g >= f
      BY <2>1, <2>4
    <3> QED
      BY <2>1, <2>3, <3>1 DEF SteadyInv, UploadInv, Untouched
  <2>10. \A e \in entries' : ~e.directory /\ e.parent = Root /\ e.id < nextUID'
    <3>1. \A e \in entries : e.id \in Nat
      BY DEF Inv, TypeOK, Entry
    <3>2. \A e \in entries : e.id < f + 1
      BY <2>4, <3>1 DEF SteadyInv, UploadInv
    <3>3. ~File(f, Root, name).directory /\ File(f, Root, name).parent = Root
          /\ File(f, Root, name).id < f + 1
      BY <2>4 DEF File
    <3> QED
      BY <2>1, <3>2, <3>3 DEF SteadyInv, UploadInv
  <2>11. UploadInv'
    BY <2>6, <2>7, <2>8, <2>9, <2>10 DEF UploadInv
  <2>12. ReadInv'
    BY <2>1, <2>2, <2>3 DEF SteadyInv, ReadInv
  <2> QED
    BY <2>11, <2>12 DEF SteadyInv
<1> QED BY <1>1, <1>2

\* A deletion takes an entry, and no file.
LEMMA SteadyFileDelete ==
  ASSUME NoFaults, Inv, SteadyInv, NEW c \in Conn, NEW f \in UID, FileDelete(c, f)
  PROVE  SteadyInv'
<1>1. /\ pc[c] = "idle" /\ got' = [got EXCEPT ![c] = << >>]
      /\ entries' \subseteq entries
      /\ UNCHANGED <<storeVars, nextUID, alive, restarts, pc, file, sent, ghosts>>
      /\ \A d \in Conn \ {c} : answer'[d] = answer[d]
  BY DEF FileDelete, At, Inv, TypeOK
<1>2. got'[c] = << >> /\ \A d \in Conn \ {c} : got'[d] = got[d]
  BY <1>1 DEF Inv, TypeOK
<1>3. UploadInv'
  BY <1>1, <1>2, UploadUntouched DEF SteadyInv, storeVars, ghosts, UploadPC
<1>4. ReadInv'
  BY <1>1, <1>2 DEF SteadyInv, ReadInv, storeVars
<1> QED
  BY <1>3, <1>4 DEF SteadyInv

\* A step of a download changes neither files nor uploads.
LEMMA DownloadFrame ==
  ASSUME NoFaults, Inv, SteadyInv, NEW c \in Conn,
         UNCHANGED <<disk, temp, treeVars, alive, ghosts, wh, sent>>,
         \A d \in Conn \ {c} :
           /\ pc'[d] = pc[d] /\ file'[d] = file[d] /\ answer'[d] = answer[d]
           /\ got'[d] = got[d] /\ rh'[d] = rh[d],
         pc'[c] \notin UploadPC,
         /\ rh'[c].data \in {<< >>, Whole}
         /\ pc'[c] \in {"initRead", "infoFile"} => got'[c] = << >>
         /\ pc'[c] = "infoFile" => rh'[c].position = 0
         /\ pc'[c] = "reading" =>
              got'[c] = IF rh'[c].data = << >> THEN << >> ELSE Prefix(rh'[c].position)
         /\ answer'[c] = "200" =>
              got'[c] \in {<< >>, Whole} /\ pc'[c] \in {"idle", "finishRead"}
  PROVE  SteadyInv'
<1>1. UploadInv'
  BY UploadUntouched DEF SteadyInv, treeVars, ghosts
<1>2. ReadInv'
  BY DEF SteadyInv, ReadInv
<1> QED
  BY <1>1, <1>2 DEF SteadyInv

\* A download begins with nothing sent, or the process dies.
LEMMA SteadyBeginDownload ==
  ASSUME NoFaults, Inv, SteadyInv, NEW c \in Conn, NEW f \in UID, BeginDownload(c, f)
  PROVE  SteadyInv'
<1>1. CASE Die
  BY <1>1, SteadyDie
<1>2. CASE ~Die
  <2>1. /\ Goto(c, "initRead")
        /\ file' = [file EXCEPT ![c] = f]
        /\ answer' = [answer EXCEPT ![c] = "none"]
        /\ got' = [got EXCEPT ![c] = << >>]
        /\ rh' = [rh EXCEPT ![c] = NewReadHandle]
        /\ UNCHANGED <<disk, temp, wh, taken, faults, treeVars, alive, restarts, sent, ghosts>>
    BY <1>2 DEF BeginDownload
  <2>2. pc'[c] = "initRead" /\ \A d \in Conn \ {c} : pc'[d] = pc[d]
    BY <2>1, OthersKept DEF Inv
  <2>3. /\ rh'[c].data = << >> /\ got'[c] = << >> /\ answer'[c] = "none"
        /\ \A d \in Conn \ {c} : /\ file'[d] = file[d] /\ answer'[d] = answer[d]
                                 /\ got'[d] = got[d] /\ rh'[d] = rh[d]
    BY <2>1 DEF Inv, TypeOK, StoreTypeOK, NewReadHandle
  <2> QED
    BY <2>1, <2>2, <2>3, DownloadFrame DEF UploadPC
<1> QED BY <1>1, <1>2

\* What is opened is empty or complete.
LEMMA SteadyInitRead ==
  ASSUME NoFaults, Inv, SteadyInv, NEW c \in Conn, InitRead(c)
  PROVE  SteadyInv'
<1>1. PICK ok \in BOOLEAN :
        /\ initRead(c, file[c], ok)
        /\ Goto(c, IF ok THEN "infoFile" ELSE "closeRead")
        /\ IF ok THEN UNCHANGED answer ELSE Answer(c, "400")
  BY DEF InitRead
<1>2. /\ pc[c] = "initRead" /\ file[c] \in UID /\ got[c] = << >> /\ answer[c] # "200"
      /\ UNCHANGED <<treeVars, alive, restarts, file, sent, got, ghosts, disk, temp, wh>>
  BY <1>1 DEF InitRead, initRead, At, Inv, ChunksLeft, DownloadPC, SteadyInv, ReadInv
<1>3. /\ pc'[c] = IF ok THEN "infoFile" ELSE "closeRead"
      /\ \A d \in Conn \ {c} : pc'[d] = pc[d]
  BY <1>1, OthersKept DEF Inv
<1>4. /\ answer'[c] # "200"
      /\ \A d \in Conn \ {c} : answer'[d] = answer[d]
  BY <1>1, <1>2 DEF Answer, Inv, TypeOK
<1>5. /\ rh'[c].data \in {<< >>, Whole}
      /\ ok => rh'[c].position = 0
      /\ \A d \in Conn \ {c} : rh'[d] = rh[d]
  <2>1. CASE ~ok /\ UNCHANGED <<rh, taken>>
    BY <2>1 DEF SteadyInv, ReadInv
  <2>2. CASE disk[file[c]] # Absent /\ TakeBuffer(c, IF ok THEN disk[file[c]] ELSE << >>)
    <3>1. disk[file[c]] \in {<< >>, Whole}
      BY <1>2, <2>2 DEF SteadyInv, ReadInv
    <3> QED
      BY <2>2, <3>1 DEF TakeBuffer, Inv, TypeOK, StoreTypeOK
  <2> QED
    BY <1>1, <2>1, <2>2 DEF initRead
<1> QED
  BY <1>2, <1>3, <1>4, <1>5, DownloadFrame DEF UploadPC

\* infoFile decides whether to read.
LEMMA SteadyInfoFile ==
  ASSUME NoFaults, Inv, SteadyInv, NEW c \in Conn, InfoFile(c)
  PROVE  SteadyInv'
<1>1. PICK label \in {"reading", "closeRead"} : Goto(c, label)
  BY DEF InfoFile
<1>2. /\ pc[c] = "infoFile" /\ UNCHANGED <<storeVars, treeVars, alive, file, sent, got, ghosts>>
      /\ UNCHANGED answer \/ Answer(c, "400")
  BY DEF InfoFile, At
<1>3. pc'[c] = label /\ \A d \in Conn \ {c} : pc'[d] = pc[d]
  BY <1>1, OthersKept DEF Inv
<1>4. answer[c] # "200" /\ got[c] = << >> /\ rh[c].position = 0 /\ rh[c].data \in {<< >>, Whole}
  BY <1>2 DEF SteadyInv, ReadInv
<1>5. answer'[c] # "200" /\ \A d \in Conn \ {c} : answer'[d] = answer[d]
  BY <1>2, <1>4 DEF Answer, Inv, TypeOK
<1>6. Prefix(0) = << >>
  BY PrefixGrows
<1> QED
  BY <1>2, <1>3, <1>4, <1>5, <1>6, DownloadFrame DEF UploadPC, storeVars

\* After its last chunk a download has sent all of what it opened.
LEMMA SteadyRead ==
  ASSUME NoFaults, Inv, SteadyInv, NEW c \in Conn, Read(c)
  PROVE  SteadyInv'
<1> DEFINE data == rh[c].data
<1> DEFINE n == rh[c].position
<1>1. PICK ok \in BOOLEAN :
       /\ readFile(c, ok)
       /\ got' = [got EXCEPT ![c] = IF ok THEN got[c] \o nextChunk(c) ELSE got[c]]
       /\ \/ ~ok /\ Answer(c, "400") /\ Goto(c, "held")
          \/ ok /\ atLast(c) /\ Answer(c, "200") /\ Goto(c, "finishRead")
          \/ ok /\ ~atLast(c) /\ UNCHANGED <<answer, pc>>
          \/ ok /\ ~atLast(c) /\ Backpressure /\ UNCHANGED answer /\ Goto(c, "held")
  BY DEF Read
<1>2. /\ pc[c] = "reading" /\ answer[c] # "200" /\ data \in {<< >>, Whole}
      /\ got[c] = IF data = << >> THEN << >> ELSE Prefix(n)
      /\ UNCHANGED <<disk, temp, wh, treeVars, alive, restarts, file, sent, ghosts>>
  BY <1>1 DEF Read, readFile, At, SteadyInv, ReadInv
<1>3. /\ rh'[c].data = data /\ rh'[c].position = IF ok THEN n + 1 ELSE n
      /\ got'[c] = IF ok THEN got[c] \o nextChunk(c) ELSE got[c]
      /\ \A d \in Conn \ {c} : rh'[d] = rh[d] /\ got'[d] = got[d]
  BY <1>1 DEF readFile, Inv, TypeOK, StoreTypeOK, ReadHandle
<1>4. n \in Nat /\ (data = Whole => n < Chunks /\ Len(data) = Chunks)
  <2>1. n \in Nat
    BY DEF Inv, TypeOK, StoreTypeOK, ReadHandle
  <2>2. data = << >> \/ n < Len(data)
    BY <1>2 DEF Inv, ChunksLeft
  <2>3. Whole # << >> /\ Len(Whole) = Chunks
    BY WholeFile, ChunksAssumption DEF Whole
  <2> QED
    BY <2>1, <2>2, <2>3
<1>5. got[c] \o nextChunk(c) = IF data = << >> THEN << >> ELSE Prefix(n + 1)
  <2>1. CASE data = << >>
    BY <1>2, <2>1 DEF nextChunk
  <2>2. CASE data # << >>
    <3>1. data = Whole /\ data[n + 1] = n + 1
      BY <1>2, <1>4, <2>2, ChunksAssumption DEF Whole
    <3>2. nextChunk(c) = <<n + 1>>
      BY <2>2, <3>1 DEF nextChunk
    <3> QED
      BY <1>2, <1>4, <2>2, <3>2, PrefixGrows
  <2> QED BY <2>1, <2>2
<1>6. atLast(c) => got[c] \o nextChunk(c) \in {<< >>, Whole}
  <2>1. CASE data = << >>
    BY <1>5, <2>1
  <2>2. CASE data # << >>
    <3>1. atLast(c) => n + 1 = Chunks
      BY <1>2, <1>4, <2>2, ChunksAssumption DEF atLast
    <3> QED
      BY <1>4, <1>5, <2>2, <3>1, PrefixGrows
  <2> QED BY <2>1, <2>2
<1>7. CASE ok /\ ~atLast(c) /\ UNCHANGED <<answer, pc>>
  BY <1>2, <1>3, <1>5, <1>7, DownloadFrame DEF UploadPC
<1>8. CASE ok /\ atLast(c) /\ Answer(c, "200") /\ Goto(c, "finishRead")
  <2>1. pc'[c] = "finishRead" /\ \A d \in Conn \ {c} : pc'[d] = pc[d]
    BY <1>8, OthersKept DEF Inv
  <2>2. \A d \in Conn \ {c} : answer'[d] = answer[d]
    BY <1>8 DEF Answer, Inv, TypeOK
  <2> QED
    BY <1>2, <1>3, <1>6, <1>8, <2>1, <2>2, DownloadFrame DEF UploadPC
<1>9. CASE Goto(c, "held") /\ (UNCHANGED answer \/ Answer(c, "400"))
  <2>1. pc'[c] = "held" /\ \A d \in Conn \ {c} : pc'[d] = pc[d]
    BY <1>9, OthersKept DEF Inv
  <2>2. answer'[c] # "200" /\ \A d \in Conn \ {c} : answer'[d] = answer[d]
    BY <1>2, <1>9 DEF Answer, Inv, TypeOK
  <2> QED
    BY <1>2, <1>3, <2>1, <2>2, DownloadFrame DEF UploadPC
<1> QED
  BY <1>1, <1>7, <1>8, <1>9

\* A download that is over keeps what it sent.
LEMMA SteadyCloseRead ==
  ASSUME NoFaults, Inv, SteadyInv, NEW c \in Conn, CloseRead(c)
  PROVE  SteadyInv'
<1>1. /\ Goto(c, "idle") /\ rh' = [rh EXCEPT ![c].open = FALSE]
      /\ UNCHANGED <<disk, temp, wh, treeVars, alive, file, sent, answer, got, ghosts>>
  BY DEF CloseRead, closeRead
<1>2. pc'[c] = "idle" /\ \A d \in Conn \ {c} : pc'[d] = pc[d]
  BY <1>1, OthersKept DEF Inv
<1>3. rh'[c].data = rh[c].data /\ \A d \in Conn \ {c} : rh'[d] = rh[d]
  BY <1>1 DEF Inv, TypeOK, StoreTypeOK, ReadHandle
<1>4. rh[c].data \in {<< >>, Whole} /\ (answer[c] = "200" => got[c] \in {<< >>, Whole})
  BY DEF SteadyInv, ReadInv
<1> QED
  BY <1>1, <1>2, <1>3, <1>4, DownloadFrame DEF UploadPC

\* A client that leaves has its upload reverted, or its download closed.
LEMMA SteadyHangUp ==
  ASSUME NoFaults, Inv, SteadyInv, NEW c \in Conn, HangUp(c)
  PROVE  SteadyInv'
<1>0. UNCHANGED <<storeVars, treeVars, alive, restarts, file, sent, answer, got, ghosts>>
  BY DEF HangUp
<1>1. CASE At(c, "receiving") /\ Goto(c, "revertVFS")
  <2>1. pc[c] \in UploadPC /\ pc[c] = "receiving" /\ alive
    BY <1>1 DEF At, UploadPC
  <2>2. pc'[c] = "revertVFS" /\ \A d \in Conn \ {c} : pc'[d] = pc[d]
    BY <1>1, OthersKept DEF Inv
  <2>3. Progressed(c)' /\ Settled(file[c])'
    BY <1>0, <2>1, <2>2, UploadFacts
    DEF Progressed, Settled, storeVars, treeVars, ghosts, WritePC
  <2>4. UploadInv'
    BY <1>0, <2>1, <2>2, <2>3, UploadFrame DEF SteadyInv, storeVars, treeVars, ghosts
  <2>5. ReadInv'
    BY <1>0, <2>1, <2>2, UploadFacts, ReadFrame
    DEF SteadyInv, ReadInv, Progressed, storeVars, DownloadPC
  <2> QED
    BY <2>4, <2>5 DEF SteadyInv
<1>2. CASE At(c, "held") /\ Goto(c, "closeRead")
  <2>1. pc'[c] = "closeRead" /\ \A d \in Conn \ {c} : pc'[d] = pc[d]
    BY <1>2, OthersKept DEF Inv
  <2>2. answer[c] # "200" /\ rh[c].data \in {<< >>, Whole}
    BY <1>2 DEF At, SteadyInv, ReadInv
  <2> QED
    BY <1>0, <2>1, <2>2, DownloadFrame DEF UploadPC, storeVars
<1> QED
  BY <1>1, <1>2 DEF HangUp

-----------------------------------------------------------------------------
(* The theorems.                                                           *)

\* Every step keeps the invariant.
LEMMA SteadyStep ==
  ASSUME NoFaults, Inv, SteadyInv, [Next]_vars
  PROVE  SteadyInv'
<1>1. CASE \E c \in Conn : Handler(c) \/ OnData(c) \/ HangUp(c) \/ Request(c)
  <2>1. PICK c \in Conn : Handler(c) \/ OnData(c) \/ HangUp(c) \/ Request(c)
    BY <1>1
  <2>2. CASE Handler(c)
    BY <2>2, SteadyFileWrite, SteadyCreateFile, SteadyInitWrite, SteadyCommitUnlink,
       SteadyCommitRename, SteadyRevertVFS, SteadyRevertWrite, SteadyRevertFile,
       SteadyInitRead, SteadyInfoFile, SteadyRead, SteadyCloseRead DEF Handler
  <2>3. CASE Request(c)
    BY <2>3, SteadyBeginUpload, SteadyBeginDownload, SteadyFileDelete DEF Request
  <2> QED
    BY <2>1, <2>2, <2>3, SteadyOnData, SteadyHangUp
<1>2. CASE Crash \/ Restart
  <2>1. restarts \in Nat /\ MaxRestarts = 0
    BY DEF NoFaults, Inv, TypeOK
  <2> QED
    BY <1>2, <2>1 DEF Crash, Restart
<1>3. CASE UNCHANGED vars
  BY <1>3, UploadUntouched
  DEF vars, storeVars, treeVars, connVars, ghosts, SteadyInv, ReadInv
<1> QED
  BY <1>1, <1>2, <1>3 DEF Next

\* Without faults every upload and download is where its handler has got to.
LEMMA SteadyCorrect == ASSUME NoFaults PROVE Spec => []SteadyInv
<1>1. Init => SteadyInv
  <2> SUFFICES ASSUME Init PROVE SteadyInv
    OBVIOUS
  <2>1. Root \in Nat
    BY RootAssumption
  <2>2. \A e \in entries : ~e.directory /\ e.parent = Root /\ e.id < nextUID
    BY <2>1 DEF Init, InitialTree, File
  <2>3. \A f \in UID : Settled(f) /\ Untouched(f)
    BY DEF Init, StoreInit, Settled, Untouched
  <2>4. UploadInv
    BY <2>1, <2>2, <2>3 DEF UploadInv, Init, Each, UploadPC
  <2>5. ReadInv
    BY DEF ReadInv, Init, StoreInit, Each, NewReadHandle
  <2> QED
    BY <2>4, <2>5 DEF SteadyInv
<1>2. Inv /\ SteadyInv /\ [Next]_vars => SteadyInv'
  BY SteadyStep
<1> QED
  BY <1>1, <1>2, InvCorrect, PTL DEF Spec

\* All: an upload that was answered with 200 has left its data, complete, under
\* the name of its target, whatever the other clients do meanwhile and after.
THEOREM StoredCorrect == ASSUME NoFaults PROVE Spec => []StoredWhole
<1>1. SteadyInv => StoredWhole
  BY DEF SteadyInv, UploadInv, Settled, StoredWhole
<1> QED
  BY <1>1, SteadyCorrect, PTL

\* Or nothing: an upload whose client left has left no entry and no file.
THEOREM RevertCorrect == ASSUME NoFaults PROVE Spec => []RevertRestores
<1>1. SteadyInv => RevertRestores
  BY DEF SteadyInv, UploadInv, Settled, RevertRestores
<1> QED
  BY <1>1, SteadyCorrect, PTL

\* And a download that ended well is a whole file, or nothing of one that is
\* still uploaded, also when it is committed, reverted or deleted meanwhile.
THEOREM ReadCorrect == ASSUME NoFaults PROVE Spec => []ReadWhole
<1>1. SteadyInv => ReadWhole
  BY DEF SteadyInv, ReadInv, ReadWhole
<1> QED
  BY <1>1, SteadyCorrect, PTL

=============================================================================
