-------------------------- MODULE LocalFileSystem --------------------------
(***************************************************************************)
(* LocalFileSystemDatastore: the physical files of one endpoint, a target  *)
(* "<uid>" and a temporary file "<uid>T" each, the write and read handles  *)
(* of the transactions, and the pool of read buffers they share.           *)
(*                                                                         *)
(* Every method is an action with its result as the last parameter.  A     *)
(* system call may fail, at most MaxFaults times.  closeWrite with         *)
(* revert = FALSE makes two system calls that the disk sees one after the  *)
(* other, so it is two actions.  The contents of a file are the chunks     *)
(* written to it; a short write leaves a part of a chunk.                  *)
(*                                                                         *)
(* A reader keeps the inode it opened: the target's inode is never written *)
(* in place, so what it will read is fixed when the file is opened.        *)
(* Numbers of descriptors and the callbacks' log lines are left out.       *)
(***************************************************************************)
EXTENDS Naturals, Sequences

CONSTANTS
  Conn,       \* connections; each owns at most one transaction
  UID,        \* the file ids in use
  Chunks,     \* how many chunks a client sends for a file
  Buffer,     \* the read buffers (25 in config.h)
  Absent,     \* no such file
  MaxFaults   \* bound: how many system calls fail

ASSUME ChunksAssumption == Chunks \in Nat \ {0}
ASSUME UIDAssumption == UID \subseteq Nat \ {0}
ASSUME BufferAssumption == 0 \notin Buffer
ASSUME MaxFaultsAssumption == MaxFaults \in Nat

VARIABLES
  disk,    \* disk[f]: contents of the target file, or Absent
  temp,    \* temp[f]: contents of the temporary file, or Absent
  wh,      \* wh[c]: the WriteHandle of c's transaction
  rh,      \* rh[c]: the ReadHandle of c's transaction
  taken,   \* the buffers whose flag is set
  faults   \* how many system calls have failed

storeVars == <<disk, temp, wh, rh, taken, faults>>

Part(k)  == Chunks + k
Piece    == 1..(2 * Chunks)
Content  == Seq(Piece)

ASSUME AbsentAssumption == Absent \notin Content

Whole    == [k \in 1..Chunks |-> k]

NoFile == 0
NoBuffer == 0

WriteHandle == [file : UID \union {NoFile}, open : BOOLEAN, done : BOOLEAN]
ReadHandle  == [open : BOOLEAN, buffer : Buffer \union {NoBuffer},
                data : Content, position : Nat]

NewWriteHandle == [file |-> NoFile, open |-> FALSE, done |-> FALSE]
NewReadHandle  == [open |-> FALSE, buffer |-> NoBuffer, data |-> << >>, position |-> 0]

writeValid(c) == wh[c].file # NoFile /\ wh[c].open
readValid(c)  == rh[c].open /\ rh[c].buffer # NoBuffer

StoreInit ==
  /\ disk = [f \in UID |-> Absent]
  /\ temp = [f \in UID |-> Absent]
  /\ wh = [c \in Conn |-> NewWriteHandle]
  /\ rh = [c \in Conn |-> NewReadHandle]
  /\ taken = {}
  /\ faults = 0

StoreTypeOK ==
  /\ disk \in [UID -> Content \union {Absent}]
  /\ temp \in [UID -> Content \union {Absent}]
  /\ wh \in [Conn -> WriteHandle]
  /\ rh \in [Conn -> ReadHandle]
  /\ taken \subseteq Buffer
  /\ faults \in 0..MaxFaults

\* A call that can succeed fails only by a fault; one that cannot, fails.
Result(ok, can) ==
  /\ ok => can
  /\ faults' = IF can /\ ~ok THEN faults + 1 ELSE faults
  /\ faults' <= MaxFaults

-----------------------------------------------------------------------------
(* Files.                                                                  *)

\* O_EXCL: the file must not be there.  When close fails it is, nevertheless.
createFile(f, ok) ==
  LET can == disk[f] = Absent
  IN  /\ Result(ok, can)
      /\ disk' \in {[disk EXCEPT ![f] = IF can THEN << >> ELSE @]}
                     \union (IF ok THEN {} ELSE {disk})
      /\ UNCHANGED <<temp, wh, rh, taken>>

deleteFile(f, ok) ==
  /\ Result(ok, disk[f] # Absent)
  /\ disk' = [disk EXCEPT ![f] = IF ok THEN Absent ELSE @]
  /\ UNCHANGED <<temp, wh, rh, taken>>

-----------------------------------------------------------------------------
(* Writes go to the temporary file, which replaces the target on commit.   *)

initWrite(c, f, ok) ==
  /\ Result(ok, disk[f] # Absent)
  /\ temp' = [temp EXCEPT ![f] = IF ok THEN << >> ELSE @]
  /\ wh' = [wh EXCEPT ![c] = IF ok THEN [file |-> f, open |-> TRUE, done |-> FALSE] ELSE @]
  /\ UNCHANGED <<disk, rh, taken>>

writeFile_AtStart(c, chunk, isLast, ok) ==
  LET f == wh[c].file
      can == writeValid(c) /\ ~wh[c].done
  IN  /\ Result(ok, can)
      /\ temp' = [g \in UID |-> IF can /\ g = f THEN <<chunk>> ELSE temp[g]]
      /\ wh' = [wh EXCEPT ![c].done = @ \/ (ok /\ isLast)]
      /\ UNCHANGED <<disk, rh, taken>>

\* What is written goes where the bytes written so far end: all of the chunk,
\* or, when the call fails, nothing or a part of it.
writeFile(c, chunk, isLast, ok) ==
  LET f == wh[c].file
      can == writeValid(c) /\ ~wh[c].done
  IN  /\ Result(ok, can)
      /\ \E written \in (IF ok THEN {<<chunk>>} ELSE {<< >>, <<Part(chunk)>>}) :
           temp' = [g \in UID |-> IF can /\ g = f THEN temp[g] \o written ELSE temp[g]]
      /\ wh' = [wh EXCEPT ![c].done = @ \/ (ok /\ isLast)]
      /\ UNCHANGED <<disk, rh, taken>>

Closed(c) == wh' = [wh EXCEPT ![c].open = FALSE]

closeWriteRevert_KeepsTemp(c, ok) ==
  /\ Result(ok, writeValid(c) /\ temp[wh[c].file] # Absent)
  /\ Closed(c)
  /\ UNCHANGED <<disk, temp, rh, taken>>

\* closeWrite, revert = TRUE.
closeWriteRevert(c, ok) ==
  /\ Result(ok, writeValid(c) /\ temp[wh[c].file] # Absent)
  /\ temp' = [f \in UID |-> IF ok /\ f = wh[c].file THEN Absent ELSE temp[f]]
  /\ Closed(c)
  /\ UNCHANGED <<disk, rh, taken>>

\* closeWrite, revert = FALSE: unlink the target ...
closeWriteUnlink(c, ok) ==
  /\ Result(ok, writeValid(c) /\ disk[wh[c].file] # Absent)
  /\ disk' = [f \in UID |-> IF ok /\ f = wh[c].file THEN Absent ELSE disk[f]]
  /\ UNCHANGED <<temp, wh, rh, taken>>

closeWriteRename_StaysOpen(c, ok) ==
  /\ Result(ok, writeValid(c) /\ temp[wh[c].file] # Absent)
  /\ disk' = [f \in UID |-> IF ok /\ f = wh[c].file THEN temp[f] ELSE disk[f]]
  /\ temp' = [f \in UID |-> IF ok /\ f = wh[c].file THEN Absent ELSE temp[f]]
  /\ UNCHANGED <<wh, rh, taken>>

\* ... then rename the temporary file to it, and close both.
closeWriteRename(c, ok) ==
  /\ Result(ok, writeValid(c) /\ temp[wh[c].file] # Absent)
  /\ disk' = [f \in UID |-> IF ok /\ f = wh[c].file THEN temp[f] ELSE disk[f]]
  /\ temp' = [f \in UID |-> IF ok /\ f = wh[c].file THEN Absent ELSE temp[f]]
  /\ Closed(c)
  /\ UNCHANGED <<rh, taken>>

-----------------------------------------------------------------------------
(* Reads hold one of the shared buffers from initRead to closeRead.        *)

\* The scan takes a buffer whose flag it finds clear; a concurrent closeRead
\* may clear an earlier one behind it, so which one it gets is left open.
TakeBuffer(c, data) ==
  \E b \in Buffer \ taken :
    /\ taken' = taken \union {b}
    /\ rh' = [rh EXCEPT ![c] = [open |-> TRUE, buffer |-> b, data |-> data, position |-> 0]]

\* It fails when the file cannot be opened, when every buffer is taken, and,
\* with the buffer in hand, when fstat fails.
initRead(c, f, ok) ==
  LET can == disk[f] # Absent /\ taken # Buffer
  IN  /\ Result(ok, can)
      /\ \/ can /\ TakeBuffer(c, IF ok THEN disk[f] ELSE << >>)
         \/ ~ok /\ UNCHANGED <<rh, taken>>
      /\ UNCHANGED <<disk, temp, wh>>

\* One chunk at a time; an empty file gives one empty chunk.
nextChunk(c) ==
  LET h == rh[c] IN IF h.data = << >> THEN << >> ELSE <<h.data[h.position + 1]>>

atLast_OneEarly(c) == rh[c].position + 2 >= Len(rh[c].data)

atLast(c) == rh[c].position + 1 >= Len(rh[c].data)

readFile(c, ok) ==
  /\ Result(ok, readValid(c))
  /\ rh' = [rh EXCEPT ![c].position = IF ok THEN @ + 1 ELSE @]
  /\ UNCHANGED <<disk, temp, wh, taken>>

closeRead_KeepsBuffer(c) ==
  /\ rh' = [rh EXCEPT ![c].open = FALSE]
  /\ UNCHANGED <<disk, temp, wh, taken, faults>>

\* An invalid handle is left alone.
closeRead(c) ==
  /\ taken' = IF readValid(c) THEN taken \ {rh[c].buffer} ELSE taken
  /\ rh' = [rh EXCEPT ![c].open = FALSE]
  /\ UNCHANGED <<disk, temp, wh, faults>>

=============================================================================
