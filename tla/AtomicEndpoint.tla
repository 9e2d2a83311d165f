--------------------------- MODULE AtomicEndpoint ---------------------------
(***************************************************************************)
(* What a storage endpoint promises its callers: every operation on the    *)
(* virtual file system takes effect at one instant between its call and    *)
(* its return, on the whole tree.  docs/implementation/Filesystem.md says  *)
(* "All operations in the VFS are atomic and instant".  There are no locks,*)
(* searches or pointers here; StorageEndpoint shows how the code goes      *)
(* about it, and when it keeps the promise.                                *)
(***************************************************************************)
EXTENDS VirtualFilesystem

CONSTANTS
  Thread,   \* the threads of the web server
  MaxUID    \* bound: the largest uid handed out, or named by a request

VARIABLES
  entries,  \* the tree
  nextUID,  \* the counter behind FileID
  stage,    \* stage[t]: idle, called (not yet taken effect) or done
  req,      \* req[t]: the request thread t serves
  reply     \* reply[t]: its result once done

vars == <<entries, nextUID, stage, req, reply>>

CreateOp == {"fileCreate", "dirCreate"}
LookupOp == {"fileWrite", "fileRead", "infoFile"}
OtherOp  == LookupOp \union {"fileDelete", "dirDelete", "dirGetEntries"}

CreateRequest == [op : CreateOp, id : 1..MaxUID, name : Name]
OtherRequest  == [op : OtherOp, id : 0..MaxUID]
RevertRequest == [op : {"revert"}, id : 1..MaxUID, file : 1..MaxUID]
Request       == CreateRequest \union OtherRequest \union RevertRequest

Status == {"OK", "ERR_INVALID_FILE_NAME", "ERR_NO_SUCH_DIR",
           "ERR_NO_SUCH_FILE", "ERR_NO_UNIQUE_NAME", "ERR_UNSUCCESSFUL"}

Reply    == [status : Status, id : Nat, listing : SUBSET Entry]
Plain(s) == [status |-> s, id |-> NULL, listing |-> {}]
NoReply  == Plain("OK")
NoReq    == [op |-> "infoFile", id |-> NULL]

Init ==
  /\ entries = InitialTree
  /\ nextUID = Root + 2
  /\ stage = [t \in Thread |-> "idle"]
  /\ req = [t \in Thread |-> NoReq]
  /\ reply = [t \in Thread |-> NoReply]

Call(t, r) ==
  /\ stage[t] = "idle"
  /\ stage' = [stage EXCEPT ![t] = "called"]
  /\ req' = [req EXCEPT ![t] = r]
  /\ UNCHANGED <<entries, nextUID, reply>>

Answer(t, a) ==
  /\ stage[t] = "called"
  /\ stage' = [stage EXCEPT ![t] = "done"]
  /\ reply' = [reply EXCEPT ![t] = a]
  /\ UNCHANGED req

Refuse(t, status) ==
  Answer(t, Plain(status)) /\ UNCHANGED <<entries, nextUID>>

\* A creation: of a valid name, free among the entries of its kind.
Create(t) ==
  LET r == req[t]
      exists(fs, d, n) == IF r.op = "fileCreate" THEN fileNameExists(fs, d, n)
                                                 ELSE dirNameExists(fs, d, n)
      new == IF r.op = "fileCreate" THEN File(nextUID, r.id, r.name)
                                    ELSE Directory(nextUID, r.id, r.name)
      ack == IF r.op = "fileCreate" THEN [Plain("OK") EXCEPT !.id = nextUID]
                                    ELSE Plain("OK")
  IN  /\ r.op \in CreateOp
      /\ \/ r.name \notin ValidName /\ Refuse(t, "ERR_INVALID_FILE_NAME")
         \/ /\ r.name \in ValidName
            /\ findDir(entries, r.id) = NULL
            /\ Refuse(t, "ERR_NO_SUCH_DIR")
         \/ /\ r.name \in ValidName
            /\ findDir(entries, r.id) # NULL
            /\ exists(entries, r.id, r.name)
            /\ Refuse(t, "ERR_NO_UNIQUE_NAME")
         \/ /\ r.name \in ValidName
            /\ findDir(entries, r.id) # NULL
            /\ ~exists(entries, r.id, r.name)
            /\ Answer(t, ack)
            /\ entries' = entries \union {new}
            /\ nextUID' = nextUID + 1

\* A deletion: of a file, or of a directory that has no entries.
Delete(t) ==
  LET r     == req[t]
      owned == {e \in entries : e.id = r.id}
      gone  == {e \in owned : IF r.op = "fileDelete"
                                THEN ~e.directory
                                ELSE e.directory /\ collectEntries(entries, e.id) = {}}
  IN  /\ r.op \in {"fileDelete", "dirDelete"}
      /\ \/ owned = {} /\ Refuse(t, "ERR_NO_SUCH_DIR")
         \/ owned # {} /\ gone = {} /\ Refuse(t, "ERR_UNSUCCESSFUL")
         \/ /\ gone # {}
            /\ Answer(t, Plain("OK"))
            /\ entries' = entries \ gone
            /\ UNCHANGED nextUID

\* An upload that was given up takes its file back, if that is still there.
Revert(t) ==
  LET r == req[t]
  IN  /\ r.op = "revert"
      /\ Answer(t, Plain("OK"))
      /\ entries' = entries \ (IF findDir(entries, r.id) = NULL THEN {}
                               ELSE fileDelete(entries, r.id, r.file))
      /\ UNCHANGED nextUID

\* A read: of one file's entry, or of all the entries of a directory.
Read(t) ==
  LET r == req[t]
  IN  \/ /\ r.op \in LookupOp
         /\ Refuse(t, IF findFile(entries, r.id) = NULL THEN "ERR_NO_SUCH_FILE" ELSE "OK")
      \/ /\ r.op = "dirGetEntries"
         /\ findDir(entries, r.id) = NULL
         /\ Refuse(t, "ERR_NO_SUCH_DIR")
      \/ /\ r.op = "dirGetEntries"
         /\ findDir(entries, r.id) # NULL
         /\ Answer(t, [Plain("OK") EXCEPT !.listing = collectEntries(entries, r.id)])
         /\ UNCHANGED <<entries, nextUID>>

Return(t) ==
  /\ stage[t] = "done"
  /\ stage' = [stage EXCEPT ![t] = "idle"]
  /\ req' = [req EXCEPT ![t] = NoReq]
  /\ reply' = [reply EXCEPT ![t] = NoReply]
  /\ UNCHANGED <<entries, nextUID>>

Next ==
  \E t \in Thread :
    \/ \E r \in Request : Call(t, r)
    \/ Create(t) \/ Delete(t) \/ Revert(t) \/ Read(t) \/ Return(t)

Spec == Init /\ [][Next]_vars

=============================================================================
