-------------------------- MODULE VirtualFilesystem --------------------------
(***************************************************************************)
(* The in-memory directory tree of one storage endpoint: the classes       *)
(* VirtualFilesystem, VirtualDirectory and VirtualFile as operators on a   *)
(* set of entries.  The C++ tree owns its children by value (a directory   *)
(* holds the vectors `files' and `dirs'); here every file and directory    *)
(* but the root is an entry that names its parent.  An entry exists in the *)
(* set exactly while it is reachable from the root in the program, because *)
(* a directory that is erased takes its vectors with it.                   *)
(*                                                                         *)
(* A FileID is abstracted to its uid, the only part that distinguishes two *)
(* ids of one endpoint: the flag `directory' of an id is the kind of the   *)
(* entry that owns it.  0 stands for a null pointer, uids start at 1.      *)
(***************************************************************************)
EXTENDS Naturals

CONSTANTS
  Name,       \* names a client may send
  ValidName,  \* those IsValidFilename accepts
  Root,       \* uid of the root directory of this endpoint
  TestFile    \* name of the file the constructor of the endpoint adds

ASSUME NameAssumption == ValidName \subseteq Name /\ TestFile \in ValidName
ASSUME RootAssumption == Root \in Nat \ {0}

NULL == 0

Entry == [id : Nat, directory : BOOLEAN, parent : Nat, name : Name]

File(uid, dir, name) ==
  [id |-> uid, directory |-> FALSE, parent |-> dir, name |-> name]

Directory(uid, dir, name) ==
  [id |-> uid, directory |-> TRUE, parent |-> dir, name |-> name]

-----------------------------------------------------------------------------
(* Searches: each walks the whole tree from the root.                      *)

findFile(fs, uid) ==
  IF \E e \in fs : e.id = uid /\ ~e.directory THEN uid ELSE NULL

findDir(fs, uid) ==
  IF uid = Root \/ \E e \in fs : e.id = uid /\ e.directory THEN uid ELSE NULL

findContainingDir(fs, uid) ==
  IF \E e \in fs : e.id = uid
    THEN (CHOOSE e \in fs : e.id = uid).parent
    ELSE NULL

-----------------------------------------------------------------------------
(* One directory: its names, its entries, and what it adds and erases.     *)

\* Definitions named X_Y, here and in the other modules, are X with the mistake Y.
fileNameExists_AmongDirs(fs, dir, name) ==
  \E e \in fs : e.directory /\ e.parent = dir /\ e.name = name

fileNameExists(fs, dir, name) ==
  \E e \in fs : ~e.directory /\ e.parent = dir /\ e.name = name

dirNameExists_AmongFiles(fs, dir, name) ==
  \E e \in fs : ~e.directory /\ e.parent = dir /\ e.name = name

dirNameExists(fs, dir, name) ==
  \E e \in fs : e.directory /\ e.parent = dir /\ e.name = name

collectEntries(fs, dir) == {e \in fs : e.parent = dir}

fileAdd(fs, dir, name, uid) == fs \union {File(uid, dir, name)}

dirAdd(fs, dir, name, uid) == fs \union {Directory(uid, dir, name)}

\* What fileDelete of directory dir erases: the file, if it is one of its own.
fileDelete(fs, dir, uid) ==
  {e \in fs : e.id = uid /\ ~e.directory /\ e.parent = dir}

dirDelete_NotEmpty(fs, dir, uid) ==
  {e \in fs : e.id = uid /\ e.directory /\ e.parent = dir}

\* What dirDelete of directory dir erases: the subdirectory, if it is empty.
dirDelete(fs, dir, uid) ==
  {e \in fs : /\ e.id = uid /\ e.directory /\ e.parent = dir
              /\ collectEntries(fs, uid) = {}}

\* The files a directory holds: the vector `files'.
Files(fs, dir) == {e \in fs : ~e.directory /\ e.parent = dir}

\* The subdirectories it holds: the vector `dirs'.
Vector(fs, dir) == {e \in fs : e.directory /\ e.parent = dir}

\* An entry and all that lies below it, which is destroyed with it.
Subtree(fs, e) ==
  {x \in fs : \A S \in SUBSET fs :
      e \in S /\ (\A d \in S, y \in fs : y.parent = d.id => y \in S) => x \in S}

\* The tree a new endpoint starts with: the root, which takes the first uid,
\* and one file, which takes the next.
InitialTree == {File(Root + 1, Root, TestFile)}

=============================================================================
