------------------------ MODULE StorageEndpointProofs ------------------------
(***************************************************************************)
(* Proofs about StorageEndpoint, for every number of threads, set of names,*)
(* bound and reserve.  The invariants hold of the code as it is, with      *)
(* dirCreate and the destructor of uploads racing with everything; that    *)
(* the endpoint implements AtomicEndpoint needs that no request overlaps   *)
(* one of those two.                                                       *)
(***************************************************************************)
EXTENDS StorageEndpoint, FiniteSetTheorems, TLAPS

USE NameAssumption, RootAssumption, MaxUIDAssumption, ReserveAssumption,
    UnlockedAloneAssumption, NoOwnerAssumption

\* AtomicEndpoint instantiates the operators on trees once more: they are the
\* same operators.
LEMMA AtomicTree ==
  /\ Atomic!NULL = NULL
  /\ Atomic!Entry = Entry
  /\ Atomic!InitialTree = InitialTree
  /\ \A fs, d, n : Atomic!fileNameExists(fs, d, n) = fileNameExists(fs, d, n)
  /\ \A fs, d, n : Atomic!dirNameExists(fs, d, n) = dirNameExists(fs, d, n)
  /\ \A fs, d : Atomic!collectEntries(fs, d) = collectEntries(fs, d)
  /\ \A fs, d, u : Atomic!fileDelete(fs, d, u) = fileDelete(fs, d, u)
  /\ \A u, d, n : Atomic!File(u, d, n) = File(u, d, n)
  /\ \A u, d, n : Atomic!Directory(u, d, n) = Directory(u, d, n)
  /\ \A fs, u : Atomic!findFile(fs, u) = findFile(fs, u)
  /\ \A fs, u : Atomic!findDir(fs, u) = findDir(fs, u)
BY DEF Atomic!NULL, NULL, Atomic!Entry, Entry, Atomic!InitialTree, InitialTree,
       Atomic!fileNameExists, fileNameExists, Atomic!dirNameExists, dirNameExists,
       Atomic!collectEntries, collectEntries, Atomic!fileDelete, fileDelete,
       Atomic!File, File, Atomic!Directory, Directory,
       Atomic!findFile, findFile, Atomic!findDir, findDir

\* The values the initial state and Return use have their types, and so has
\* a reply that carries a status only.
LEMMA ConstantTypes ==
  /\ Atomic!NoReq \in Request
  /\ Atomic!NoReply \in Atomic!Reply
  /\ \A s \in Atomic!Status : Plain(s) \in Atomic!Reply
  /\ RootPtr \in Pointer /\ NoPtr \in Pointer /\ NoPtr # RootPtr
BY AtomicTree
   DEF Atomic!NoReq, Atomic!NoReply, Atomic!Plain, Atomic!Reply, Atomic!Status,
       Plain, Request, Atomic!Request, Atomic!OtherRequest, Atomic!OtherOp,
       Atomic!LookupOp, NULL, RootPtr, NoPtr, Pointer

\* The replies of the methods that succeed are replies of the atomic endpoint.
LEMMA OKReplies ==
  /\ Plain("OK") \in Atomic!Reply
  /\ \A u \in Nat : [Plain("OK") EXCEPT !.id = u] \in Atomic!Reply
  /\ \A l \in SUBSET Entry : [Plain("OK") EXCEPT !.listing = l] \in Atomic!Reply
BY AtomicTree
   DEF Plain, Atomic!Plain, Atomic!Reply, Atomic!Status, NULL

\* Of a request only the operation and its arguments are known.
LEMMA RequestFields ==
  ASSUME NEW r \in Request
  PROVE  /\ r.id \in Nat
         /\ r.op \in CreateOp => r.name \in Name
         /\ r.op = "revert" => r.file \in Nat
         /\ r.op \in CreateOp \union LookupOp \union DeleteOp \union {"dirGetEntries", "revert"}
BY DEF Request, Atomic!Request, Atomic!CreateRequest, Atomic!OtherRequest, Atomic!RevertRequest,
       Atomic!OtherOp, CreateOp, LookupOp, DeleteOp, Atomic!CreateOp, Atomic!LookupOp

\* The searches of the methods that work on a directory.
LEMMA FindKinds ==
  ASSUME NEW r
  PROVE  /\ r.op \in DirOp => \A fs : Find(fs, r) = findDir(fs, r.id)
         /\ r.op \in DeleteOp => \A fs : Find(fs, r) = findContainingDir(fs, r.id)
         /\ r.op \in LookupOp => \A fs : Find(fs, r) = findFile(fs, r.id)
         /\ r \in Request => r.op \in DirOp \union DeleteOp \union LookupOp
BY RequestFields DEF Find, DirOp, DeleteOp, CreateOp, LookupOp, Atomic!CreateOp, Atomic!LookupOp

-----------------------------------------------------------------------------
(* Vectors of directories, and the pointers into them.                     *)

\* A tree: finitely many entries, each with a uid of its own.
Tree(fs) == /\ fs \subseteq Entry /\ IsFiniteSet(fs)
            /\ \A e, f \in fs : e.id = f.id => e = f

\* A slot of a vector is the number of the directories before it.
LEMMA SlotType ==
  ASSUME NEW fs, Tree(fs), NEW d
  PROVE  Slot(fs, d) \in Nat
<1>1. {x \in Vector(fs, d.parent) : x.id < d.id} \in SUBSET fs
  BY DEF Vector
<1>2. IsFiniteSet({x \in Vector(fs, d.parent) : x.id < d.id})
  BY <1>1, FS_Subset DEF Tree
<1> QED
  BY <1>2, FS_CardinalityType DEF Slot

\* Of two directories of one vector the one with the smaller uid has the
\* smaller slot.
LEMMA SlotOrder ==
  ASSUME NEW fs, Tree(fs), NEW v, NEW d \in Vector(fs, v), NEW x \in Vector(fs, v),
         d.id < x.id
  PROVE  Slot(fs, d) < Slot(fs, x)
<1> DEFINE A == {y \in Vector(fs, v) : y.id < d.id}
           B == {y \in Vector(fs, v) : y.id < x.id}
<1>1. d.parent = v /\ x.parent = v /\ Slot(fs, d) = Cardinality(A) /\ Slot(fs, x) = Cardinality(B)
  BY DEF Vector, Slot
<1>2. \A y \in Vector(fs, v) : y.id \in Nat
  BY DEF Vector, Tree, Entry
<1>3. A \in SUBSET B /\ d \in B /\ d \notin A
  BY <1>2
<1>4. IsFiniteSet(B)
  <2>1. B \in SUBSET fs
    BY DEF Vector
  <2> QED
    BY <2>1, FS_Subset DEF Tree
<1>5. IsFiniteSet(A) /\ Cardinality(A) <= Cardinality(B) /\ (Cardinality(B) = Cardinality(A) => B = A)
  BY <1>3, <1>4, FS_Subset
<1>6. Cardinality(A) \in Nat /\ Cardinality(B) \in Nat
  BY <1>4, <1>5, FS_CardinalityType
<1> HIDE DEF A, B
<1>7. Cardinality(B) # Cardinality(A)
  BY <1>3, <1>5
<1> QED
  BY <1>1, <1>5, <1>6, <1>7

\* So a slot belongs to one directory of its vector.
LEMMA SlotInjective ==
  ASSUME NEW fs, Tree(fs), NEW v, NEW d \in Vector(fs, v), NEW x \in Vector(fs, v),
         Slot(fs, d) = Slot(fs, x)
  PROVE  d = x
<1>1. d.id \in Nat /\ x.id \in Nat
  BY DEF Vector, Tree, Entry
<1>2. Slot(fs, d) \in Nat /\ Slot(fs, x) \in Nat
  BY SlotType
<1>3. ~(d.id < x.id) /\ ~(x.id < d.id)
  BY <1>2, SlotOrder
<1>4. d.id = x.id
  BY <1>1, <1>3
<1> QED
  BY <1>4 DEF Tree, Vector

\* The directory of a pointer is the one in its slot.
LEMMA AtSlot ==
  ASSUME NEW fs, Tree(fs), NEW p \in Pointer, p # RootPtr,
         NEW d \in Vector(fs, p.vector), Slot(fs, d) = p.slot
  PROVE  At(fs, p) = d.id
<1> DEFINE there == {x \in Vector(fs, p.vector) : Slot(fs, x) = p.slot}
<1>1. d \in there /\ \A x \in there : x = d
  BY SlotInjective
<1>2. (CHOOSE x \in there : TRUE) = d
  BY <1>1
<1> QED
  BY <1>1, <1>2 DEF At

\* A pointer that names a directory other than the root names a slot.
LEMMA AtWitness ==
  ASSUME NEW fs, NEW p, p # RootPtr, At(fs, p) # NULL
  PROVE  \E d \in Vector(fs, p.vector) : Slot(fs, d) = p.slot /\ At(fs, p) = d.id
BY DEF At

\* What a pointer names is the root, a directory of the tree, or nothing.
LEMMA AtLive ==
  ASSUME NEW fs, Tree(fs), NEW p
  PROVE  /\ At(fs, p) \in Nat
         /\ \/ At(fs, p) = NULL
            \/ At(fs, p) = Root
            \/ \E d \in fs : d.directory /\ d.id = At(fs, p)
<1>1. CASE p = RootPtr
  BY <1>1 DEF At
<1>2. CASE p # RootPtr /\ At(fs, p) # NULL
  <2>1. PICK d \in Vector(fs, p.vector) : At(fs, p) = d.id
    BY <1>2, AtWitness
  <2> QED
    BY <2>1 DEF Vector, Tree, Entry
<1>3. CASE At(fs, p) = NULL
  BY <1>3 DEF NULL
<1> QED
  BY <1>1, <1>2, <1>3

\* It depends only on the vector it points into.
LEMMA AtSame ==
  ASSUME NEW fs, NEW gs, NEW p, Vector(fs, p.vector) = Vector(gs, p.vector)
  PROVE  At(fs, p) = At(gs, p)
<1>1. \A d \in Vector(fs, p.vector) : d.parent = p.vector
  BY DEF Vector
<1>2. \A d \in Vector(fs, p.vector) : Slot(fs, d) = Slot(gs, d)
  BY <1>1 DEF Slot
<1>3. {d \in Vector(fs, p.vector) : Slot(fs, d) = p.slot} =
      {d \in Vector(gs, p.vector) : Slot(gs, d) = p.slot}
  BY <1>2
<1> QED
  BY <1>3 DEF At

\* A search's pointer names what the search found.
LEMMA PointerNames ==
  ASSUME NEW fs, Tree(fs), NEW uid,
         uid = Root \/ \E d \in fs : d.directory /\ d.id = uid,
         \A d \in fs : d.parent # NULL
  PROVE  PointerTo(fs, uid) \in Pointer /\ At(fs, PointerTo(fs, uid)) = uid
<1>1. CASE uid = Root
  BY <1>1, ConstantTypes DEF PointerTo, At
<1>2. CASE uid # Root
  <2>1. PICK d \in fs : d.directory /\ d.id = uid
    BY <1>2
  <2>2. (CHOOSE e \in fs : e.id = uid /\ e.directory) = d
    BY <2>1 DEF Tree
  <2>3. PointerTo(fs, uid) = [vector |-> d.parent, slot |-> Slot(fs, d)]
    BY <1>2, <2>2 DEF PointerTo
  <2>4. d.parent \in Nat /\ Slot(fs, d) \in Nat
    BY SlotType DEF Tree, Entry
  <2>5. PointerTo(fs, uid) \in Pointer /\ PointerTo(fs, uid) # RootPtr
    BY <2>3, <2>4 DEF Pointer, RootPtr
  <2>6. d \in Vector(fs, PointerTo(fs, uid).vector) /\ Slot(fs, d) = PointerTo(fs, uid).slot
    BY <2>1, <2>3 DEF Vector
  <2> QED
    BY <2>1, <2>5, <2>6, AtSlot
<1> QED
  BY <1>1, <1>2

\* An append to a vector changes no slot: a pointer names what it named, or
\* the new directory if it named nothing.
LEMMA AtAppend ==
  ASSUME NEW fs, Tree(fs), NEW e \in Entry, \A x \in fs : x.id < e.id, Tree(fs \union {e}),
         NEW p \in Pointer
  PROVE  \/ At(fs \union {e}, p) = At(fs, p)
         \/ At(fs, p) = NULL /\ At(fs \union {e}, p) = e.id /\ e.directory
<1> DEFINE gs == fs \union {e}
<1>0. \A x \in fs : x.id \in Nat /\ e.id \in Nat
  BY DEF Tree, Entry
<1>1. CASE p = RootPtr
  BY <1>1 DEF At
<1>2. CASE p # RootPtr /\ At(fs, p) # NULL
  <2>1. PICK d \in Vector(fs, p.vector) : Slot(fs, d) = p.slot /\ At(fs, p) = d.id
    BY <1>2, AtWitness
  <2>2. d \in Vector(gs, p.vector)
    BY DEF Vector
  <2>3. {x \in Vector(gs, d.parent) : x.id < d.id} = {x \in Vector(fs, d.parent) : x.id < d.id}
    BY <1>0, <2>1 DEF Vector
  <2>4. Slot(gs, d) = p.slot
    BY <2>1, <2>3 DEF Slot
  <2> HIDE DEF gs
  <2>5. At(gs, p) = d.id
    BY <1>2, <2>2, <2>4, AtSlot DEF gs
  <2> QED
    BY <2>1, <2>5 DEF gs
<1>3. CASE p # RootPtr /\ At(fs, p) = NULL /\ At(gs, p) # NULL
  <2>1. PICK d \in Vector(gs, p.vector) : Slot(gs, d) = p.slot /\ At(gs, p) = d.id
    BY <1>3, AtWitness
  <2>2. CASE d \in fs
    <3>1. {x \in Vector(gs, d.parent) : x.id < d.id} = {x \in Vector(fs, d.parent) : x.id < d.id}
      BY <1>0, <2>2 DEF Vector
    <3>2. Slot(fs, d) = p.slot
      BY <2>1, <3>1 DEF Slot
    <3>3. d \in Vector(fs, p.vector)
      BY <2>2 DEF Vector
    <3>4. At(fs, p) = d.id
      BY <1>3, <3>2, <3>3, AtSlot
    <3> QED
      BY <2>1, <3>4
  <2>3. CASE d = e
    BY <1>3, <2>1, <2>3 DEF Vector
  <2> QED
    BY <2>2, <2>3 DEF Vector
<1>4. CASE At(fs, p) = NULL /\ At(gs, p) = NULL
  BY <1>4
<1> QED
  BY <1>1, <1>2, <1>3, <1>4

\* A dangling pointer names nothing.
LEMMA AtNothing ==
  ASSUME NEW fs, \A d \in fs : d.parent # NULL
  PROVE  At(fs, NoPtr) = NULL
BY ConstantTypes DEF At, NoPtr, Vector

-----------------------------------------------------------------------------
(* What goes with a directory.                                             *)

Closed(fs, S) == \A d \in S, y \in fs : y.parent = d.id => y \in S

\* An entry is part of what lies below it, and so is all that lies in that.
LEMMA SubtreeClosed ==
  ASSUME NEW fs, NEW e \in fs
  PROVE  /\ Subtree(fs, e) \subseteq fs /\ e \in Subtree(fs, e)
         /\ Closed(fs, Subtree(fs, e))
<1>1. Subtree(fs, e) = {x \in fs : \A S \in SUBSET fs : e \in S /\ Closed(fs, S) => x \in S}
  BY DEF Subtree, Closed
<1>2. ASSUME NEW d \in Subtree(fs, e), NEW y \in fs, y.parent = d.id
      PROVE  y \in Subtree(fs, e)
  <2>1. ASSUME NEW S \in SUBSET fs, e \in S, Closed(fs, S) PROVE y \in S
    <3>1. d \in S
      BY <1>1, <2>1
    <3> QED
      BY <1>2, <2>1, <3>1 DEF Closed
  <2> QED
    BY <1>1, <2>1
<1> QED
  BY <1>1, <1>2 DEF Closed

\* It is in every closed set that the entry is in.
LEMMA SubtreeLeast ==
  ASSUME NEW fs, NEW e, NEW S \in SUBSET fs, e \in S, Closed(fs, S)
  PROVE  Subtree(fs, e) \subseteq S
BY DEF Subtree, Closed

\* Whatever lies below an entry, and is not that entry, lies in an entry below it.
LEMMA SubtreeParent ==
  ASSUME NEW fs, NEW e \in fs, NEW x \in Subtree(fs, e), x # e
  PROVE  \E d \in Subtree(fs, e) : x.parent = d.id
<1> DEFINE T == Subtree(fs, e)
           S == {y \in T : y = e \/ \E d \in T : y.parent = d.id}
<1>1. T \subseteq fs /\ e \in T /\ Closed(fs, T)
  BY SubtreeClosed
<1> HIDE DEF T
<1>2. S \in SUBSET fs /\ e \in S /\ Closed(fs, S)
  BY <1>1 DEF Closed
<1> HIDE DEF S
<1>3. T \subseteq S
  BY <1>2, SubtreeLeast DEF T
<1> QED
  BY <1>3 DEF S, T

\* The vectors that an erasure of e leaves alone: those of directories that
\* stay, other than the one e was in.
LEMMA SubtreeVectors ==
  ASSUME NEW fs, NEW e \in fs, NEW v, v # e.parent, \A d \in Subtree(fs, e) : d.id # v
  PROVE  Vector(fs \ Subtree(fs, e), v) = Vector(fs, v)
<1>1. \A x \in Subtree(fs, e) : x.parent # v
  BY SubtreeParent
<1> QED
  BY <1>1 DEF Vector

\* An empty directory goes alone.
LEMMA SubtreeOfEmpty ==
  ASSUME NEW fs, NEW e \in fs, collectEntries(fs, e.id) = {}
  PROVE  Subtree(fs, e) = {e}
<1>1. Closed(fs, {e})
  BY DEF Closed, collectEntries
<1>2. Subtree(fs, e) \subseteq {e}
  BY <1>1, SubtreeLeast
<1> QED
  BY <1>2, SubtreeClosed

-----------------------------------------------------------------------------
(* Type correctness, and the tree.                                         *)

\* Every entry lies in the root or in a directory of the tree.
Connected ==
  \A e \in entries : e.parent = Root \/ \E d \in entries : d.directory /\ d.id = e.parent

TreeInv == UIDsUnique /\ Connected /\ IsFiniteSet(entries)

Base == TypeOK /\ TreeInv

\* The entries are a tree, and none of them lies in nothing.
LEMMA BaseTree ==
  ASSUME Base
  PROVE  /\ Tree(entries)
         /\ \A e \in entries : e.parent # NULL
         /\ \A e \in entries : e.id # NULL /\ e.id # Root /\ e.id < nextUID
         /\ nextUID \in Nat
<1>1. Tree(entries) /\ nextUID \in Nat
  BY DEF Base, TypeOK, TreeInv, UIDsUnique, Tree
<1>2. \A e \in entries : e.id # NULL /\ e.id # Root /\ e.id < nextUID
  BY DEF Base, TypeOK, TreeInv, UIDsUnique, NULL, Entry
<1>3. \A e \in entries : e.parent # NULL
  BY <1>2 DEF Base, TreeInv, Connected, NULL
<1> QED
  BY <1>1, <1>2, <1>3

\* What the steps of a method do to the tree.
Keeps(t) == entries' = entries /\ nextUID' \in {nextUID, nextUID + 1}

Adds(t, e) ==
  /\ \/ FileCreate(t) /\ e = File(nextUID, Dir(t), req[t].name)
     \/ DirEmplace(t) /\ e = Directory(nextUID, Dir(t), req[t].name)
  /\ entries' = entries \union {e} /\ nextUID' = nextUID + 1
  /\ Dir(t) # NULL
  /\ e \in Entry /\ e.id = nextUID /\ e.parent = Dir(t) /\ e.name = req[t].name

EndsFile(t, gone) ==
  /\ \/ FileDelete(t) /\ \/ gone = fileDelete(entries, Dir(t), req[t].id)
                         \/ Erasing("revert", Dir(t)) # {}
     \/ RevertErase(t) /\ \/ gone = fileDelete(entries, Dir(t), req[t].file)
                          \/ overlapped[t]
  /\ gone \subseteq Files(entries, Dir(t))
  /\ entries' = entries \ gone /\ nextUID' = nextUID

EndsDir(t, e) ==
  /\ DirErase(t) /\ e.id = req[t].id
  /\ entries' = entries \ Subtree(entries, e) /\ nextUID' = nextUID

\* They keep it, add an entry to it, or take files or a directory out of it.
LEMMA Effects ==
  ASSUME Base, NEW t \in Thread, Step(t)
  PROVE  \/ Keeps(t)
         \/ \E e \in Entry : Adds(t, e)
         \/ \E gone \in SUBSET entries : EndsFile(t, gone)
         \/ \E e \in Vector(entries, Dir(t)) : EndsDir(t, e)
<1>0. nextUID \in Nat /\ req[t] \in Request /\ Dir(t) \in Nat
  BY BaseTree, AtLive DEF Base, TypeOK, Dir
<1>1. ASSUME NEW s, Refuse(t, s) PROVE Keeps(t)
  BY <1>1 DEF Refuse, Keeps
<1>2. CASE Lock(t) \/ FindRoot(t) \/ BeginSearch(t) \/ FindsIt(t) \/ Lookup(t) \/ DirGetEntries(t)
           \/ Return(t) \/ InvalidName(t) \/ MissesIt(t)
  BY <1>1, <1>2 DEF Lock, FindRoot, BeginSearch, FindsIt, Lookup, DirGetEntries, Return,
                    InvalidName, MissesIt, Keeps
<1>3. CASE DirTest(t) \/ RevertTest(t) \/ DirNameCheck(t)
  BY <1>1, <1>3 DEF DirTest, RevertTest, DirNameCheck, StartErase, Keeps
<1>4. CASE FileCreate(t)
  <2> DEFINE e == File(nextUID, Dir(t), req[t].name)
  <2>1. CASE Refuse(t, "ERR_NO_UNIQUE_NAME")
    BY <1>1, <2>1
  <2>2. CASE ~Refuse(t, "ERR_NO_UNIQUE_NAME")
    <3>1. Append(t, fileAdd(entries, Dir(t), req[t].name, nextUID), Erasing("revert", Dir(t)))
      BY <1>4, <2>2 DEF FileCreate
    <3>2. \/ Keeps(t)
          \/ entries' = entries \union {e} /\ nextUID' = nextUID + 1 /\ Dir(t) # NULL
      BY <3>1 DEF Append, Keeps, fileAdd
    <3>3. req[t].name \in Name
      BY <1>0, <1>4, RequestFields DEF FileCreate, CreateOp, Atomic!CreateOp
    <3>4. e \in Entry /\ e.id = nextUID /\ e.parent = Dir(t) /\ e.name = req[t].name
      BY <1>0, <3>3 DEF File, Entry
    <3> QED
      BY <1>4, <3>2, <3>4 DEF Adds
  <2> QED
    BY <2>1, <2>2
<1>5. CASE DirEmplace(t)
  <2> DEFINE e == Directory(nextUID, Dir(t), req[t].name)
  <2>1. PICK met : Append(t, dirAdd(entries, Dir(t), req[t].name, nextUID), met)
    BY <1>5 DEF DirEmplace
  <2>2. \/ Keeps(t)
        \/ entries' = entries \union {e} /\ nextUID' = nextUID + 1 /\ Dir(t) # NULL
    BY <2>1 DEF Append, Keeps, dirAdd
  <2>3. req[t].name \in Name
    BY <1>0, <1>5, RequestFields DEF DirEmplace, CreateOp, Atomic!CreateOp
  <2>4. e \in Entry /\ e.id = nextUID /\ e.parent = Dir(t) /\ e.name = req[t].name
    BY <1>0, <2>3 DEF Directory, Entry
  <2> QED
    BY <1>5, <2>2, <2>4 DEF Adds
<1>6. CASE FileDelete(t)
  <2> DEFINE gone == fileDelete(entries, Dir(t), req[t].id)
  <2>1. CASE Refuse(t, "ERR_UNSUCCESSFUL")
    BY <1>1, <2>1
  <2>2. CASE ~Refuse(t, "ERR_UNSUCCESSFUL")
    <3>1. /\ nextUID' = nextUID
          /\ \/ entries' = entries \ gone
             \/ Erasing("revert", Dir(t)) # {} /\ Garble(t)
      BY <1>6, <2>2 DEF FileDelete
    <3>2. gone \subseteq Files(entries, Dir(t)) /\ Files(entries, Dir(t)) \subseteq entries
      BY DEF fileDelete, Files
    <3> QED
      BY <1>6, <3>1, <3>2 DEF EndsFile, Garble
  <2> QED
    BY <2>1, <2>2
<1>7. CASE RevertErase(t)
  <2> DEFINE gone == fileDelete(entries, Dir(t), req[t].file)
  <2>1. nextUID' = nextUID /\ (entries' = entries \ gone \/ (overlapped[t] /\ Garble(t)))
    BY <1>7 DEF RevertErase
  <2>2. gone \subseteq Files(entries, Dir(t)) /\ Files(entries, Dir(t)) \subseteq entries
    BY DEF fileDelete, Files
  <2> QED
    BY <1>7, <2>1, <2>2 DEF EndsFile, Garble
<1>8. CASE DirErase(t)
  <2>1. nextUID' = nextUID
    BY <1>8 DEF DirErase
  <2>2. \/ entries' = entries
        \/ \E e \in Vector(entries, Dir(t)) :
             e.id = req[t].id /\ entries' = entries \ Subtree(entries, e)
    BY <1>8 DEF DirErase
  <2> QED
    BY <1>8, <2>1, <2>2 DEF EndsDir, Keeps
<1> QED
  BY <1>2, <1>3, <1>4, <1>5, <1>6, <1>7, <1>8 DEF Step

\* Only files leave by an EndsFile.
LEMMA EndsOnlyFiles ==
  ASSUME NEW t, NEW gone, EndsFile(t, gone)
  PROVE  \A e \in gone : e \in entries /\ ~e.directory
BY DEF EndsFile, Files

\* The tree of a new endpoint: its root and one file in it.
LEMMA InitTree ==
  ASSUME Init
  PROVE  TreeInv /\ entries \subseteq Entry /\ nextUID \in Nat
<1>1. entries = {File(Root + 1, Root, TestFile)} /\ nextUID = Root + 2
  BY DEF Init, InitialTree
<1>2. IsFiniteSet(entries)
  BY <1>1, FS_Singleton
<1>3. UIDsUnique /\ Connected /\ entries \subseteq Entry
  BY <1>1 DEF File, UIDsUnique, Connected, Entry
<1> QED
  BY <1>1, <1>2, <1>3 DEF TreeInv

\* Every step leaves a tree in which every entry lies in a directory.
LEMMA StepTree ==
  ASSUME Base, NEW t \in Thread, Step(t)
  PROVE  TreeInv' /\ entries' \subseteq Entry /\ nextUID' \in Nat
<1>0. /\ entries \subseteq Entry /\ nextUID \in Nat /\ IsFiniteSet(entries)
      /\ UIDsUnique /\ Connected
  BY DEF Base, TypeOK, TreeInv
<1>1. CASE Keeps(t)
  BY <1>0, <1>1 DEF Keeps, TreeInv, UIDsUnique, Connected, Entry
<1>2. ASSUME NEW e \in Entry, Adds(t, e)
      PROVE  TreeInv' /\ entries' \subseteq Entry /\ nextUID' \in Nat
  <2>1. /\ entries' = entries \union {e} /\ nextUID' = nextUID + 1
        /\ e.id = nextUID /\ e.parent = Dir(t) /\ Dir(t) # NULL
    BY <1>2 DEF Adds
  <2>2. Dir(t) = Root \/ \E d \in entries : d.directory /\ d.id = Dir(t)
    BY <2>1, BaseTree, AtLive DEF Dir
  <2>3. UIDsUnique'
    BY <1>0, <2>1 DEF UIDsUnique, Entry
  <2>4. Connected'
    BY <1>0, <2>1, <2>2 DEF Connected
  <2>5. IsFiniteSet(entries)'
    BY <1>0, <2>1, FS_AddElement
  <2> QED
    BY <1>0, <2>1, <2>3, <2>4, <2>5 DEF TreeInv
<1>3. ASSUME entries' \subseteq entries, nextUID' = nextUID, Connected'
      PROVE  TreeInv' /\ entries' \subseteq Entry /\ nextUID' \in Nat
  <2>1. UIDsUnique'
    BY <1>0, <1>3 DEF UIDsUnique
  <2>2. IsFiniteSet(entries)'
    BY <1>0, <1>3, FS_Subset
  <2> QED
    BY <1>0, <1>3, <2>1, <2>2 DEF TreeInv
<1>4. ASSUME NEW gone \in SUBSET entries, EndsFile(t, gone)
      PROVE  TreeInv' /\ entries' \subseteq Entry /\ nextUID' \in Nat
  <2>1. entries' = entries \ gone /\ nextUID' = nextUID /\ \A e \in gone : ~e.directory
    BY <1>4, EndsOnlyFiles DEF EndsFile
  <2>2. Connected'
    BY <1>0, <2>1 DEF Connected
  <2> QED
    BY <1>3, <2>1, <2>2
<1>5. ASSUME NEW e \in Vector(entries, Dir(t)), EndsDir(t, e)
      PROVE  TreeInv' /\ entries' \subseteq Entry /\ nextUID' \in Nat
  <2>1. entries' = entries \ Subtree(entries, e) /\ nextUID' = nextUID
    BY <1>5 DEF EndsDir
  <2>2. Closed(entries, Subtree(entries, e))
    BY SubtreeClosed DEF Vector
  <2>3. Connected'
    BY <1>0, <2>1, <2>2 DEF Connected, Closed
  <2> QED
    BY <1>3, <2>1, <2>3
<1> QED
  BY <1>1, <1>2, <1>4, <1>5, Effects

\* A new endpoint has well-typed state: one root, one test file, the lock free.
LEMMA TypeInit == Init => TypeOK
<1> SUFFICES ASSUME Init PROVE TypeOK
  OBVIOUS
<1> QED
  BY InitTree, ConstantTypes DEF Init, TypeOK, PC

\* A search that finds what the method works on points to it.
LEMMA FindsPointer ==
  ASSUME Base, NEW t \in Thread, Find(entries, req[t]) # NULL, req[t].op \notin LookupOp
  PROVE  /\ PointerTo(entries, Find(entries, req[t])) \in Pointer
         /\ At(entries, PointerTo(entries, Find(entries, req[t]))) = Find(entries, req[t])
<1> DEFINE uid == Find(entries, req[t])
<1>1. req[t].op \in DirOp \union DeleteOp
  BY RequestFields DEF Base, TypeOK, DirOp
<1>2. uid = Root \/ \E d \in entries : d.directory /\ d.id = uid
  <2>1. CASE uid = findDir(entries, req[t].id)
    BY <2>1 DEF findDir
  <2>2. CASE uid = findContainingDir(entries, req[t].id)
    <3>1. PICK e \in entries : uid = e.parent
      BY <2>2 DEF findContainingDir
    <3> QED
      BY <3>1 DEF Base, TreeInv, Connected
  <2>3. uid = findDir(entries, req[t].id) \/ uid = findContainingDir(entries, req[t].id)
    BY <1>1 DEF Find
  <2> QED
    BY <2>1, <2>2, <2>3
<1> HIDE DEF uid
<1>3. PointerTo(entries, uid) \in Pointer /\ At(entries, PointerTo(entries, uid)) = uid
  BY <1>2, BaseTree, PointerNames
<1> QED
  BY <1>3 DEF uid

\* The part of the state other than the tree keeps its types.
Rest == /\ lock \in Thread \union {NoOwner}
        /\ pc \in [Thread -> PC]
        /\ req \in [Thread -> Request]
        /\ found \in [Thread -> Pointer]
        /\ overlapped \in [Thread -> BOOLEAN]
        /\ torn \subseteq Nat
        /\ reply \in [Thread -> Atomic!Reply]

\* A return keeps the types.
LEMMA LeaveType ==
  ASSUME Rest, NEW t \in Thread, NEW a \in Atomic!Reply, Leave(t, a),
         found' \in [Thread -> Pointer], overlapped' \in [Thread -> BOOLEAN], torn' \subseteq Nat
  PROVE  Rest'
BY DEF Rest, Leave, PC

LEMMA FinishType ==
  ASSUME Rest, NEW t \in Thread, NEW a \in Atomic!Reply, Finish(t, a),
         overlapped' \in [Thread -> BOOLEAN], torn' \subseteq Nat
  PROVE  Rest'
<1>1. found' \in [Thread -> Pointer]
  BY ConstantTypes DEF Finish, Rest
<1> QED
  BY <1>1, LeaveType DEF Finish

LEMMA RefuseType ==
  ASSUME Rest, NEW t \in Thread, NEW s \in Atomic!Status, Refuse(t, s)
  PROVE  Rest'
<1>1. Finish(t, Plain(s)) /\ UNCHANGED <<overlapped, torn>>
  BY DEF Refuse
<1> QED
  BY <1>1, ConstantTypes, FinishType DEF Rest

\* So does every step of a method, one case per action.
LEMMA StepRest ==
  ASSUME Base, Rest, NEW t \in Thread, Step(t)
  PROVE  Rest'
<1>0. req[t] \in Request /\ nextUID \in Nat /\ Dir(t) \in Nat /\ entries \subseteq Entry
  BY BaseTree, AtLive DEF Base, TypeOK, Dir
<1>t. ASSUME NEW met, Tell(met) PROVE overlapped' \in [Thread -> BOOLEAN]
  BY <1>t DEF Tell
<1>1. CASE Lock(t)
  BY <1>1 DEF Rest, Lock, PC
<1>2. CASE InvalidName(t)
  BY <1>2, RefuseType DEF InvalidName, Atomic!Status
<1>3. CASE FindRoot(t)
  BY <1>3, ConstantTypes DEF Rest, FindRoot, PC
<1>4. CASE BeginSearch(t)
  <2>1. overlapped' \in [Thread -> BOOLEAN]
    BY <1>4 DEF Rest, BeginSearch
  <2> QED
    BY <1>4, <2>1 DEF Rest, BeginSearch, PC
<1>5. CASE FindsIt(t)
  <2>1. (IF req[t].op \in LookupOp THEN NoPtr
         ELSE PointerTo(entries, Find(entries, req[t]))) \in Pointer
    BY <1>5, ConstantTypes, FindsPointer DEF FindsIt
  <2> QED
    BY <1>5, <2>1 DEF Rest, FindsIt, PC
<1>6. CASE MissesIt(t)
  <2>1. Missing(req[t]) \in Atomic!Status
    BY DEF Missing, Atomic!Status
  <2> QED
    BY <1>6, <2>1, RefuseType DEF MissesIt
<1>7. CASE FileCreate(t)
  <2>1. CASE Refuse(t, "ERR_NO_UNIQUE_NAME")
    BY <2>1, RefuseType DEF Atomic!Status
  <2>2. CASE ~Refuse(t, "ERR_NO_UNIQUE_NAME")
    <3>1. /\ Finish(t, [Plain("OK") EXCEPT !.id = nextUID])
          /\ \E met : Tell(met)
          /\ torn' \in {torn, torn \union {Dir(t)}}
      BY <1>7, <2>2 DEF FileCreate
    <3>2. overlapped' \in [Thread -> BOOLEAN] /\ torn' \subseteq Nat
      BY <1>0, <1>t, <3>1 DEF Rest
    <3> QED
      BY <1>0, <3>1, <3>2, OKReplies, FinishType
  <2> QED
    BY <2>1, <2>2
<1>8. CASE FileDelete(t)
  <2>1. CASE Refuse(t, "ERR_UNSUCCESSFUL")
    BY <2>1, RefuseType DEF Atomic!Status
  <2>2. CASE ~Refuse(t, "ERR_UNSUCCESSFUL")
    <3>1. Finish(t, Plain("OK")) /\ (\E met : Tell(met)) /\ torn' = torn
      BY <1>8, <2>2 DEF FileDelete
    <3>2. overlapped' \in [Thread -> BOOLEAN] /\ torn' \subseteq Nat
      BY <1>t, <3>1 DEF Rest
    <3> QED
      BY <3>1, <3>2, OKReplies, FinishType
  <2> QED
    BY <2>1, <2>2
<1>s. ASSUME StartErase(t) PROVE Rest'
  <2>1. overlapped' \in [Thread -> BOOLEAN]
    BY <1>s DEF Rest, StartErase
  <2> QED
    BY <1>s, <2>1 DEF Rest, StartErase, PC
<1>9. CASE DirTest(t)
  BY <1>9, <1>s, RefuseType DEF DirTest, Atomic!Status
<1>10. CASE DirErase(t)
  <2>1. found' \in [Thread -> Pointer] /\ overlapped' \in [Thread -> BOOLEAN]
    <3>1. CASE found' = [found EXCEPT ![t] = NoPtr] /\ UNCHANGED overlapped
      BY <3>1, ConstantTypes DEF Rest
    <3>2. ASSUME NEW gone,
                 found' = [u \in Thread |->
                             IF u = t \/ \E d \in gone : found[u].vector = d.id
                               THEN NoPtr ELSE found[u]],
                 NEW met, Tell(met)
          PROVE  found' \in [Thread -> Pointer] /\ overlapped' \in [Thread -> BOOLEAN]
      BY <1>t, <3>2, ConstantTypes DEF Rest
    <3> QED
      BY <1>10, <3>1, <3>2 DEF DirErase
  <2>2. Leave(t, Plain("OK")) /\ torn' = torn
    BY <1>10 DEF DirErase
  <2> QED
    BY <2>1, <2>2, LeaveType, OKReplies DEF Rest
<1>11. CASE RevertTest(t)
  BY <1>11, <1>s, RefuseType DEF RevertTest, Atomic!Status
<1>12. CASE RevertErase(t)
  <2>1. Finish(t, Plain("OK")) /\ Tell(Erasing("revert", Dir(t))) /\ torn' = torn
    BY <1>12 DEF RevertErase
  <2>2. overlapped' \in [Thread -> BOOLEAN] /\ torn' \subseteq Nat
    BY <1>t, <2>1 DEF Rest
  <2> QED
    BY <2>1, <2>2, OKReplies, FinishType
<1>13. CASE Lookup(t)
  BY <1>13, RefuseType DEF Lookup, Atomic!Status
<1>14. CASE DirGetEntries(t)
  <2>1. collectEntries(entries, Dir(t)) \in SUBSET Entry
    BY <1>0 DEF collectEntries
  <2> QED
    BY <1>14, <2>1, FinishType, OKReplies DEF DirGetEntries, Rest
<1>15. CASE DirNameCheck(t)
  <2>1. CASE Refuse(t, "ERR_NO_UNIQUE_NAME")
    BY <2>1, RefuseType DEF Atomic!Status
  <2>2. CASE ~Refuse(t, "ERR_NO_UNIQUE_NAME")
    BY <1>15, <2>2 DEF Rest, DirNameCheck, PC
  <2> QED
    BY <2>1, <2>2
<1>16. CASE DirEmplace(t)
  <2>1. torn' \in {torn, torn \union {Dir(t)}} /\ Leave(t, Plain("OK"))
    BY <1>16 DEF DirEmplace
  <2>2. torn' \subseteq Nat
    BY <1>0, <2>1 DEF Rest
  <2>3. overlapped' \in [Thread -> BOOLEAN]
    BY <1>16, <1>t DEF DirEmplace
  <2>4. found' \in [Thread -> Pointer]
    BY <1>16, ConstantTypes DEF DirEmplace, Rest
  <2> QED
    BY <2>1, <2>2, <2>3, <2>4, LeaveType, OKReplies
<1>17. CASE Return(t)
  BY <1>17, ConstantTypes DEF Rest, Return, PC
<1> QED
  BY <1>1, <1>2, <1>3, <1>4, <1>5, <1>6, <1>7, <1>8, <1>9, <1>10, <1>11, <1>12,
     <1>13, <1>14, <1>15, <1>16, <1>17 DEF Step

\* The arrival of a request keeps the types, and the tree.
LEMMA CallBase ==
  ASSUME Base, NEW t \in Thread, NEW r \in Request, Call(t, r)
  PROVE  Base'
BY DEF Base, TypeOK, TreeInv, UIDsUnique, Connected, Call, PC

\* In every execution the state is well typed and the entries form a tree,
\* however dirCreate and the destructor of uploads interfere.
THEOREM TypeCorrect == Spec => [](TypeOK /\ TreeInv)
<1>1. Init => TypeOK /\ TreeInv
  BY TypeInit, InitTree
<1>2. TypeOK /\ TreeInv /\ [Next]_vars => (TypeOK /\ TreeInv)'
  <2> SUFFICES ASSUME Base, [Next]_vars PROVE Base'
    BY DEF Base
  <2>1. CASE UNCHANGED vars
    BY <2>1 DEF Base, TypeOK, TreeInv, UIDsUnique, Connected, vars
  <2>2. ASSUME NEW t \in Thread, Step(t) PROVE Base'
    <3>1. Rest
      BY DEF Base, TypeOK, Rest
    <3>2. Rest' /\ TreeInv' /\ entries' \subseteq Entry /\ nextUID' \in Nat
      BY <2>2, <3>1, StepTree, StepRest
    <3> QED
      BY <3>2 DEF Base, TypeOK, Rest
  <2> QED
    BY <2>1, <2>2, CallBase DEF Next
<1> QED
  BY <1>1, <1>2, PTL DEF Spec

-----------------------------------------------------------------------------
(* The lock.                                                               *)

\* Which phases an operation goes through: those without a lock never wait for
\* it, only dirCreate adds in two steps, and only dirDelete and the revert of an
\* upload erase in two.
Phases ==
  \A t \in Thread : /\ pc[t] = "lock" => ~Unlocked(t)
                    /\ pc[t] = "emplace" => req[t].op = "dirCreate"
                    /\ pc[t] = "erase" => req[t].op \in {"dirDelete", "revert"}

LockIInv == TypeOK /\ LockInv /\ Phases

\* A return from a locked method frees the lock, one from another leaves it.
LEMMA LockLeave ==
  ASSUME LockIInv, NEW t \in Thread, NEW a, Leave(t, a),
         Unlocked(t) \/ pc[t] \in {"enter", "search", "apply", "erase"}
  PROVE  LockInv' /\ Phases'
BY DEF LockIInv, TypeOK, LockInv, Phases, Leave, Holds, Unlocked

LEMMA LockFinish ==
  ASSUME LockIInv, NEW t \in Thread, NEW a, Finish(t, a),
         Unlocked(t) \/ pc[t] \in {"enter", "search", "apply", "erase"}
  PROVE  LockInv' /\ Phases'
BY LockLeave DEF Finish

\* The beginning of an erasure keeps the lock.
LEMMA LockErase ==
  ASSUME LockIInv, NEW t \in Thread, StartErase(t), pc[t] = "apply",
         req[t].op \in {"dirDelete", "revert"}
  PROVE  LockInv' /\ Phases'
BY DEF LockIInv, TypeOK, LockInv, Phases, StartErase, Holds, Unlocked

\* Every step of a method keeps the lock with the locked method that runs.
LEMMA LockStep ==
  ASSUME LockIInv, NEW t \in Thread, Step(t)
  PROVE  LockInv' /\ Phases'
<1>1. CASE Lock(t)
  BY <1>1 DEF LockIInv, TypeOK, LockInv, Phases, Lock, Holds, Unlocked
<1>2. CASE InvalidName(t)
  BY <1>2, LockFinish DEF InvalidName, Refuse
<1>3. CASE FindRoot(t)
  BY <1>3 DEF LockIInv, TypeOK, LockInv, Phases, FindRoot, Holds, Unlocked
<1>4. CASE BeginSearch(t)
  BY <1>4 DEF LockIInv, TypeOK, LockInv, Phases, BeginSearch, Holds, Unlocked
<1>5. CASE FindsIt(t)
  BY <1>5 DEF LockIInv, TypeOK, LockInv, Phases, FindsIt, Holds, Unlocked
<1>6. CASE MissesIt(t)
  BY <1>6, LockFinish DEF MissesIt, Refuse
<1>7. CASE FileCreate(t)
  BY <1>7, LockFinish DEF FileCreate, Refuse
<1>8. CASE FileDelete(t)
  BY <1>8, LockFinish DEF FileDelete, Refuse
<1>9. CASE DirTest(t) \/ RevertTest(t)
  BY <1>9, LockFinish, LockErase DEF DirTest, RevertTest, Refuse
<1>10. CASE DirErase(t)
  BY <1>10, LockLeave DEF DirErase
<1>11. CASE RevertErase(t)
  BY <1>11, LockFinish DEF RevertErase
<1>12. CASE Lookup(t)
  BY <1>12, LockFinish DEF Lookup, Refuse
<1>13. CASE DirGetEntries(t)
  BY <1>13, LockFinish DEF DirGetEntries
<1>14. CASE DirNameCheck(t)
  <2>1. CASE Refuse(t, "ERR_NO_UNIQUE_NAME")
    BY <1>14, <2>1, LockFinish DEF Refuse, DirNameCheck
  <2>2. CASE ~Refuse(t, "ERR_NO_UNIQUE_NAME")
    BY <1>14, <2>2 DEF LockIInv, TypeOK, LockInv, Phases, DirNameCheck, Holds, Unlocked, UnlockedOp
  <2> QED
    BY <2>1, <2>2
<1>15. CASE DirEmplace(t)
  BY <1>15, LockLeave DEF DirEmplace, Unlocked, UnlockedOp
<1>16. CASE Return(t)
  BY <1>16 DEF LockIInv, TypeOK, LockInv, Phases, Return, Holds, Unlocked
<1> QED
  BY <1>1, <1>2, <1>3, <1>4, <1>5, <1>6, <1>7, <1>8, <1>9, <1>10, <1>11, <1>12,
     <1>13, <1>14, <1>15, <1>16 DEF Step

\* The arrival of a request takes no lock.
LEMMA LockCall ==
  ASSUME LockIInv, NEW t \in Thread, NEW r \in Request, Call(t, r)
  PROVE  LockInv' /\ Phases'
BY DEF LockIInv, TypeOK, LockInv, Phases, Call, Holds, Unlocked

\* In every execution the spinlock of an endpoint is held exactly by the locked
\* method that runs: two of them never run at once, whatever runs without it.
THEOREM LockCorrect == Spec => [](LockInv /\ Phases)
<1>1. Init => LockInv /\ Phases
  BY DEF Init, LockInv, Phases, Holds
<1>2. LockIInv /\ [Next]_vars => LockInv' /\ Phases'
  <2> SUFFICES ASSUME LockIInv, [Next]_vars PROVE LockInv' /\ Phases'
    OBVIOUS
  <2>1. CASE UNCHANGED vars
    BY <2>1 DEF LockIInv, LockInv, Phases, Holds, Unlocked, vars
  <2>2. CASE Next
    BY <2>2, LockCall, LockStep DEF Next
  <2> QED
    BY <2>1, <2>2
<1> QED
  BY TypeCorrect, <1>1, <1>2, PTL DEF Spec, LockIInv

-----------------------------------------------------------------------------
(* Names and uids.                                                         *)

IInv == Base /\ LockInv /\ Phases

\* The counter behind FileID never gives one uid to two entries.
THEOREM UIDsCorrect == Spec => []UIDsUnique
<1>1. TreeInv => UIDsUnique
  BY DEF TreeInv
<1> QED
  BY TypeCorrect, <1>1, PTL

\* A directory on record as torn stays so.
LEMMA TornGrows ==
  ASSUME NEW t \in Thread, Step(t)
  PROVE  torn \subseteq torn'
BY DEF Step, Lock, InvalidName, FindRoot, BeginSearch, FindsIt, MissesIt, FileCreate,
       FileDelete, DirTest, DirErase, RevertTest, RevertErase, Lookup, DirGetEntries,
       DirNameCheck, DirEmplace, Return, Refuse, StartErase

\* A file that fileCreate adds has a name no other file of its directory has,
\* unless a revert was erasing there.
LEMMA FileNamesStep ==
  ASSUME Base, FileNamesUnique, NEW t \in Thread, Step(t)
  PROVE  FileNamesUnique'
<1>1. CASE entries' \subseteq entries
  BY <1>1, TornGrows DEF FileNamesUnique
<1>2. ASSUME NEW e \in Entry, Adds(t, e) PROVE FileNamesUnique'
  <2>1. entries' = entries \union {e} /\ e.parent = Dir(t) /\ e.name = req[t].name /\ e.id = nextUID
    BY <1>2 DEF Adds
  <2>2. \A f \in entries : f.id # e.id
    BY <2>1, BaseTree DEF Base, TypeOK, Entry
  <2>3. \/ e.directory
        \/ Dir(t) \in torn'
        \/ ~fileNameExists(entries, Dir(t), req[t].name)
    <3>1. CASE DirEmplace(t) /\ e = Directory(nextUID, Dir(t), req[t].name)
      BY <3>1 DEF Directory
    <3>2. CASE FileCreate(t)
      BY <3>2, <2>1, <2>2 DEF FileCreate, Refuse
    <3> QED
      BY <1>2, <3>1, <3>2 DEF Adds
  <2> QED
    BY <2>1, <2>3, TornGrows DEF FileNamesUnique, fileNameExists
<1> QED
  BY <1>1, <1>2, Effects DEF Keeps, EndsFile, EndsDir

\* fileAdd is safe for any number of threads, with dirCreate racing: two files of
\* a directory come to have one name only where a revert was erasing a third.
THEOREM FileNamesCorrect == Spec => []FileNamesUnique
<1>1. Init => FileNamesUnique
  BY DEF Init, InitialTree, FileNamesUnique
<1>2. TypeOK /\ TreeInv /\ FileNamesUnique /\ [Next]_vars => FileNamesUnique'
  <2> SUFFICES ASSUME Base, FileNamesUnique, [Next]_vars PROVE FileNamesUnique'
    BY DEF Base
  <2>1. CASE UNCHANGED vars
    BY <2>1 DEF vars, FileNamesUnique
  <2>2. ASSUME NEW t \in Thread, NEW r \in Request, Call(t, r) PROVE FileNamesUnique'
    BY <2>2 DEF Call, FileNamesUnique
  <2> QED
    BY <2>1, <2>2, FileNamesStep DEF Next
<1> QED
  BY TypeCorrect, <1>1, <1>2, PTL DEF Spec

\* What a dirCreate has found out of its directory when it adds to it.
NameFree ==
  \A t \in Thread :
    pc[t] = "emplace" /\ ~overlapped[t] /\ Dir(t) # NULL =>
      ~dirNameExists(entries, Dir(t), req[t].name)

\* A dirCreate that nobody has met on its way, and meets nobody, adds a name
\* that its directory does not have.
LEMMA DirNamesStep ==
  ASSUME Base, NameFree, DirNamesUnique, NEW t \in Thread, Step(t)
  PROVE  DirNamesUnique'
<1>1. CASE entries' \subseteq entries
  BY <1>1, TornGrows DEF DirNamesUnique
<1>2. ASSUME NEW e \in Entry, Adds(t, e) PROVE DirNamesUnique'
  <2>1. /\ entries' = entries \union {e} /\ e.parent = Dir(t) /\ e.name = req[t].name
        /\ Dir(t) # NULL
    BY <1>2 DEF Adds
  <2>2. \/ ~e.directory
        \/ Dir(t) \in torn'
        \/ ~dirNameExists(entries, Dir(t), req[t].name)
    <3>1. CASE e = File(nextUID, Dir(t), req[t].name)
      BY <3>1 DEF File
    <3>2. CASE DirEmplace(t)
      BY <2>1, <3>2 DEF DirEmplace, NameFree
    <3> QED
      BY <1>2, <3>1, <3>2 DEF Adds
  <2> QED
    BY <2>1, <2>2, TornGrows DEF DirNamesUnique, dirNameExists
<1> QED
  BY <1>1, <1>2, Effects DEF Keeps, EndsFile, EndsDir

\* Steps of others change no phase and no request of u.
LEMMA OthersPhase ==
  ASSUME Base, NEW t \in Thread, Step(t), NEW u \in Thread, u # t
  PROVE  pc'[u] = pc[u] /\ req'[u] = req[u]
BY DEF Step, Lock, InvalidName, FindRoot, BeginSearch, FindsIt, MissesIt, FileCreate,
       FileDelete, DirTest, DirErase, RevertTest, RevertErase, Lookup, DirGetEntries,
       DirNameCheck, DirEmplace, Return, Refuse, StartErase, Finish, Leave, Base, TypeOK

\* They never undo that u was met in its search or its change.
LEMMA OthersMeet ==
  ASSUME Base, NEW t \in Thread, Step(t), NEW u \in Thread, u # t, overlapped[u]
  PROVE  overlapped'[u]
<1>1. ASSUME NEW met, Tell(met) PROVE overlapped'[u]
  BY <1>1 DEF Tell
<1>2. CASE BeginSearch(t)
  BY <1>2 DEF BeginSearch
<1>3. CASE FileCreate(t) \/ FileDelete(t) \/ RevertErase(t) \/ DirEmplace(t) \/ DirErase(t)
  BY <1>1, <1>3 DEF FileCreate, FileDelete, RevertErase, DirEmplace, DirErase, Refuse
<1>4. CASE DirTest(t) \/ RevertTest(t)
  BY <1>4 DEF DirTest, RevertTest, StartErase, Refuse
<1>5. CASE Return(t) \/ DirNameCheck(t)
  BY <1>5 DEF Return, DirNameCheck, Refuse, Base, TypeOK
<1>6. CASE Lock(t) \/ InvalidName(t) \/ FindRoot(t) \/ FindsIt(t) \/ MissesIt(t) \/ Lookup(t)
           \/ DirGetEntries(t)
  BY <1>6 DEF Lock, InvalidName, FindRoot, FindsIt, MissesIt, Lookup, DirGetEntries, Refuse
<1> QED
  BY <1>2, <1>3, <1>4, <1>5, <1>6 DEF Step

\* They change the pointer of u only when they move or free the vector.
LEMMA OthersFound ==
  ASSUME Base, NEW t \in Thread, Step(t), NEW u \in Thread, u # t
  PROVE  \/ found'[u] = found[u]
         \/ /\ DirErase(t) /\ found'[u] = NoPtr
            /\ \E e \in Vector(entries, Dir(t)) : EndsDir(t, e)
         \/ /\ DirEmplace(t) /\ found'[u] = NoPtr /\ found[u].vector = Dir(t)
            /\ entries' # entries /\ Cardinality(Vector(entries, Dir(t))) >= Reserve
<1>1. ASSUME NEW x, found' = [found EXCEPT ![t] = x] PROVE found'[u] = found[u]
  BY <1>1 DEF Base, TypeOK
<1>2. CASE DirErase(t)
  <2>1. CASE found' = [found EXCEPT ![t] = NoPtr]
    BY <1>1, <2>1
  <2>2. CASE found' # [found EXCEPT ![t] = NoPtr]
    <3>1. PICK e \in Vector(entries, Dir(t)) :
            /\ e.id = req[t].id /\ entries' = entries \ Subtree(entries, e)
            /\ found' = [v \in Thread |->
                           IF v = t \/ \E d \in Subtree(entries, e) : found[v].vector = d.id
                             THEN NoPtr ELSE found[v]]
      BY <1>2, <2>2 DEF DirErase
    <3>2. EndsDir(t, e)
      BY <1>2, <3>1 DEF EndsDir, DirErase
    <3>3. found'[u] = found[u] \/ found'[u] = NoPtr
      BY <3>1
    <3> QED
      BY <1>2, <3>2, <3>3
  <2> QED
    BY <2>1, <2>2
<1>3. CASE DirEmplace(t)
  BY <1>1, <1>3 DEF DirEmplace
<1>4. CASE ~DirErase(t) /\ ~DirEmplace(t)
  BY <1>1, <1>4 DEF Step, Lock, InvalidName, FindRoot, BeginSearch, FindsIt, MissesIt, FileCreate,
       FileDelete, DirTest, RevertTest, RevertErase, Lookup, DirGetEntries,
       DirNameCheck, Return, Refuse, StartErase, Finish
<1> QED
  BY <1>2, <1>3, <1>4

\* What an erasure of directory e leaves of the pointers of the others.
LEMMA EraseOthers ==
  ASSUME Base, NEW t \in Thread, NEW e \in Vector(entries, Dir(t)), EndsDir(t, e),
         NEW u \in Thread, u # t
  PROVE  \/ found'[u] = NoPtr
         \/ pc[u] = "emplace" /\ overlapped'[u]
         \/ pc[u] # "emplace"
         \/ found'[u] = found[u] /\ Dir(u)' = Dir(u)
<1>1. e \in entries /\ e \in Subtree(entries, e) /\ entries' = entries \ Subtree(entries, e)
  BY SubtreeClosed DEF EndsDir, Vector
<1>2. entries' # entries
  BY <1>1
<1>3. PICK x \in Vector(entries, Dir(t)) :
        /\ x.id = req[t].id
        /\ found' = [v \in Thread |->
                       IF v = t \/ \E d \in Subtree(entries, x) : found[v].vector = d.id
                         THEN NoPtr ELSE found[v]]
        /\ Tell({v \in Thread : pc[v] = "emplace" /\ found[v].vector = x.parent})
  BY <1>2 DEF EndsDir, DirErase
<1>4. x = e
  BY <1>1, <1>3, BaseTree DEF EndsDir, Tree, Vector
<1>5. CASE \E d \in Subtree(entries, e) : found[u].vector = d.id
  BY <1>3, <1>4, <1>5
<1>6. CASE pc[u] = "emplace" /\ found[u].vector = e.parent
  BY <1>3, <1>4, <1>6 DEF Tell
<1>7. CASE /\ \A d \in Subtree(entries, e) : found[u].vector # d.id
           /\ found[u].vector # e.parent
  <2>1. found'[u] = found[u]
    BY <1>3, <1>4, <1>7
  <2>2. Vector(entries', found[u].vector) = Vector(entries, found[u].vector)
    BY <1>1, <1>7, SubtreeVectors
  <2>3. At(entries', found[u]) = At(entries, found[u])
    BY <2>2, AtSame
  <2> QED
    BY <2>1, <2>3 DEF Dir
<1> QED
  BY <1>5, <1>6, <1>7

\* The end of a file moves no pointer to a directory.
LEMMA FileOthers ==
  ASSUME Base, NEW t \in Thread, Step(t), NEW gone \in SUBSET entries, EndsFile(t, gone),
         NEW u \in Thread, u # t
  PROVE  found'[u] = found[u] /\ Dir(u)' = Dir(u)
<1>1. found'[u] = found[u]
  <2>1. ~DirErase(t) /\ ~DirEmplace(t)
    BY DEF EndsFile, FileDelete, RevertErase, DirErase, DirEmplace
  <2> QED
    BY <2>1, OthersFound
<1>2. entries' = entries \ gone /\ \A x \in gone : ~x.directory
  BY EndsOnlyFiles DEF EndsFile
<1>3. Vector(entries', found[u].vector) = Vector(entries, found[u].vector)
  BY <1>2 DEF Vector
<1>4. At(entries', found[u]) = At(entries, found[u])
  BY <1>3, AtSame
<1> QED
  BY <1>1, <1>4 DEF Dir

\* An entry that is added leaves a pointer, moves it, or gives a pointer that
\* named nothing the new directory, in which there is nothing yet.
LEMMA AddOthers ==
  ASSUME Base, NEW t \in Thread, Step(t), NEW e \in Entry, Adds(t, e),
         NEW u \in Thread, u # t
  PROVE  /\ \/ found'[u] = found[u]
            \/ /\ DirEmplace(t) /\ found'[u] = NoPtr
               /\ Cardinality(Vector(entries, Dir(t))) >= Reserve
         /\ \/ Dir(u)' = NULL /\ found'[u] = NoPtr
            \/ Dir(u)' = Dir(u)
            \/ Dir(u) = NULL /\ Dir(u)' = e.id
         /\ \A x \in entries' : x.parent # e.id
<1>1. entries' = entries \union {e} /\ e.id = nextUID /\ e.parent = Dir(t) /\ Dir(t) # NULL
  BY DEF Adds
<1>2. Tree(entries) /\ Tree(entries') /\ \A x \in entries' : x.parent # NULL
  <2>1. TreeInv' /\ entries' \subseteq Entry
    BY StepTree
  <2>2. Tree(entries')
    BY <2>1 DEF TreeInv, UIDsUnique, Tree
  <2> QED
    BY <1>1, <2>2, BaseTree
<1>3. \A x \in entries : x.id < e.id /\ x.parent < e.id
  BY <1>1, BaseTree DEF Base, TreeInv, Connected, UIDsUnique
<1>4. \/ found'[u] = found[u]
      \/ /\ DirEmplace(t) /\ found'[u] = NoPtr
         /\ Cardinality(Vector(entries, Dir(t))) >= Reserve
  <2>1. ~DirErase(t)
    BY DEF Adds, DirErase, FileCreate, DirEmplace
  <2> QED
    BY <2>1, OthersFound
<1>5. e.parent < e.id
  <2>1. Dir(t) = Root \/ \E d \in entries : d.id = Dir(t)
    BY <1>1, <1>2, AtLive DEF Dir
  <2> QED
    BY <1>1, <1>3, <2>1 DEF Base, TreeInv, UIDsUnique
<1>6. \A x \in entries' : x.parent # e.id
  BY <1>1, <1>3, <1>5, <1>2 DEF Tree, Entry
<1>7. \/ Dir(u)' = NULL /\ found'[u] = NoPtr
      \/ Dir(u)' = Dir(u)
      \/ Dir(u) = NULL /\ Dir(u)' = e.id
  <2>1. CASE found'[u] = NoPtr
    BY <1>2, <2>1, AtNothing DEF Dir
  <2>2. CASE found'[u] = found[u]
    <3>1. found[u] \in Pointer
      BY DEF Base, TypeOK
    <3>2. \/ At(entries', found[u]) = At(entries, found[u])
          \/ At(entries, found[u]) = NULL /\ At(entries', found[u]) = e.id
      BY <1>1, <1>2, <1>3, <3>1, AtAppend
    <3> QED
      BY <2>2, <3>2 DEF Dir
  <2> QED
    BY <1>4, <2>1, <2>2
<1> QED
  BY <1>4, <1>6, <1>7

\* NameFree is kept by every step.
LEMMA NameFreeStep ==
  ASSUME Base, NameFree, NEW t \in Thread, Step(t)
  PROVE  NameFree'
<1> SUFFICES ASSUME NEW u \in Thread, pc'[u] = "emplace", ~overlapped'[u], Dir(u)' # NULL
             PROVE  ~dirNameExists(entries', Dir(u)', req'[u].name)
  BY DEF NameFree, Dir
<1>1. CASE u = t
  <2>1. DirNameCheck(t) /\ ~Refuse(t, "ERR_NO_UNIQUE_NAME")
    BY <1>1 DEF Step, Lock, InvalidName, FindRoot, BeginSearch, FindsIt, MissesIt, FileCreate,
       FileDelete, DirTest, DirErase, RevertTest, RevertErase, Lookup, DirGetEntries,
       DirNameCheck, DirEmplace, Return, Refuse, StartErase, Finish, Leave, Base, TypeOK
  <2>2. /\ UNCHANGED <<entries, req, found>>
        /\ overlapped' = [overlapped EXCEPT ![t] = Erasing("dirDelete", Dir(t)) # {}]
        /\ \/ ~dirNameExists(entries, Dir(t), req[t].name)
           \/ Erasing("dirDelete", Dir(t)) # {}
    BY <2>1 DEF DirNameCheck
  <2>3. Erasing("dirDelete", Dir(t)) = {}
    BY <1>1, <2>2 DEF Base, TypeOK
  <2> QED
    BY <1>1, <2>2, <2>3 DEF Dir
<1>2. CASE u # t
  <2>0. pc[u] = "emplace" /\ req'[u] = req[u] /\ ~overlapped[u]
    BY <1>2, OthersPhase, OthersMeet
  <2>1. CASE Keeps(t)
    <3>1. ~\E e \in Vector(entries, Dir(t)) : EndsDir(t, e)
      BY <2>1, SubtreeClosed DEF Keeps, EndsDir, Vector
    <3>2. found'[u] = found[u]
      BY <1>2, <2>1, <3>1, OthersFound DEF Keeps
    <3> QED
      BY <2>0, <2>1, <3>2 DEF Keeps, Dir, NameFree
  <2>2. ASSUME NEW e \in Entry, Adds(t, e)
        PROVE  ~dirNameExists(entries', Dir(u)', req'[u].name)
    <3>1. entries' = entries \union {e} /\ e.parent = Dir(t)
      BY <2>2 DEF Adds
    <3>2. \A x \in entries' : x.parent # e.id
      BY <1>2, <2>2, AddOthers
    <3>3. CASE Dir(u)' = e.id
      BY <3>2, <3>3 DEF dirNameExists
    <3>4. CASE Dir(u)' = Dir(u)
      <4>1. ~dirNameExists(entries, Dir(u), req[u].name)
        BY <2>0, <3>4 DEF NameFree
      <4>2. ~(e.directory /\ e.parent = Dir(u))
        <5>1. SUFFICES ASSUME e.directory, Dir(t) = Dir(u) PROVE FALSE
          BY <3>1
        <5>2. DirEmplace(t)
          BY <2>2, <5>1 DEF Adds, File
        <5>3. PICK met : Tell(met) /\ u \in met
          BY <1>2, <2>0, <5>1, <5>2 DEF DirEmplace
        <5> QED
          BY <5>3 DEF Tell
      <4> QED
        BY <2>0, <3>1, <3>4, <4>1, <4>2 DEF dirNameExists
    <3> QED
      BY <1>2, <2>2, <3>3, <3>4, AddOthers
  <2>3. ASSUME NEW gone \in SUBSET entries, EndsFile(t, gone)
        PROVE  ~dirNameExists(entries', Dir(u)', req'[u].name)
    <3>1. Dir(u)' = Dir(u) /\ entries' \subseteq entries
      BY <1>2, <2>3, FileOthers DEF EndsFile
    <3> QED
      BY <2>0, <3>1 DEF NameFree, dirNameExists
  <2>4. ASSUME NEW e \in Vector(entries, Dir(t)), EndsDir(t, e)
        PROVE  ~dirNameExists(entries', Dir(u)', req'[u].name)
    <3>1. found'[u] # NoPtr
      <4>1. \A d \in entries' : d.parent # NULL
        BY <2>4, BaseTree DEF EndsDir
      <4> QED
        BY <4>1, AtNothing DEF Dir
    <3>2. Dir(u)' = Dir(u) /\ entries' \subseteq entries
      BY <1>2, <2>0, <2>4, <3>1, EraseOthers DEF EndsDir
    <3> QED
      BY <2>0, <3>2 DEF NameFree, dirNameExists
  <2> QED
    BY <2>1, <2>2, <2>3, <2>4, Effects
<1> QED
  BY <1>1, <1>2

\* Two directories of a directory come to have one name only where a dirCreate
\* met another thread that was changing the directory.
THEOREM DirNamesCorrect == Spec => []DirNamesUnique
<1>1. Init => NameFree /\ DirNamesUnique
  BY DEF Init, InitialTree, File, NameFree, DirNamesUnique
<1>2. TypeOK /\ TreeInv /\ NameFree /\ DirNamesUnique /\ [Next]_vars
        => NameFree' /\ DirNamesUnique'
  <2> SUFFICES ASSUME Base, NameFree, DirNamesUnique, [Next]_vars
               PROVE  NameFree' /\ DirNamesUnique'
    BY DEF Base
  <2>1. CASE UNCHANGED vars
    BY <2>1 DEF vars, NameFree, DirNamesUnique, Dir
  <2>2. ASSUME NEW t \in Thread, NEW r \in Request, Call(t, r)
        PROVE  NameFree' /\ DirNamesUnique'
    BY <2>2 DEF Call, NameFree, DirNamesUnique, Dir, Base, TypeOK
  <2> QED
    BY <2>1, <2>2, NameFreeStep, DirNamesStep DEF Next
<1> QED
  BY TypeCorrect, <1>1, <1>2, PTL DEF Spec

-----------------------------------------------------------------------------
(* Pointers.                                                               *)

\* While a method holds the lock nobody else does more to the tree than add
\* a directory or end the file of an upload.
LEMMA Meanwhile ==
  ASSUME IInv, NEW t \in Thread, Step(t), NEW u \in Thread, u # t, Holds(u)
  PROVE  /\ ~FileCreate(t) /\ ~FileDelete(t) /\ ~DirErase(t)
         /\ \/ Keeps(t)
            \/ \E e \in Entry : Adds(t, e) /\ DirEmplace(t) /\ e.directory
            \/ \E gone \in SUBSET entries : EndsFile(t, gone)
<1>1. ~Holds(t)
  BY DEF IInv, LockInv
<1>2. ~FileCreate(t) /\ ~FileDelete(t) /\ ~DirErase(t)
  BY <1>1 DEF FileCreate, FileDelete, DirErase, Holds, Unlocked, UnlockedOp
<1>3. \A e : Adds(t, e) => DirEmplace(t) /\ e.directory
  BY <1>2 DEF Adds, Directory
<1>4. \A e : ~EndsDir(t, e)
  BY <1>2 DEF EndsDir
<1> QED
  BY <1>2, <1>3, <1>4, Effects DEF IInv

\* A vector that has outgrown its reserve still has after an append.
LEMMA GrownStays ==
  ASSUME Base, Base', Grown, entries \subseteq entries'
  PROVE  Grown'
<1>1. PICK e \in entries : Cardinality(Vector(entries, e.parent)) > Reserve
  BY DEF Grown
<1> DEFINE A == Vector(entries, e.parent)
           B == Vector(entries', e.parent)
<1>2. A \in SUBSET B /\ B \in SUBSET entries' /\ A \in SUBSET entries
  BY DEF Vector
<1>3. IsFiniteSet(B) /\ IsFiniteSet(A)
  BY <1>2, FS_Subset DEF Base, TreeInv
<1>4. Cardinality(A) <= Cardinality(B)
  BY <1>2, <1>3, FS_Subset
<1>5. Cardinality(A) \in Nat /\ Cardinality(B) \in Nat
  BY <1>3, FS_CardinalityType
<1> HIDE DEF A, B
<1>6. Cardinality(B) > Reserve
  BY <1>1, <1>4, <1>5 DEF A
<1> QED
  BY <1>6 DEF Grown, B

\* An append to a vector as large as its reserve outgrows it.
LEMMA GrowsBeyond ==
  ASSUME Base, NEW e, e \notin entries, e.directory, entries' = entries \union {e},
         Cardinality(Vector(entries, e.parent)) >= Reserve
  PROVE  Grown'
<1> DEFINE A == Vector(entries, e.parent)
           B == Vector(entries', e.parent)
<1>1. B = A \union {e} /\ e \notin A /\ A \in SUBSET entries /\ e \in entries'
  BY DEF Vector
<1>2. IsFiniteSet(A)
  BY <1>1, FS_Subset DEF Base, TreeInv
<1>3. Cardinality(A) \in Nat /\ Cardinality(B) = Cardinality(A) + 1
  BY <1>1, <1>2, FS_AddElement, FS_CardinalityType
<1> HIDE DEF B
<1>4. Cardinality(B) > Reserve
  BY <1>3
<1> QED
  BY <1>1, <1>4 DEF Grown, B

\* A pointer that is good: it names what a search for the same would find, unless
\* the entry that is searched for has gone.
Good(t) == Dir(t) # NULL /\ Find(entries, req[t]) \in {Dir(t), NULL}

Working(t) == Holds(t) /\ pc[t] \in {"apply", "erase"} /\ req[t].op \notin LookupOp

LiveInv == \A t \in Thread : Working(t) => req[t].id < nextUID /\ (Grown \/ Good(t))

\* What a step of another thread leaves of a good pointer.
LEMMA OthersGood ==
  ASSUME IInv, LiveInv, NEW t \in Thread, Step(t), NEW u \in Thread, u # t, Working(u)
  PROVE  req[u].id < nextUID' /\ (Grown' \/ Good(u)')
<1>0. /\ Base /\ Base' /\ req'[u] = req[u] /\ Holds(u)
      /\ req[u].id \in Nat /\ req[u].id < nextUID /\ nextUID \in Nat /\ (Grown \/ Good(u))
  <2>1. Base'
    <3>1. Rest
      BY DEF IInv, Base, TypeOK, Rest
    <3>2. Rest' /\ TreeInv' /\ entries' \subseteq Entry /\ nextUID' \in Nat
      BY <3>1, StepTree, StepRest DEF IInv
    <3> QED
      BY <3>2 DEF Base, TypeOK, Rest
  <2>2. req[u] \in Request
    BY DEF IInv, Base, TypeOK
  <2> QED
    BY <2>1, <2>2, OthersPhase, RequestFields DEF IInv, LiveInv, Working, Base, TypeOK
<1>1. ~DirErase(t)
  BY <1>0, Meanwhile
<1>2. CASE Keeps(t)
  <2>1. entries' = entries /\ found'[u] = found[u] /\ nextUID' \in {nextUID, nextUID + 1}
    BY <1>0, <1>1, <1>2, OthersFound DEF Keeps
  <2> QED
    BY <1>0, <2>1 DEF Grown, Good, Dir
<1>3. ASSUME NEW e \in Entry, Adds(t, e), DirEmplace(t), e.directory
      PROVE  req[u].id < nextUID' /\ (Grown' \/ Good(u)')
  <2>1. entries' = entries \union {e} /\ nextUID' = nextUID + 1 /\ e.id = nextUID /\ e.parent = Dir(t)
    BY <1>3 DEF Adds
  <2>2. CASE Grown
    BY <1>0, <2>1, <2>2, GrownStays
  <2>3. CASE ~Grown /\ Good(u)
    <3>1. CASE found'[u] # found[u]
      <4>1. Cardinality(Vector(entries, e.parent)) >= Reserve
        BY <1>0, <1>3, <2>1, <3>1, AddOthers
      <4>2. e \notin entries
        BY <1>0, <2>1, BaseTree
      <4>3. Grown'
        BY <1>0, <1>3, <2>1, <4>1, <4>2, GrowsBeyond
      <4> QED
        BY <1>0, <2>1, <4>3
    <3>2. CASE found'[u] = found[u]
      <4>1. Dir(u)' = Dir(u) /\ Dir(u) # NULL
        <5>1. found[u] # NoPtr
          BY <1>0, <2>3, BaseTree, AtNothing DEF Good, Dir
        <5> QED
          BY <1>0, <1>3, <2>3, <3>2, <5>1, AddOthers DEF Good
      <4>2. req[u].id # e.id
        BY <1>0, <2>1
      <4>3. Find(entries', req[u]) = Find(entries, req[u])
        <5>1. findDir(entries', req[u].id) = findDir(entries, req[u].id)
          BY <2>1, <4>2 DEF findDir
        <5>2. findContainingDir(entries', req[u].id) = findContainingDir(entries, req[u].id)
          <6>1. \A x : (x \in entries' /\ x.id = req[u].id) <=> (x \in entries /\ x.id = req[u].id)
            BY <2>1, <4>2
          <6>2. (CHOOSE x \in entries' : x.id = req[u].id) = (CHOOSE x \in entries : x.id = req[u].id)
            <7>1. CASE \E x \in entries : x.id = req[u].id
              <8>1. PICK x \in entries : x.id = req[u].id
                BY <7>1
              <8>2. \A y \in entries' : y.id = req[u].id => y = x
                BY <1>0, <6>1, <8>1, BaseTree DEF Tree
              <8>3. x \in entries' /\ \A y \in entries : y.id = req[u].id => y = x
                BY <6>1, <8>1, <8>2
              <8> QED
                BY <8>1, <8>2, <8>3
            <7>2. CASE ~\E x \in entries : x.id = req[u].id
              BY <6>1, <7>2
            <7> QED
              BY <7>1, <7>2
          <6> QED
            BY <6>1, <6>2 DEF findContainingDir
        <5> QED
          BY <1>0, <5>1, <5>2 DEF Find, Working
      <4> QED
        BY <1>0, <2>1, <2>3, <4>1, <4>3 DEF Good
    <3> QED
      BY <3>1, <3>2
  <2> QED
    BY <1>0, <2>2, <2>3
<1>4. ASSUME NEW gone \in SUBSET entries, EndsFile(t, gone)
      PROVE  req[u].id < nextUID' /\ (Grown' \/ Good(u)')
  <2>1. /\ entries' = entries \ gone /\ nextUID' = nextUID /\ found'[u] = found[u]
        /\ Dir(u)' = Dir(u) /\ \A x \in gone : ~x.directory
    BY <1>0, <1>4, FileOthers, EndsOnlyFiles DEF EndsFile
  <2>2. CASE Grown
    <3>1. PICK e \in entries : Cardinality(Vector(entries, e.parent)) > Reserve
      BY <2>2 DEF Grown
    <3>2. Vector(entries', e.parent) = Vector(entries, e.parent)
      BY <2>1 DEF Vector
    <3>3. Vector(entries', e.parent) # {}
      BY <3>1, <3>2, FS_EmptySet
    <3>4. PICK x \in entries' : x.parent = e.parent
      BY <3>3 DEF Vector
    <3> QED
      BY <1>0, <2>1, <3>1, <3>2, <3>4 DEF Grown
  <2>3. CASE Good(u)
    <3>1. findDir(entries', req[u].id) = findDir(entries, req[u].id)
      BY <2>1 DEF findDir
    <3>2. findContainingDir(entries', req[u].id) \in {findContainingDir(entries, req[u].id), NULL}
      <4>1. CASE \E x \in entries' : x.id = req[u].id
        <5>1. PICK x \in entries' : x.id = req[u].id
          BY <4>1
        <5>2. x \in entries /\ \A y \in entries : y.id = req[u].id => y = x
          BY <1>0, <2>1, <5>1, BaseTree DEF Tree
        <5>3. /\ (CHOOSE y \in entries : y.id = req[u].id) = x
              /\ (CHOOSE y \in entries' : y.id = req[u].id) = x
          BY <2>1, <5>1, <5>2
        <5> QED
          BY <5>1, <5>2, <5>3 DEF findContainingDir
      <4>2. CASE ~\E x \in entries' : x.id = req[u].id
        BY <4>2 DEF findContainingDir
      <4> QED
        BY <4>1, <4>2
    <3>3. Find(entries', req[u]) \in {Find(entries, req[u]), NULL}
      <4>1. req[u].op \in DirOp \union DeleteOp
        BY FindKinds DEF Working, IInv, Base, TypeOK
      <4> QED
        BY <3>1, <3>2, <4>1, FindKinds
    <3> QED
      BY <1>0, <2>1, <2>3, <3>3 DEF Good
  <2> QED
    BY <1>0, <2>2, <2>3
<1> QED
  BY <1>0, <1>2, <1>3, <1>4, Meanwhile

\* The search that has just returned gives a good pointer, and it is good until
\* the method is done.
LEMMA OwnGood ==
  ASSUME IInv, LiveInv, NEW t \in Thread, Step(t), Working(t)'
  PROVE  req'[t].id < nextUID' /\ (Grown' \/ Good(t)')
<1>0. /\ Base /\ req[t] \in Request
      /\ \A e \in entries : e.id < nextUID
      /\ Root < nextUID
  BY BaseTree DEF IInv, Base, TypeOK, TreeInv, UIDsUnique
<1>1. FindRoot(t) \/ FindsIt(t) \/ (DirTest(t) /\ StartErase(t)) \/ (RevertTest(t) /\ StartErase(t))
  BY DEF Step, Lock, InvalidName, FindRoot, BeginSearch, FindsIt, MissesIt, FileCreate,
       FileDelete, DirTest, DirErase, RevertTest, RevertErase, Lookup, DirGetEntries,
       DirNameCheck, DirEmplace, Return, Refuse, StartErase, Finish, Leave, IInv, Base, TypeOK,
       Working
<1>2. CASE FindRoot(t)
  <2>1. /\ found'[t] = RootPtr /\ UNCHANGED <<entries, req, nextUID>> /\ req[t].op \in DirOp
        /\ req[t].id = Root
    BY <1>2 DEF FindRoot, RootOnly, IInv, Base, TypeOK
  <2>2. At(entries, RootPtr) = Root /\ Find(entries, req[t]) = Root
    BY <2>1, FindKinds DEF At, findDir
  <2> QED
    BY <1>0, <2>1, <2>2 DEF Good, Dir, NULL
<1>3. CASE FindsIt(t)
  <2>1. /\ Find(entries, req[t]) # NULL /\ UNCHANGED <<entries, req, nextUID>>
        /\ req[t].op \notin LookupOp
        /\ found'[t] = PointerTo(entries, Find(entries, req[t]))
    BY <1>3 DEF FindsIt, IInv, Base, TypeOK, Working
  <2>2. At(entries, PointerTo(entries, Find(entries, req[t]))) = Find(entries, req[t])
    BY <1>0, <2>1, FindsPointer
  <2>3. req[t].id = Root \/ \E e \in entries : e.id = req[t].id
    <3>1. req[t].op \in DirOp \union DeleteOp
      BY <1>0, <2>1, FindKinds
    <3>2. findDir(entries, req[t].id) # NULL \/ findContainingDir(entries, req[t].id) # NULL
      BY <2>1, <3>1, FindKinds
    <3> QED
      BY <3>2 DEF findDir, findContainingDir
  <2> QED
    BY <1>0, <2>1, <2>2, <2>3 DEF Good, Dir
<1>4. CASE (DirTest(t) \/ RevertTest(t)) /\ StartErase(t)
  <2>1. UNCHANGED <<entries, req, nextUID, found>> /\ pc[t] = "apply"
    BY <1>4 DEF StartErase, DirTest, RevertTest
  <2>2. Working(t)
    BY <2>1 DEF Working, Holds, Unlocked
  <2> QED
    BY <2>1, <2>2 DEF LiveInv, Grown, Good, Dir
<1> QED
  BY <1>1, <1>2, <1>3, <1>4

LEMMA LiveNext ==
  ASSUME IInv, LiveInv, [Next]_vars
  PROVE  LiveInv'
<1>1. CASE UNCHANGED vars
  BY <1>1 DEF vars, LiveInv, Working, Holds, Unlocked, Grown, Good, Dir
<1>2. ASSUME NEW t \in Thread, NEW r \in Request, Call(t, r) PROVE LiveInv'
  BY <1>2 DEF Call, LiveInv, Working, Holds, Unlocked, Grown, Good, Dir, IInv, Base, TypeOK
<1>3. ASSUME NEW t \in Thread, Step(t), NEW u \in Thread, Working(u)'
      PROVE  req'[u].id < nextUID' /\ (Grown' \/ Good(u)')
  <2>1. CASE u = t
    BY <1>3, <2>1, OwnGood
  <2>2. CASE u # t
    <3>1. pc'[u] = pc[u] /\ req'[u] = req[u]
      BY <1>3, <2>2, OthersPhase DEF IInv
    <3>2. Working(u)
      BY <1>3, <3>1 DEF Working, Holds, Unlocked
    <3> QED
      BY <1>3, <2>2, <3>1, <3>2, OthersGood
  <2> QED
    BY <2>1, <2>2
<1>4. ASSUME NEW t \in Thread, Step(t) PROVE LiveInv'
  BY <1>3, <1>4 DEF LiveInv
<1> QED
  BY <1>1, <1>2, <1>4 DEF Next

\* A method that holds the lock works on the directory that it searched for,
\* until some vector of directories has outgrown its reserve.
THEOREM PointersCorrect == Spec => []PointersLive
<1>1. Init => LiveInv
  BY DEF Init, LiveInv, Working
<1>2. TypeOK /\ TreeInv /\ LockInv /\ Phases /\ LiveInv /\ [Next]_vars => LiveInv'
  BY LiveNext DEF IInv, Base
<1>3. LiveInv => PointersLive
  BY DEF LiveInv, PointersLive, Working, Good
<1> QED
  BY TypeCorrect, LockCorrect, <1>1, <1>2, <1>3, PTL DEF Spec

-----------------------------------------------------------------------------
(* What may remove an entry.                                               *)

\* What a dirDelete is about to erase holds no file, whatever dirCreate has put
\* there since it was found empty.
EraseClean ==
  \A t \in Thread : pc[t] = "erase" /\ req[t].op = "dirDelete" =>
    \A e \in entries : e.id = req[t].id =>
      \E S \in SUBSET entries : e \in S /\ Closed(entries, S) /\ \A x \in S : x.directory

LEMMA EraseCleanStep ==
  ASSUME IInv, EraseClean, NEW t \in Thread, Step(t)
  PROVE  EraseClean'
<1> SUFFICES ASSUME NEW u \in Thread, pc'[u] = "erase", req'[u].op = "dirDelete",
                    NEW e \in entries', e.id = req'[u].id
             PROVE  \E S \in SUBSET entries' :
                      e \in S /\ Closed(entries', S) /\ \A x \in S : x.directory
  BY DEF EraseClean, Closed
<1>0. Tree(entries) /\ \A x \in entries : x.id < nextUID
  BY BaseTree DEF IInv
<1>1. CASE u = t
  <2>1. DirTest(t) /\ StartErase(t)
    BY <1>1 DEF Step, Lock, InvalidName, FindRoot, BeginSearch, FindsIt, MissesIt, FileCreate,
       FileDelete, DirTest, DirErase, RevertTest, RevertErase, Lookup, DirGetEntries,
       DirNameCheck, DirEmplace, Return, Refuse, StartErase, Finish, Leave, IInv, Base, TypeOK
  <2>2. entries' = entries /\ req' = req /\ dirDelete(entries, Dir(t), req[t].id) # {}
    BY <2>1 DEF DirTest, StartErase, Refuse, IInv, Base, TypeOK, Finish, Leave
  <2>3. PICK x \in entries : x.id = req[t].id /\ x.directory /\ collectEntries(entries, x.id) = {}
    BY <2>2 DEF dirDelete
  <2>4. x = e
    BY <1>0, <1>1, <2>2, <2>3 DEF Tree
  <2>5. Closed(entries, {e})
    BY <2>3, <2>4 DEF Closed, collectEntries
  <2> QED
    BY <2>2, <2>3, <2>4, <2>5
<1>2. CASE u # t
  <2>0. pc[u] = "erase" /\ req'[u] = req[u] /\ req[u].op = "dirDelete" /\ Holds(u)
    BY <1>2, OthersPhase DEF IInv, Holds, Unlocked, UnlockedOp
  <2>1. CASE Keeps(t)
    BY <2>0, <2>1 DEF Keeps, EraseClean
  <2>2. ASSUME NEW d \in Entry, Adds(t, d), d.directory
        PROVE  \E S \in SUBSET entries' :
                 e \in S /\ Closed(entries', S) /\ \A x \in S : x.directory
    <3>1. entries' = entries \union {d} /\ \A x \in entries' : x.parent # d.id
      BY <1>2, <2>2, AddOthers DEF Adds, IInv
    <3>2. CASE e = d
      <4>1. Closed(entries', {d})
        BY <3>1 DEF Closed
      <4> QED
        BY <2>2, <3>1, <3>2, <4>1
    <3>3. CASE e \in entries
      <4>1. PICK S \in SUBSET entries : e \in S /\ Closed(entries, S) /\ \A x \in S : x.directory
        BY <2>0, <3>3 DEF EraseClean
      <4>2. Closed(entries', S \union {d})
        BY <3>1, <4>1 DEF Closed
      <4>3. S \union {d} \in SUBSET entries' /\ e \in S \union {d} /\ \A x \in S \union {d} : x.directory
        BY <2>2, <3>1, <4>1
      <4> QED
        BY <4>2, <4>3
    <3> QED
      BY <3>1, <3>2, <3>3
  <2>3. ASSUME NEW gone \in SUBSET entries, EndsFile(t, gone)
        PROVE  \E S \in SUBSET entries' :
                 e \in S /\ Closed(entries', S) /\ \A x \in S : x.directory
    <3>1. entries' = entries \ gone
      BY <2>3 DEF EndsFile
    <3>2. PICK S \in SUBSET entries : e \in S /\ Closed(entries, S) /\ \A x \in S : x.directory
      BY <2>0, <3>1 DEF EraseClean
    <3>3. Closed(entries', S \ gone)
      BY <3>1, <3>2 DEF Closed
    <3>4. S \ gone \in SUBSET entries' /\ e \in S \ gone /\ \A x \in S \ gone : x.directory
      BY <3>1, <3>2
    <3> QED
      BY <3>3, <3>4
  <2> QED
    BY <1>2, <2>0, <2>1, <2>2, <2>3, Meanwhile
<1> QED
  BY <1>1, <1>2

Removal(e) ==
  \/ \E t \in Thread : Deletes(t, e)
  \/ ~e.directory /\ \E t \in Thread : Reverts(t, e) \/ Collides(t, e)
  \/ e.directory /\ \E t \in Thread, d \in entries :
       d.directory /\ Deletes(t, d) /\ e \in Subtree(entries, d)

\* A step after which an entry is gone is one of the three, or two that collide.
LEMMA StepRemoves ==
  ASSUME IInv, EraseClean, NEW t \in Thread, Step(t), NEW e \in entries, e \notin entries'
  PROVE  Removal(e)
<1>1. CASE FileDelete(t) /\ e \in fileDelete(entries, Dir(t), req[t].id)
  <2>1. e.id = req[t].id /\ ~e.directory /\ req[t].op = "fileDelete" /\ pc[t] = "apply"
    BY <1>1 DEF FileDelete, fileDelete
  <2>2. lock = t
    BY <2>1 DEF IInv, LockInv, Holds, Unlocked, UnlockedOp
  <2>3. Leave(t, Plain("OK"))
    BY <1>1 DEF FileDelete, Refuse, Finish
  <2>4. pc'[t] = "done" /\ reply'[t].status = "OK"
    BY <2>3 DEF Leave, IInv, Base, TypeOK, Plain, Atomic!Plain
  <2> QED
    BY <2>1, <2>2, <2>4 DEF Removal, Deletes
<1>2. CASE RevertErase(t) /\ e \in fileDelete(entries, Dir(t), req[t].file)
  <2>1. e.id = req[t].file /\ ~e.directory /\ req[t].op = "revert" /\ pc[t] = "erase" /\ pc'[t] = "done"
    BY <1>2 DEF RevertErase, fileDelete, Finish, Leave, IInv, Base, TypeOK
  <2> QED
    BY <2>1 DEF Removal, Reverts
<1>3. ASSUME NEW d \in Vector(entries, Dir(t)), EndsDir(t, d), e \in Subtree(entries, d)
      PROVE  Removal(e)
  <2>1. /\ d \in entries /\ d.directory /\ d.id = req[t].id /\ req[t].op = "dirDelete"
        /\ pc[t] = "erase"
    BY <1>3 DEF EndsDir, DirErase, Vector
  <2>2. lock = t
    BY <2>1 DEF IInv, LockInv, Holds, Unlocked, UnlockedOp
  <2>3. pc'[t] = "done" /\ reply'[t].status = "OK"
    BY <1>3 DEF EndsDir, DirErase, Leave, IInv, Base, TypeOK, Plain, Atomic!Plain
  <2>4. Deletes(t, d)
    BY <2>1, <2>2, <2>3 DEF Deletes
  <2>5. PICK S \in SUBSET entries : d \in S /\ Closed(entries, S) /\ \A x \in S : x.directory
    BY <2>1 DEF EraseClean
  <2>6. e.directory
    BY <1>3, <2>5, SubtreeLeast
  <2> QED
    BY <1>3, <2>1, <2>4, <2>6 DEF Removal
<1>4. CASE FileDelete(t) /\ Erasing("revert", Dir(t)) # {} /\ e \in Files(entries, Dir(t))
  <2>1. PICK u \in Thread : pc[u] = "erase" /\ req[u].op = "revert" /\ Dir(u) = Dir(t)
    BY <1>4 DEF Erasing
  <2>2. pc[t] = "apply"
    BY <1>4 DEF FileDelete
  <2>3. pc'[u] = "erase"
    BY <2>1, <2>2, OthersPhase DEF IInv
  <2> QED
    BY <1>4, <2>1, <2>3 DEF Removal, Collides, Files
<1>5. CASE RevertErase(t) /\ overlapped[t] /\ e \in Files(entries, Dir(t))
  BY <1>5 DEF RevertErase, Removal, Collides, Files
<1> QED
  BY <1>1, <1>2, <1>3, <1>4, <1>5, Effects DEF IInv, Keeps, Adds, EndsFile, EndsDir

\* A file leaves the tree only by its deletion under the lock, with its upload, or
\* where the end of an upload to its directory met another change of the files;
\* a directory only by a deletion under the lock, and no file ever with one.
THEOREM RemovalCorrect == Spec => OnlyDeletionsRemove
<1>1. Init => EraseClean
  BY DEF Init, EraseClean
<1>2. TypeOK /\ TreeInv /\ LockInv /\ Phases /\ EraseClean /\ [Next]_vars => EraseClean'
  <2> SUFFICES ASSUME IInv, EraseClean, [Next]_vars PROVE EraseClean'
    BY DEF IInv, Base
  <2>1. CASE UNCHANGED vars
    BY <2>1 DEF vars, EraseClean
  <2>2. ASSUME NEW t \in Thread, NEW r \in Request, Call(t, r) PROVE EraseClean'
    BY <2>2 DEF Call, EraseClean, IInv, Base, TypeOK
  <2> QED
    BY <2>1, <2>2, EraseCleanStep DEF Next
<1>3. TypeOK /\ TreeInv /\ LockInv /\ Phases /\ EraseClean /\ [Next]_vars =>
        [\A e \in entries \ entries' :
           \/ \E t \in Thread : Deletes(t, e)
           \/ ~e.directory /\ \E t \in Thread : Reverts(t, e) \/ Collides(t, e)
           \/ e.directory /\ \E t \in Thread, d \in entries :
                d.directory /\ Deletes(t, d) /\ e \in Subtree(entries, d)]_vars
  <2> SUFFICES ASSUME IInv, EraseClean, Next, NEW e \in entries, e \notin entries'
               PROVE  Removal(e)
    BY DEF Removal, IInv, Base
  <2>1. PICK t \in Thread : Step(t)
    BY DEF Next, Call
  <2> QED
    BY <2>1, StepRemoves
<1> QED
  BY TypeCorrect, LockCorrect, <1>1, <1>2, <1>3, PTL DEF Spec, OnlyDeletionsRemove

-----------------------------------------------------------------------------
(* Atomicity, as long as no request overlaps an operation without a lock.  *)

InVFS(t) == pc[t] \in {"enter", "search", "apply", "emplace", "erase"}

\* The strengthening: an operation without a lock runs alone, so no search and no
\* change is disturbed, and what a thread found before it applies its effect is
\* still what a search of the present tree would find.
Alone ==
  \A t, u \in Thread : t # u /\ Busy(t) /\ Busy(u) => ~Unlocked(t)

Undisturbed ==
  \A t \in Thread : pc[t] \in {"search", "emplace", "erase"} => ~overlapped[t]

Current(t) ==
  /\ pc[t] \in {"search", "apply", "emplace", "erase"} => Named(req[t])
  /\ pc[t] \in {"apply", "emplace", "erase"} =>
       /\ Find(entries, req[t]) # NULL
       /\ req[t].op \notin LookupOp => Dir(t) = Find(entries, req[t])
  /\ pc[t] = "emplace" => ~dirNameExists(entries, Dir(t), req[t].name)
  /\ pc[t] = "erase" /\ req[t].op = "dirDelete" => dirDelete(entries, Dir(t), req[t].id) # {}

FoundCurrent == \A t \in Thread : Current(t)

AloneInv == Alone /\ Undisturbed /\ FoundCurrent

\* One thread at a time is in the tree.
LEMMA Exclusion ==
  ASSUME IInv, Alone, NEW t \in Thread, NEW u \in Thread, InVFS(t), InVFS(u)
  PROVE  t = u
<1> SUFFICES ASSUME t # u PROVE FALSE
  OBVIOUS
<1>1. ~Unlocked(t) /\ ~Unlocked(u)
  BY DEF Alone, InVFS, Busy
<1>2. Holds(t) /\ Holds(u)
  BY <1>1 DEF InVFS, Holds, IInv, Phases, Unlocked, UnlockedOp
<1> QED
  BY <1>2 DEF IInv, LockInv

\* So nothing happens to the tree while another thread is in it.
LEMMA OthersOutside ==
  ASSUME IInv, Alone, NEW t \in Thread, Step(t), NEW u \in Thread, u # t, InVFS(u)
  PROVE  /\ pc'[u] = pc[u] /\ req'[u] = req[u] /\ overlapped'[u] = overlapped[u]
         /\ UNCHANGED <<entries, found>>
<1>1. ~InVFS(t)
  BY Exclusion
<1>2. Lock(t) \/ Return(t)
  BY <1>1 DEF InVFS, Step, InvalidName, FindRoot, BeginSearch, FindsIt, MissesIt, FileCreate,
       FileDelete, DirTest, DirErase, RevertTest, RevertErase, Lookup, DirGetEntries,
       DirNameCheck, DirEmplace
<1> QED
  BY <1>2, OthersPhase DEF Lock, Return, IInv, Base, TypeOK

\* A step of a method ends its own request at most, so what runs without a lock
\* stays alone.
LEMMA AloneStep ==
  ASSUME IInv, Alone, NEW t \in Thread, Step(t)
  PROVE  Alone'
<1>1. req' = req \/ pc'[t] = "idle"
  BY DEF Step, Lock, InvalidName, FindRoot, BeginSearch, FindsIt, MissesIt, FileCreate,
       FileDelete, DirTest, DirErase, RevertTest, RevertErase, Lookup, DirGetEntries,
       DirNameCheck, DirEmplace, Return, Refuse, StartErase, Finish, Leave, IInv, Base, TypeOK
<1>2. \A u \in Thread \ {t} : pc'[u] = pc[u] /\ req'[u] = req[u]
  BY OthersPhase DEF IInv
<1>3. Busy(t)' => Busy(t)
  BY DEF Step, Lock, InvalidName, FindRoot, BeginSearch, FindsIt, MissesIt, FileCreate,
       FileDelete, DirTest, DirErase, RevertTest, RevertErase, Lookup, DirGetEntries,
       DirNameCheck, DirEmplace, Return, Refuse, StartErase, Finish, Leave, IInv, Base, TypeOK, Busy
<1> QED
  BY <1>1, <1>2, <1>3 DEF Alone, Busy, Unlocked

\* So it does when a request arrives, as requests do not overlap it.
LEMMA AloneCall ==
  ASSUME UnlockedAlone, IInv, Alone, NEW t \in Thread, NEW r \in Request, Call(t, r)
  PROVE  Alone'
BY DEF Call, MayOverlap, IInv, Base, TypeOK, Alone, Busy, Unlocked

\* Nobody else is found searching or erasing.
LEMMA NobodyMet ==
  ASSUME IInv, Alone, NEW t \in Thread, InVFS(t)
  PROVE  /\ \A u \in Thread : InVFS(u) => u = t
         /\ pc[t] # "search" => Searching = {}
         /\ pc[t] # "erase" => \A op, dir : Erasing(op, dir) = {}
<1>1. \A u \in Thread : InVFS(u) => u = t
  BY Exclusion
<1> QED
  BY <1>1 DEF Searching, Erasing, InVFS

\* None is disturbed.
LEMMA UndisturbedStep ==
  ASSUME IInv, Alone, Undisturbed, NEW t \in Thread, Step(t)
  PROVE  Undisturbed'
<1> SUFFICES ASSUME NEW u \in Thread, pc'[u] \in {"search", "emplace", "erase"}
             PROVE  ~overlapped'[u]
  BY DEF Undisturbed
<1>1. CASE u # t
  <2>1. pc[u] = pc'[u] /\ InVFS(u)
    BY <1>1, OthersPhase DEF IInv, InVFS
  <2> QED
    BY <1>1, <2>1, OthersOutside DEF Undisturbed
<1>2. CASE u = t
  <2>1. \/ BeginSearch(t)
        \/ DirNameCheck(t) /\ pc'[t] = "emplace"
        \/ (DirTest(t) \/ RevertTest(t)) /\ StartErase(t)
    BY <1>2 DEF Step, Lock, InvalidName, FindRoot, BeginSearch, FindsIt, MissesIt, FileCreate,
       FileDelete, DirTest, DirErase, RevertTest, RevertErase, Lookup, DirGetEntries,
       DirNameCheck, DirEmplace, Return, Refuse, StartErase, Finish, Leave, IInv, Base, TypeOK
  <2>2. CASE BeginSearch(t)
    <3>1. InVFS(t) /\ pc[t] = "enter"
      BY <2>2 DEF BeginSearch, InVFS
    <3>2. Searching = {} /\ \A v \in Thread : pc[v] # "erase"
      BY <3>1, NobodyMet DEF InVFS
    <3>3. overlapped'[t] = (Searching # {} \/ \E v \in Thread : pc[v] = "erase" /\ Walks(t, v))
      BY <2>2 DEF BeginSearch
    <3> QED
      BY <1>2, <3>2, <3>3
  <2>3. CASE DirNameCheck(t) /\ pc'[t] = "emplace"
    <3>1. Erasing("dirDelete", Dir(t)) = {}
      BY <2>3, NobodyMet DEF DirNameCheck, InVFS
    <3>2. overlapped' = [overlapped EXCEPT ![t] = Erasing("dirDelete", Dir(t)) # {}]
      BY <2>3 DEF DirNameCheck, Refuse, Finish, Leave, IInv, Base, TypeOK
    <3> QED
      BY <1>2, <3>1, <3>2 DEF IInv, Base, TypeOK
  <2>4. CASE StartErase(t)
    BY <1>2, <2>4 DEF StartErase
  <2> QED
    BY <2>1, <2>2, <2>3, <2>4
<1> QED
  BY <1>1, <1>2

\* While one thread at a time is in the tree, what it found stays current.
LEMMA CurrentStep ==
  ASSUME IInv, Alone, Undisturbed, FoundCurrent, NEW t \in Thread, Step(t)
  PROVE  FoundCurrent'
<1>1. ASSUME NEW u \in Thread, u # t PROVE Current(u)'
  <2>1. CASE InVFS(u)
    BY <1>1, <2>1, OthersOutside DEF FoundCurrent, Current, Dir
  <2>2. CASE ~InVFS(u)
    BY <1>1, <2>2, OthersPhase DEF IInv, InVFS, Current
  <2> QED
    BY <2>1, <2>2
<1>2. Current(t)'
  <2>0. Base /\ Current(t) /\ req[t] \in Request
    BY DEF IInv, FoundCurrent, Base, TypeOK
  <2>1. CASE FindRoot(t)
    <3>1. /\ pc'[t] = "apply" /\ found'[t] = RootPtr /\ UNCHANGED <<entries, req>>
          /\ req[t].op \in DirOp /\ req[t].id = Root /\ Named(req[t])
      BY <2>1 DEF FindRoot, RootOnly, IInv, Base, TypeOK
    <3>2. At(entries, RootPtr) = Root /\ Find(entries, req[t]) = Root
      BY <3>1, FindKinds DEF At, findDir
    <3> QED
      BY <3>1, <3>2 DEF Current, Dir, NULL
  <2>2. CASE BeginSearch(t)
    BY <2>2 DEF BeginSearch, Current, IInv, Base, TypeOK
  <2>3. CASE FindsIt(t)
    <3>1. /\ pc'[t] = "apply" /\ UNCHANGED <<entries, req>> /\ Find(entries, req[t]) # NULL
          /\ Named(req[t])
          /\ req[t].op \notin LookupOp => found'[t] = PointerTo(entries, Find(entries, req[t]))
      BY <2>0, <2>3 DEF FindsIt, Current, Base, TypeOK
    <3>2. req[t].op \notin LookupOp =>
            At(entries, PointerTo(entries, Find(entries, req[t]))) = Find(entries, req[t])
      BY <2>0, <3>1, FindsPointer
    <3> QED
      BY <3>1, <3>2 DEF Current, Dir
  <2>4. CASE DirNameCheck(t) /\ pc'[t] = "emplace"
    <3>1. /\ UNCHANGED <<entries, req, found>> /\ pc[t] = "apply"
          /\ \/ ~dirNameExists(entries, Dir(t), req[t].name)
             \/ Erasing("dirDelete", Dir(t)) # {}
      BY <2>4 DEF DirNameCheck, Refuse, Finish, Leave, IInv, Base, TypeOK
    <3>2. Erasing("dirDelete", Dir(t)) = {}
      BY <3>1, NobodyMet DEF InVFS
    <3> QED
      BY <2>0, <2>4, <3>1, <3>2 DEF Current, Dir
  <2>5. CASE DirTest(t) /\ StartErase(t)
    <3>1. /\ UNCHANGED <<entries, req, found>> /\ pc[t] = "apply" /\ pc'[t] = "erase"
          /\ dirDelete(entries, Dir(t), req[t].id) # {}
      BY <2>5 DEF DirTest, StartErase, Refuse, Finish, Leave, IInv, Base, TypeOK
    <3> QED
      BY <2>0, <3>1 DEF Current, Dir
  <2>6. CASE RevertTest(t) /\ StartErase(t)
    <3>1. UNCHANGED <<entries, req, found>> /\ pc[t] = "apply" /\ pc'[t] = "erase" /\ req[t].op = "revert"
      BY <2>6 DEF RevertTest, StartErase, IInv, Base, TypeOK
    <3> QED
      BY <2>0, <3>1 DEF Current, Dir
  <2>7. \/ FindRoot(t) \/ BeginSearch(t) \/ FindsIt(t)
        \/ DirNameCheck(t) /\ pc'[t] = "emplace"
        \/ (DirTest(t) \/ RevertTest(t)) /\ StartErase(t)
        \/ pc'[t] \notin {"search", "apply", "emplace", "erase"}
    BY DEF Step, Lock, InvalidName, FindRoot, BeginSearch, FindsIt, MissesIt, FileCreate,
       FileDelete, DirTest, DirErase, RevertTest, RevertErase, Lookup, DirGetEntries,
       DirNameCheck, DirEmplace, Return, Refuse, StartErase, Finish, Leave, IInv, Base, TypeOK
  <2> QED
    BY <2>1, <2>2, <2>3, <2>4, <2>5, <2>6, <2>7 DEF Current
<1> QED
  BY <1>1, <1>2 DEF FoundCurrent

\* The strengthening is inductive.
LEMMA AloneInvNext ==
  ASSUME UnlockedAlone, IInv, AloneInv, [Next]_vars
  PROVE  AloneInv'
<1>1. CASE UNCHANGED vars
  BY <1>1 DEF AloneInv, Alone, Undisturbed, FoundCurrent, Current, Busy, Unlocked, Dir, vars
<1>2. ASSUME NEW t \in Thread, Step(t) PROVE AloneInv'
  BY <1>2, AloneStep, UndisturbedStep, CurrentStep DEF AloneInv
<1>3. ASSUME NEW t \in Thread, NEW r \in Request, Call(t, r) PROVE AloneInv'
  <2>1. Undisturbed'
    BY <1>3 DEF AloneInv, Undisturbed, Call, IInv, Base, TypeOK
  <2>2. FoundCurrent'
    <3> SUFFICES ASSUME NEW u \in Thread PROVE Current(u)'
      BY DEF FoundCurrent
    <3>1. CASE u = t
      BY <1>3, <3>1 DEF Current, Call, IInv, Base, TypeOK
    <3>2. CASE u # t
      BY <1>3, <3>2 DEF AloneInv, FoundCurrent, Current, Call, Dir, IInv, Base, TypeOK
    <3> QED
      BY <3>1, <3>2
  <2> QED
    BY <1>3, <2>1, <2>2, AloneCall DEF AloneInv
<1> QED
  BY <1>1, <1>2, <1>3 DEF Next

\* The abstract stage of a phase.
StageOf(x) == CASE x = "idle" -> "idle" [] x = "done" -> "done" [] OTHER -> "called"

\* How the abstract stage follows the phase of a thread.
LEMMA StageUpdate ==
  ASSUME TypeOK, NEW t \in Thread, NEW x, pc' = [pc EXCEPT ![t] = x]
  PROVE  stage' = [stage EXCEPT ![t] = StageOf(x)]
BY DEF TypeOK, stage, StageOf

\* A change of phase inside one stage is a stutter of the abstract endpoint.
LEMMA StageKept ==
  ASSUME TypeOK, NEW t \in Thread, NEW x, pc' = [pc EXCEPT ![t] = x],
         StageOf(x) = StageOf(pc[t])
  PROVE  stage' = stage
BY DEF TypeOK, stage, StageOf

\* The answer of a method is the instant the operation takes effect.
LEMMA LeaveAnswers ==
  ASSUME TypeOK, NEW t \in Thread, NEW a, Leave(t, a), InVFS(t)
  PROVE  Atomic!Answer(t, a)
<1>1. stage[t] = "called"
  BY DEF stage, InVFS
<1>2. stage' = [stage EXCEPT ![t] = "done"]
  BY StageUpdate DEF Leave, StageOf
<1> QED
  BY <1>1, <1>2 DEF Atomic!Answer, Leave

\* An early return is the refusal of the abstract endpoint.
LEMMA RefuseAnswers ==
  ASSUME TypeOK, NEW t \in Thread, NEW s, Refuse(t, s), InVFS(t)
  PROVE  Atomic!Refuse(t, s)
<1>1. Leave(t, Plain(s)) /\ UNCHANGED <<entries, nextUID>>
  BY DEF Refuse, Finish
<1>2. Atomic!Answer(t, Plain(s))
  BY <1>1, LeaveAnswers
<1> QED
  BY <1>1, <1>2 DEF Atomic!Refuse, Plain

\* The containing directory found, what it erases is what has the uid.
LEMMA ErasedAreOwned ==
  ASSUME UIDsUnique, NEW uid
  PROVE  LET dir == findContainingDir(entries, uid) IN
         /\ fileDelete(entries, dir, uid) = {e \in entries : e.id = uid /\ ~e.directory}
         /\ dirDelete(entries, dir, uid) =
              {e \in entries : /\ e.id = uid /\ e.directory
                               /\ collectEntries(entries, uid) = {}}
<1>1. CASE \E e \in entries : e.id = uid
  <2>1. PICK e \in entries : e.id = uid
    BY <1>1
  <2>2. findContainingDir(entries, uid) = e.parent
    BY <2>1 DEF findContainingDir, UIDsUnique
  <2> QED
    BY <2>1, <2>2 DEF fileDelete, dirDelete, UIDsUnique
<1>2. CASE ~\E e \in entries : e.id = uid
  BY <1>2 DEF fileDelete, dirDelete
<1> QED
  BY <1>1, <1>2

\* An entry that exists is contained in a directory.
LEMMA ContainedIffOwned ==
  ASSUME Base, NEW uid
  PROVE  findContainingDir(entries, uid) = NULL <=> {e \in entries : e.id = uid} = {}
BY BaseTree DEF findContainingDir

AInv == IInv /\ AloneInv

USE DEF StageOf

\* The facts that a thread in the tree starts from.
LEMMA InTree ==
  ASSUME AInv, NEW t \in Thread, pc[t] \in {"apply", "emplace", "erase"}
  PROVE  /\ IInv /\ Alone /\ Base /\ TypeOK /\ UIDsUnique /\ InVFS(t) /\ req[t] \in Request
         /\ Find(entries, req[t]) # NULL /\ Named(req[t])
         /\ req[t].op \in DirOp =>
              Dir(t) = req[t].id /\ Dir(t) # NULL /\ findDir(entries, req[t].id) # NULL
         /\ req[t].op \in DeleteOp =>
              /\ Dir(t) = findContainingDir(entries, req[t].id) /\ Dir(t) # NULL
              /\ {e \in entries : e.id = req[t].id} # {}
         /\ pc[t] # "erase" => \A op, dir : Erasing(op, dir) = {}
<1>1. IInv /\ Alone /\ Current(t) /\ Base /\ TypeOK /\ UIDsUnique /\ InVFS(t) /\ req[t] \in Request
  BY DEF AInv, AloneInv, FoundCurrent, IInv, Base, TreeInv, TypeOK, InVFS
<1>2. CASE req[t].op \in DirOp
  <2>1. Find(entries, req[t]) = findDir(entries, req[t].id) /\ req[t].op \notin LookupOp
        /\ req[t].op \notin DeleteOp
    BY <1>2, FindKinds DEF DirOp, LookupOp, DeleteOp, CreateOp, Atomic!CreateOp, Atomic!LookupOp
  <2> QED
    BY <1>1, <1>2, <2>1, NobodyMet DEF Current, findDir
<1>3. CASE req[t].op \notin DirOp
  <2>1. req[t].op \in DeleteOp => /\ Find(entries, req[t]) = findContainingDir(entries, req[t].id)
                                  /\ req[t].op \notin LookupOp
    BY FindKinds DEF LookupOp, DeleteOp, Atomic!LookupOp
  <2> QED
    BY <1>1, <1>3, <2>1, NobodyMet, ContainedIffOwned DEF Current
<1> QED
  BY <1>2, <1>3

\* What a deletion does through its pointer is what the atomic deletion does.
LEMMA DeleteRefines ==
  ASSUME AInv, NEW t \in Thread, FileDelete(t) \/ DirErase(t) \/ (DirTest(t) /\ ~StartErase(t))
  PROVE  Atomic!Delete(t)
<1> DEFINE owned == {e \in entries : e.id = req[t].id}
           gone == {e \in owned : IF req[t].op = "fileDelete"
                                    THEN ~e.directory
                                    ELSE e.directory /\ collectEntries(entries, e.id) = {}}
<1>1. /\ pc[t] \in {"apply", "erase"} /\ req[t].op \in DeleteOp
      /\ FileDelete(t) <=> req[t].op = "fileDelete"
  BY DEF FileDelete, DirErase, DirTest, DeleteOp
<1>2. /\ TypeOK /\ UIDsUnique /\ InVFS(t) /\ owned # {} /\ Tree(entries)
      /\ Dir(t) = findContainingDir(entries, req[t].id)
      /\ pc[t] = "apply" => \A op, dir : Erasing(op, dir) = {}
  BY <1>1, InTree, BaseTree
<1>3. CASE FileDelete(t)
  <2>1. gone = fileDelete(entries, Dir(t), req[t].id) /\ req[t].op = "fileDelete" /\ pc[t] = "apply"
    BY <1>2, <1>3, ErasedAreOwned DEF FileDelete
  <2>2. CASE gone = {}
    <3>1. Refuse(t, "ERR_UNSUCCESSFUL")
      BY <1>3, <2>1, <2>2 DEF FileDelete
    <3>2. Atomic!Refuse(t, "ERR_UNSUCCESSFUL")
      BY <3>1, <1>2, RefuseAnswers
    <3> QED
      BY <3>2, <1>2, <2>1, <2>2, AtomicTree DEF Atomic!Delete
  <2>3. CASE gone # {}
    <3>1. Erasing("revert", Dir(t)) = {}
      BY <1>2, <2>1
    <3>2. entries' = entries \ gone /\ UNCHANGED nextUID /\ Leave(t, Plain("OK"))
      BY <1>3, <2>1, <2>3, <3>1 DEF FileDelete, Finish
    <3>3. Atomic!Answer(t, Atomic!Plain("OK"))
      BY <3>2, <1>2, LeaveAnswers DEF Plain
    <3> QED
      BY <3>2, <3>3, <1>2, <2>1, <2>3, AtomicTree DEF Atomic!Delete
  <2> QED
    BY <2>2, <2>3
<1>4. CASE ~FileDelete(t)
  <2>0. req[t].op = "dirDelete"
    BY <1>1, <1>4 DEF DeleteOp
  <2>1. gone = dirDelete(entries, Dir(t), req[t].id)
    BY <1>2, <2>0, ErasedAreOwned
  <2>2. CASE DirTest(t) /\ ~StartErase(t)
    <3>1. gone = {} /\ Refuse(t, "ERR_UNSUCCESSFUL")
      BY <2>1, <2>2 DEF DirTest
    <3>2. Atomic!Refuse(t, "ERR_UNSUCCESSFUL")
      BY <3>1, <1>2, RefuseAnswers
    <3> QED
      BY <3>1, <3>2, <1>2, <2>0, AtomicTree DEF Atomic!Delete
  <2>3. CASE DirErase(t)
    <3>1. gone # {} /\ ~overlapped[t]
      BY <2>0, <2>1, <2>3 DEF AInv, AloneInv, FoundCurrent, Current, Undisturbed, DirErase
    <3>2. PICK e \in gone : TRUE
      BY <3>1
    <3>3. gone = {e} /\ e \in Vector(entries, Dir(t)) /\ e.id = req[t].id
          /\ collectEntries(entries, e.id) = {}
      BY <1>2, <2>0, <2>1, <3>2 DEF Tree, dirDelete, Vector
    <3>4. Subtree(entries, e) = {e}
      BY <3>3, SubtreeOfEmpty DEF Vector
    <3>5. entries' = entries \ gone /\ UNCHANGED nextUID /\ Leave(t, Plain("OK"))
      <4>1. \A x \in Vector(entries, Dir(t)) : x.id = req[t].id => x = e
        BY <1>2, <3>3 DEF Tree, Vector
      <4> QED
        BY <2>3, <3>1, <3>3, <3>4, <4>1 DEF DirErase
    <3>6. Atomic!Answer(t, Atomic!Plain("OK"))
      BY <3>5, <1>2, LeaveAnswers DEF Plain
    <3> QED
      BY <3>1, <3>5, <3>6, <1>2, <2>0, AtomicTree DEF Atomic!Delete
  <2> QED
    BY <1>4, <2>2, <2>3
<1> QED
  BY <1>3, <1>4

\* What the end of an upload does is what the atomic revert does.
LEMMA RevertRefines ==
  ASSUME AInv, NEW t \in Thread, RevertErase(t) \/ (RevertTest(t) /\ ~StartErase(t))
  PROVE  Atomic!Revert(t)
<1>1. pc[t] \in {"apply", "erase"} /\ req[t].op = "revert"
  BY DEF RevertErase, RevertTest
<1>2. /\ TypeOK /\ InVFS(t) /\ Dir(t) = req[t].id /\ findDir(entries, req[t].id) # NULL
  BY <1>1, InTree DEF DirOp
<1>3. /\ entries' = entries \ fileDelete(entries, Dir(t), req[t].file)
      /\ UNCHANGED nextUID /\ Leave(t, Plain("OK"))
  <2>1. CASE RevertErase(t)
    BY <2>1 DEF RevertErase, Finish, AInv, AloneInv, Undisturbed
  <2>2. CASE RevertTest(t) /\ ~StartErase(t)
    BY <2>2 DEF RevertTest, Refuse, Finish
  <2> QED
    BY <2>1, <2>2
<1>4. Atomic!Answer(t, Atomic!Plain("OK"))
  BY <1>2, <1>3, LeaveAnswers DEF Plain
<1> QED
  BY <1>1, <1>2, <1>3, <1>4, AtomicTree DEF Atomic!Revert

\* What a creation does through its pointer is what the atomic creation does.
LEMMA CreateRefines ==
  ASSUME AInv, NEW t \in Thread, FileCreate(t) \/ DirEmplace(t)
  PROVE  Atomic!Create(t)
<1>1. /\ pc[t] \in {"apply", "emplace"} /\ req[t].op \in CreateOp /\ req[t].op \in DirOp
      /\ req[t].op \in Atomic!CreateOp
  BY DEF FileCreate, DirEmplace, CreateOp, DirOp, Atomic!CreateOp
<1>2. /\ IInv /\ Alone /\ TypeOK /\ InVFS(t) /\ Dir(t) = req[t].id /\ Dir(t) # NULL
      /\ findDir(entries, req[t].id) # NULL /\ req[t].name \in ValidName
      /\ \A op, dir : Erasing(op, dir) = {}
  BY <1>1, InTree DEF Named
<1>3. CASE FileCreate(t)
  <2>0. req[t].op = "fileCreate"
    BY <1>3 DEF FileCreate
  <2>1. CASE fileNameExists(entries, req[t].id, req[t].name)
    <3>1. Refuse(t, "ERR_NO_UNIQUE_NAME")
      BY <1>2, <1>3, <2>1 DEF FileCreate
    <3>2. Atomic!Refuse(t, "ERR_NO_UNIQUE_NAME")
      BY <3>1, <1>2, RefuseAnswers
    <3> QED
      BY <2>0, <3>2, <1>1, <1>2, <2>1, AtomicTree DEF Atomic!Create
  <2>2. CASE ~fileNameExists(entries, req[t].id, req[t].name)
    <3>1. /\ Leave(t, [Plain("OK") EXCEPT !.id = nextUID])
          /\ entries' = entries \union {File(nextUID, req[t].id, req[t].name)}
          /\ nextUID' = nextUID + 1
      BY <1>2, <1>3, <2>2 DEF FileCreate, fileAdd, Finish, Append
    <3>2. Atomic!Answer(t, [Atomic!Plain("OK") EXCEPT !.id = nextUID])
      BY <3>1, <1>2, LeaveAnswers DEF Plain
    <3> QED
      BY <2>0, <3>1, <3>2, <1>1, <1>2, <2>2, AtomicTree DEF Atomic!Create
  <2> QED
    BY <2>1, <2>2
<1>4. CASE DirEmplace(t)
  <2>1. {u \in Thread \ {t} : pc[u] = "emplace" /\ Dir(u) = Dir(t)} = {}
    BY <1>2, NobodyMet DEF InVFS
  <2>2. ~dirNameExists(entries, req[t].id, req[t].name) /\ req[t].op = "dirCreate"
    BY <1>2, <1>4 DEF AInv, AloneInv, FoundCurrent, Current, DirEmplace
  <2>3. /\ Leave(t, Plain("OK"))
        /\ entries' = entries \union {Directory(nextUID, req[t].id, req[t].name)}
        /\ nextUID' = nextUID + 1
    <3>1. Append(t, dirAdd(entries, Dir(t), req[t].name, nextUID), {}) /\ Leave(t, Plain("OK"))
      <4>1. PICK met : /\ met = Erasing("dirDelete", Dir(t))
                                  \union {u \in Thread \ {t} : pc[u] = "emplace" /\ Dir(u) = Dir(t)}
                       /\ Append(t, dirAdd(entries, Dir(t), req[t].name, nextUID), met)
                       /\ Leave(t, Plain("OK"))
        BY <1>4 DEF DirEmplace
      <4>2. met = {}
        BY <1>2, <2>1, <4>1
      <4> QED
        BY <4>1, <4>2
    <3> QED
      BY <1>2, <3>1 DEF Append, dirAdd
  <2>4. Atomic!Answer(t, Atomic!Plain("OK"))
    BY <2>3, <1>2, LeaveAnswers DEF Plain
  <2> QED
    BY <2>2, <2>3, <2>4, <1>1, <1>2, AtomicTree DEF Atomic!Create
<1> QED
  BY <1>3, <1>4

\* A search that misses is right to: the tree does not have what it looks for.
LEMMA MissRefines ==
  ASSUME AInv, NEW t \in Thread, MissesIt(t)
  PROVE  Atomic!Create(t) \/ Atomic!Delete(t) \/ Atomic!Read(t) \/ Atomic!Revert(t)
<1>0. Base /\ TypeOK /\ InVFS(t) /\ req[t] \in Request
  BY DEF AInv, IInv, Base, TypeOK, MissesIt, InVFS
<1>1. Find(entries, req[t]) = NULL /\ Refuse(t, Missing(req[t])) /\ Named(req[t])
  BY DEF MissesIt, AInv, AloneInv, Undisturbed, FoundCurrent, Current
<1>2. Atomic!Refuse(t, Missing(req[t]))
  BY <1>0, <1>1, RefuseAnswers
<1>3. CASE req[t].op \in CreateOp
  <2>1. findDir(entries, req[t].id) = NULL /\ Missing(req[t]) = "ERR_NO_SUCH_DIR"
        /\ req[t].name \in ValidName
    BY <1>1, <1>3, FindKinds DEF DirOp, Missing, Named, CreateOp, LookupOp, Atomic!CreateOp,
                                 Atomic!LookupOp
  <2> QED
    BY <1>2, <1>3, <2>1, AtomicTree DEF Atomic!Create, CreateOp
<1>4. CASE req[t].op \in DeleteOp
  <2>1. /\ findContainingDir(entries, req[t].id) = NULL
        /\ Missing(req[t]) = "ERR_NO_SUCH_DIR"
        /\ req[t].op \in {"fileDelete", "dirDelete"}
    BY <1>1, <1>4, FindKinds DEF Missing, DeleteOp, LookupOp, Atomic!LookupOp
  <2>2. {e \in entries : e.id = req[t].id} = {}
    BY <1>0, <2>1, ContainedIffOwned
  <2> QED
    BY <1>2, <1>4, <2>1, <2>2 DEF Atomic!Delete
<1>5. CASE req[t].op \in LookupOp
  <2>1. findFile(entries, req[t].id) = NULL /\ Missing(req[t]) = "ERR_NO_SUCH_FILE"
    BY <1>1, <1>5, FindKinds DEF Missing, LookupOp, Atomic!LookupOp
  <2> QED
    BY <1>2, <1>5, <2>1, AtomicTree DEF Atomic!Read, LookupOp
<1>6. CASE req[t].op = "dirGetEntries"
  <2>1. findDir(entries, req[t].id) = NULL /\ Missing(req[t]) = "ERR_NO_SUCH_DIR"
    BY <1>1, <1>6, FindKinds DEF DirOp, Missing, LookupOp, Atomic!LookupOp
  <2> QED
    BY <1>2, <1>6, <2>1, AtomicTree DEF Atomic!Read
<1>7. CASE req[t].op = "revert"
  <2>1. findDir(entries, req[t].id) = NULL /\ Missing(req[t]) = "OK"
    BY <1>1, <1>7, FindKinds DEF DirOp, Missing, LookupOp, Atomic!LookupOp
  <2>2. Atomic!Answer(t, Atomic!Plain("OK")) /\ UNCHANGED <<entries, nextUID>>
    BY <1>2, <2>1 DEF Atomic!Refuse
  <2> QED
    BY <1>7, <2>1, <2>2, AtomicTree DEF Atomic!Revert
<1> QED
  BY <1>0, <1>3, <1>4, <1>5, <1>6, <1>7, RequestFields

\* Every step of a method is a step of the atomic endpoint or a stutter.
LEMMA StepRefines ==
  ASSUME AInv, NEW t \in Thread, Step(t)
  PROVE  \/ Atomic!Create(t) \/ Atomic!Delete(t) \/ Atomic!Revert(t) \/ Atomic!Read(t)
         \/ Atomic!Return(t) \/ UNCHANGED Atomic!vars
<1>0. TypeOK
  BY DEF AInv, IInv, Base
<1>s. ASSUME NEW x \in {"enter", "search", "apply", "emplace", "erase"},
             pc' = [pc EXCEPT ![t] = x], pc[t] \notin {"idle", "done"},
             UNCHANGED <<entries, nextUID, req, reply>>
      PROVE  UNCHANGED Atomic!vars
  <2>1. stage' = stage
    BY <1>0, <1>s, StageKept
  <2> QED
    BY <1>s, <2>1 DEF Atomic!vars
<1>1. CASE Lock(t) \/ FindRoot(t) \/ BeginSearch(t) \/ FindsIt(t)
  <2>1. PICK x \in {"enter", "search", "apply"} : pc' = [pc EXCEPT ![t] = x]
    BY <1>1 DEF Lock, FindRoot, BeginSearch, FindsIt
  <2>2. pc[t] \in {"lock", "enter", "search"} /\ UNCHANGED <<entries, nextUID, req, reply>>
    BY <1>1 DEF Lock, FindRoot, BeginSearch, FindsIt
  <2> QED
    BY <2>1, <2>2, <1>s
<1>2. CASE InvalidName(t)
  <2>1. Atomic!Refuse(t, "ERR_INVALID_FILE_NAME")
    BY <1>0, <1>2, RefuseAnswers DEF InvalidName, InVFS
  <2> QED
    BY <1>2, <2>1 DEF Atomic!Create, InvalidName, Named, CreateOp
<1>3. CASE MissesIt(t)
  BY <1>3, MissRefines
<1>4. CASE FileCreate(t) \/ DirEmplace(t)
  BY <1>4, CreateRefines
<1>5. CASE (DirTest(t) \/ RevertTest(t)) /\ StartErase(t)
  BY <1>5, <1>s DEF DirTest, RevertTest, StartErase
<1>6. CASE FileDelete(t) \/ DirErase(t) \/ (DirTest(t) /\ ~StartErase(t))
  BY <1>6, DeleteRefines
<1>7. CASE RevertErase(t) \/ (RevertTest(t) /\ ~StartErase(t))
  BY <1>7, RevertRefines
<1>8. CASE Lookup(t)
  <2>1. /\ findFile(entries, req[t].id) # NULL /\ req[t].op \in Atomic!LookupOp /\ InVFS(t)
    BY <1>8, InTree, FindKinds DEF Lookup, LookupOp
  <2>2. Atomic!Refuse(t, "OK")
    BY <1>0, <1>8, <2>1, RefuseAnswers DEF Lookup
  <2> QED
    BY <2>1, <2>2, AtomicTree DEF Atomic!Read
<1>9. CASE DirGetEntries(t)
  <2>1. /\ findDir(entries, req[t].id) # NULL /\ req[t].op = "dirGetEntries"
        /\ Dir(t) = req[t].id /\ InVFS(t)
    BY <1>9, InTree DEF DirGetEntries, DirOp
  <2>2. /\ Leave(t, [Plain("OK") EXCEPT !.listing = collectEntries(entries, req[t].id)])
        /\ UNCHANGED <<entries, nextUID>>
    BY <1>9, <2>1 DEF DirGetEntries, Finish
  <2>3. Atomic!Answer(t, [Atomic!Plain("OK") EXCEPT !.listing = collectEntries(entries, req[t].id)])
    BY <1>0, <2>1, <2>2, LeaveAnswers DEF Plain
  <2> QED
    BY <2>1, <2>2, <2>3, AtomicTree DEF Atomic!Read
<1>10. CASE DirNameCheck(t)
  <2>0. /\ findDir(entries, req[t].id) # NULL /\ req[t].op = "dirCreate" /\ InVFS(t)
        /\ Dir(t) = req[t].id /\ pc[t] = "apply" /\ req[t].name \in ValidName
    BY <1>10, InTree DEF DirNameCheck, DirOp, CreateOp, Atomic!CreateOp, Named
  <2>1. CASE Refuse(t, "ERR_NO_UNIQUE_NAME")
    <3>1. dirNameExists(entries, req[t].id, req[t].name)
      BY <1>10, <2>0, <2>1 DEF DirNameCheck, Refuse, Finish, Leave, TypeOK, AInv, IInv, Base
    <3>2. Atomic!Refuse(t, "ERR_NO_UNIQUE_NAME")
      BY <2>1, <1>0, <2>0, RefuseAnswers
    <3> QED
      BY <3>1, <3>2, <2>0, AtomicTree DEF Atomic!Create, Atomic!CreateOp
  <2>2. CASE ~Refuse(t, "ERR_NO_UNIQUE_NAME")
    BY <1>10, <2>0, <2>2, <1>s DEF DirNameCheck
  <2> QED
    BY <2>1, <2>2
<1>11. CASE Return(t)
  <2>1. stage[t] = "done" /\ stage' = [stage EXCEPT ![t] = "idle"]
    BY <1>0, <1>11, StageUpdate DEF Return, stage
  <2> QED
    BY <1>11, <2>1 DEF Return, Atomic!Return
<1> QED
  BY <1>1, <1>2, <1>3, <1>4, <1>5, <1>6, <1>7, <1>8, <1>9, <1>10, <1>11 DEF Step

\* The arrival of a request is that of the atomic endpoint.
LEMMA CallRefines ==
  ASSUME TypeOK, NEW t \in Thread, NEW r \in Request, Call(t, r)
  PROVE  Atomic!Call(t, r)
<1>1. stage[t] = "idle" /\ stage' = [stage EXCEPT ![t] = "called"]
  <2>1. PICK x \in {"lock", "enter"} : pc' = [pc EXCEPT ![t] = x]
    BY DEF Call
  <2> QED
    BY <2>1, StageUpdate DEF Call, stage
<1> QED
  BY <1>1 DEF Call, Atomic!Call

\* The endpoint implements the atomic one as long as no request overlaps
\* a dirCreate or a revert: the operations of any number of threads are linearizable.
THEOREM AtomicityCorrect == ASSUME UnlockedAlone PROVE Spec => AtomicVFS
<1>1. Init => Atomic!Init
  BY AtomicTree DEF Init, Atomic!Init, stage
<1>2. Init => AloneInv
  BY DEF Init, AloneInv, Alone, Undisturbed, FoundCurrent, Current, Busy
<1>3. TypeOK /\ TreeInv /\ LockInv /\ Phases /\ AloneInv /\ [Next]_vars => AloneInv'
  BY AloneInvNext DEF IInv, Base
<1>4. TypeOK /\ TreeInv /\ LockInv /\ Phases /\ AloneInv /\ [Next]_vars
        => [Atomic!Next]_Atomic!vars
  <2> SUFFICES ASSUME AInv, [Next]_vars PROVE [Atomic!Next]_Atomic!vars
    BY DEF AInv, IInv, Base
  <2>1. CASE UNCHANGED vars
    BY <2>1 DEF vars, Atomic!vars, stage
  <2>2. ASSUME NEW t \in Thread, Step(t) PROVE [Atomic!Next]_Atomic!vars
    BY <2>2, StepRefines DEF Atomic!Next
  <2>3. ASSUME NEW t \in Thread, NEW r \in Request, Call(t, r) PROVE Atomic!Next
    BY <2>3, CallRefines DEF Atomic!Next, Request, AInv, IInv, Base
  <2> QED
    BY <2>1, <2>2, <2>3 DEF Next
<1> QED
  BY TypeCorrect, LockCorrect, <1>1, <1>2, <1>3, <1>4, PTL
     DEF Spec, AtomicVFS, Atomic!Spec

=============================================================================
