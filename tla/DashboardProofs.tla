-------------------------- MODULE DashboardProofs --------------------------
(***************************************************************************)
(* Proofs about Dashboard, for any tree, any names and any bounds.         *)
(***************************************************************************)
EXTENDS Dashboard, SequenceTheorems, TLAPS

(***************************************************************************)
(* Requests and slots.                                                     *)
(***************************************************************************)

\* What the page asks for is a request.
LEMMA FetchType ==
  ASSUME NEW op \in Op, NEW id \in Nat, NEW name \in Name, NEW then \in Nat
  PROVE  /\ Fetch(op, id, name, then) \in Request
         /\ Fetch(op, id, name, then).op = op
         /\ Fetch(op, id, name, then).id = id
         /\ Fetch(op, id, name, then).then = then
         /\ Fetch(op, id, name, then).at = "sent"
         /\ Fetch(op, id, name, then).data = {}
BY SMT DEF Fetch, Request

\* So is a lookup, the request for the roots, and the mark of a free slot.
LEMMA LookupType ==
  ASSUME NEW dir \in Nat
  PROVE  /\ Lookup(dir) \in Request /\ Roots \in Request /\ Idle \in Request
         /\ Lookup(dir).op = "lookup" /\ Lookup(dir).id = dir /\ Lookup(dir).at = "sent"
         /\ Lookup(dir).data = {}
         /\ Roots.op = "roots" /\ Roots.at = "sent" /\ Roots.data = {}
         /\ Idle.at = "idle" /\ Idle.data = {}
<1>1. TestFile \in Name
  BY NameAssumption
<1>2. "lookup" \in Op /\ "roots" \in Op /\ NULL \in Nat
  BY DEF Op, NULL
<1> QED
  BY <1>1, <1>2, SMT DEF Lookup, Roots, Idle, Fetch, Request

\* A request leaves in a free slot, and no other slot changes.
LEMMA SendSlot ==
  ASSUME net \in [Slot -> Request], NEW r \in Request, Send(r)
  PROVE  /\ net' \in [Slot -> Request]
         /\ \E s \in Slot : ~Busy(s) /\ net'[s] = r /\ \A q \in Slot \ {s} : net'[q] = net[q]
BY Zenon DEF Send

\* An answer goes on in the slot of its request.
LEMMA RespondSlot ==
  ASSUME net \in [Slot -> Request], NEW s \in Slot, NEW at \in {"ok", "failed", "begun"},
         NEW data \in SUBSET Entry, Respond(s, at, data)
  PROVE  /\ net' \in [Slot -> Request]
         /\ net'[s].op = net[s].op /\ net'[s].id = net[s].id /\ net'[s].then = net[s].then
         /\ net'[s].at = at /\ net'[s].data = data
         /\ \A q \in Slot \ {s} : net'[q] = net[q]
<1> DEFINE r == [[net[s] EXCEPT !.at = at] EXCEPT !.data = data]
<1>1. net' = [net EXCEPT ![s] = r]
  BY Zenon DEF Respond
<1>2. net[s] \in Request
  OBVIOUS
<1>3. r \in Request
  BY <1>2, Zenon DEF Request
<1>4. r.op = net[s].op /\ r.id = net[s].id /\ r.then = net[s].then /\ r.at = at /\ r.data = data
  BY <1>2, SMT DEF Request
<1> HIDE DEF r
<1> QED
  BY <1>1, <1>3, <1>4, Zenon

\* A slot is freed, or its handler goes on to visit a directory.
LEMMA TurnSlot ==
  ASSUME net \in [Slot -> Request], NEW s \in Slot, NEW r \in Request,
         net' = [net EXCEPT ![s] = r]
  PROVE  /\ net' \in [Slot -> Request]
         /\ net'[s] = r
         /\ \A q \in Slot \ {s} : net'[q] = net[q]
BY Zenon

(***************************************************************************)
(* Types.                                                                  *)
(***************************************************************************)

ServerType ==
  /\ entries \subseteq Entry /\ nextUID \in Nat /\ collector \subseteq Entry
  /\ left \subseteq Leftover

StackType == stack \in Seq(Nat) /\ crumb \in Seq(Nat)

PageType ==
  /\ shown \subseteq Entry /\ menu \in BOOLEAN /\ modal \in BOOLEAN
  /\ shownOf \in Nat /\ missed \in BOOLEAN

HistoryType == trouble \in BOOLEAN /\ changed \in BOOLEAN /\ mishaps \in Nat

NetType == net \in [Slot -> Request]

\* The parts are the whole.
LEMMA TypeParts == TypeOK <=> ServerType /\ StackType /\ PageType /\ HistoryType /\ NetType
BY Zenon DEF TypeOK, ServerType, StackType, PageType, HistoryType, NetType

\* The parts of an entry and of a request.
LEMMA Fields ==
  /\ \A e \in Entry : e.id \in Nat /\ e.directory \in BOOLEAN /\ e.parent \in Nat /\ e.name \in Name
  /\ \A r \in Request : /\ r.op \in Op /\ r.id \in Nat /\ r.name \in Name /\ r.then \in Nat
                        /\ r.at \in {"idle", "sent", "begun", "ok", "failed"}
                        /\ r.data \subseteq Entry
BY SMT DEF Entry, Request

\* The top of the stack, and what is left of a stack below a place.
LEMMA StackFacts ==
  ASSUME NEW s \in Seq(Nat)
  PROVE  /\ s # <<>> => s[Len(s)] \in Nat
         /\ \A i \in 1..Len(s) : s[i] \in Nat
         /\ \A i \in 0..Len(s) :
              /\ SubSeq(s, 1, i) \in Seq(Nat)
              /\ Len(SubSeq(s, 1, i)) = i
              /\ \A j \in 1..i : SubSeq(s, 1, i)[j] = s[j]
         /\ \A x \in Nat :
              /\ Append(s, x) \in Seq(Nat)
              /\ Len(Append(s, x)) = Len(s) + 1
              /\ Append(s, x)[Len(s) + 1] = x
              /\ \A j \in 1..Len(s) : Append(s, x)[j] = s[j]
         /\ Len(s) \in Nat
         /\ Len(s) = 0 <=> s = <<>>
<1>1. Len(s) \in Nat /\ (Len(s) = 0 <=> s = <<>>)
  BY EmptySeq
<1>2. \A i \in 1..Len(s) : s[i] \in Nat
  BY ElementOfSeq
<1>3. s # <<>> => s[Len(s)] \in Nat
  BY <1>1, <1>2, SMT
<1>4. ASSUME NEW i \in 0..Len(s)
      PROVE  /\ SubSeq(s, 1, i) \in Seq(Nat)
             /\ Len(SubSeq(s, 1, i)) = i
             /\ \A j \in 1..i : SubSeq(s, 1, i)[j] = s[j]
  BY <1>1, SMT
<1>5. ASSUME NEW x \in Nat
      PROVE  /\ Append(s, x) \in Seq(Nat)
             /\ Len(Append(s, x)) = Len(s) + 1
             /\ Append(s, x)[Len(s) + 1] = x
             /\ \A j \in 1..Len(s) : Append(s, x)[j] = s[j]
  BY AppendProperties
<1> QED
  BY <1>1, <1>2, <1>3, <1>4, <1>5, Zenon

\* The page starts with its types.
LEMMA TypeInit == Init => TypeOK
<1> SUFFICES ASSUME Init
             PROVE  TypeOK
  OBVIOUS
<1>1. ServerType
  <2>1. nextUID \in Nat
    BY BoundsAssumption, SMT DEF Init
  <2> QED
    BY <2>1, TreeAssumption, Zenon DEF Init, ServerType
<1>2. StackType
  BY EmptySeq, Zenon DEF Init, PageInit, StackType
<1>3. PageType /\ HistoryType
  <2>1. shown \subseteq Entry /\ shownOf \in Nat /\ mishaps \in Nat
    BY SMT DEF Init, PageInit, NULL
  <2> QED
    BY <2>1, Zenon DEF Init, PageInit, PageType, HistoryType
<1>4. NetType
  <2>1. Roots \in Request /\ Idle \in Request
    BY LookupType DEF NULL
  <2> QED
    BY <2>1, Zenon DEF Init, NetType
<1> QED
  BY <1>1, <1>2, <1>3, <1>4, TypeParts

\* What is left of requests has its type.
LEMMA RemainsType ==
  ASSUME NetType, NEW s \in Slot
  PROVE  Reverts(s) \subseteq Leftover /\ Remains(s) \subseteq Leftover
<1>1. net[s] \in Request
  BY DEF NetType
<1>2. net[s].id \in Nat /\ net[s].name \in Name /\ net[s].data \subseteq Entry
  BY <1>1, Fields
<1>3. Reverts(s) \subseteq Leftover
  <2>1. ASSUME NEW e \in net[s].data
        PROVE  [op |-> "revert", id |-> e.id, name |-> e.name] \in Leftover
    <3>1. e.id \in Nat /\ e.name \in Name
      BY <1>2, Fields
    <3> QED
      BY <3>1, SMT DEF Leftover
  <2> QED
    BY <2>1, Zenon DEF Reverts
<1>4. net[s].op \in ChangeOp => {[op |-> net[s].op, id |-> net[s].id, name |-> net[s].name]} \subseteq Leftover
  BY <1>2, SMT DEF Leftover
<1>5. \/ Remains(s) = {} \/ Remains(s) = Reverts(s)
      \/ /\ net[s].op \in ChangeOp
         /\ Remains(s) = {[op |-> net[s].op, id |-> net[s].id, name |-> net[s].name]}
  BY Zenon DEF Remains
<1> QED
  BY <1>3, <1>4, <1>5, Zenon

\* What bounds the haste counts on.
LEMMA HasteType ==
  ASSUME HistoryType
  PROVE  /\ Mishap => mishaps' \in Nat
         /\ Haste => mishaps' \in Nat
         /\ Acts => HistoryType' /\ UNCHANGED server
<1>1. Mishap => mishaps' \in Nat
  BY SMT DEF Mishap, HistoryType
<1>2. Haste => mishaps' \in Nat
  BY <1>1, Zenon DEF Haste, HistoryType
<1>3. Acts => trouble' \in BOOLEAN /\ changed' \in BOOLEAN
  BY Zenon DEF Acts, HistoryType
<1> QED
  BY <1>1, <1>2, <1>3, Zenon DEF Acts, HistoryType

\* A step that sends a request and changes the stack alone of what is shown.
LEMMA UserType ==
  ASSUME TypeOK, ServerType', HistoryType', RenderingStays, modal' \in BOOLEAN,
         stack' \in Seq(Nat),
         \/ UNCHANGED net
         \/ \E r \in Request : Send(r)
  PROVE  TypeOK'
<1> USE TypeParts
<1>1. StackType'
  BY Zenon DEF StackType, RenderingStays
<1>2. PageType'
  BY Zenon DEF PageType, RenderingStays
<1>3. NetType'
  <2>1. CASE UNCHANGED net
    BY <2>1, Zenon DEF NetType
  <2>2. ASSUME NEW r \in Request, Send(r)
        PROVE  NetType'
    BY <2>2, SendSlot, Zenon DEF NetType
  <2> QED
    BY <2>1, <2>2
<1> QED
  BY <1>1, <1>2, <1>3, Zenon DEF TypeOK, ServerType, StackType, PageType, HistoryType, NetType

\* What the user does keeps every variable's type.
LEMMA TypeUser == TypeOK /\ User => TypeOK'
<1> SUFFICES ASSUME TypeOK, User
             PROVE  TypeOK'
  OBVIOUS
<1>0. ServerType /\ StackType /\ PageType /\ HistoryType /\ NetType
  BY TypeParts
<1>r. Root \in Nat
  BY RootAssumption
<1>s. ASSUME Acts
      PROVE  ServerType' /\ HistoryType'
  BY <1>0, <1>s, HasteType, Zenon DEF ServerType, server
<1>1. CASE ClickRoot
  <2>1. ServerType'
    BY <1>0, <1>1, Zenon DEF ServerType, ClickRoot, server
  <2>2. HistoryType'
    BY <1>0, <1>1, HasteType, Zenon DEF HistoryType, ClickRoot
  <2>3. stack' \in Seq(Nat)
    BY <1>1, <1>r, SMT DEF ClickRoot
  <2>4. Lookup(Root) \in Request /\ Send(Lookup(Root))
    BY <1>1, <1>r, LookupType, Zenon DEF ClickRoot
  <2>5. modal' \in BOOLEAN /\ RenderingStays
    BY <1>0, <1>1, Zenon DEF ClickRoot, PageType
  <2> QED
    BY <2>1, <2>2, <2>3, <2>4, <2>5, UserType
<1>2. CASE ClickUp
  <2>1. ServerType' /\ HistoryType' /\ modal' \in BOOLEAN /\ RenderingStays
    BY <1>0, <1>2, <1>s, Zenon DEF ClickUp, PageType
  <2>2. Len(stack) \in Nat \ {0}
    BY <1>0, <1>2, StackFacts, SMT DEF ClickUp, StackType
  <2>3. stack' \in Seq(Nat)
    BY <1>0, <1>2, <2>2, StackFacts, SMT DEF ClickUp, StackType
  <2>4. CASE Len(stack) > 1
    <3>1. stack[Len(stack) - 1] \in Nat
      BY <1>0, <2>2, <2>4, StackFacts, SMT DEF StackType
    <3>2. Lookup(stack[Len(stack) - 1]) \in Request
      BY <3>1, LookupType
    <3> QED
      BY <1>2, <2>1, <2>3, <2>4, <3>2, UserType, Zenon DEF ClickUp
  <2>5. CASE ~(Len(stack) > 1)
    BY <1>2, <2>1, <2>3, <2>5, UserType, Zenon DEF ClickUp
  <2> QED
    BY <2>4, <2>5
<1>3. CASE ToggleModal
  <2>1. ServerType' /\ HistoryType'
    BY <1>0, <1>3, Zenon DEF ToggleModal, ServerType, HistoryType, server, count
  <2>2. modal' \in BOOLEAN /\ RenderingStays /\ stack' \in Seq(Nat) /\ UNCHANGED net
    BY <1>0, <1>3, Zenon DEF ToggleModal, PageType, StackType
  <2> QED
    BY <2>1, <2>2, UserType
<1>4. CASE Reload
  <2>1. ServerType' /\ HistoryType'
    <3>1. UNION {Remains(s) : s \in Slot} \subseteq Leftover
      BY <1>0, RemainsType, Zenon
    <3>2. left' \subseteq Leftover
      BY <1>0, <1>4, <3>1, Zenon DEF Reload, ServerType
    <3> QED
      BY <1>0, <1>4, <3>2, HasteType, Zenon DEF Reload, ServerType, HistoryType
  <2>2. StackType'
    BY <1>4, EmptySeq, Zenon DEF Reload, StackType
  <2>3. PageType'
    <3>1. shown' \subseteq Entry /\ shownOf' \in Nat
      BY <1>4, SMT DEF Reload, NULL
    <3> QED
      BY <1>4, <3>1, Zenon DEF Reload, PageType
  <2>4. NetType'
    BY <1>4, LookupType, Zenon DEF Reload, NetType, NULL
  <2> QED
    BY <2>1, <2>2, <2>3, <2>4, Zenon DEF TypeOK, ServerType, StackType, PageType, HistoryType, NetType
<1>5. ASSUME NEW e \in shown, ClickDir(e)
      PROVE  TypeOK'
  <2>1. ServerType' /\ HistoryType' /\ modal' \in BOOLEAN /\ RenderingStays
    BY <1>0, <1>5, <1>s, Zenon DEF ClickDir, PageType
  <2>2. e.id \in Nat
    BY <1>0, <1>5, Fields, Zenon DEF PageType
  <2>3. stack' \in Seq(Nat) /\ Lookup(e.id) \in Request
    BY <1>0, <1>5, <2>2, StackFacts, LookupType, Zenon DEF ClickDir, StackType
  <2> QED
    BY <1>5, <2>1, <2>3, UserType, Zenon DEF ClickDir
<1>6. ASSUME NEW e \in shown, ClickDelete(e)
      PROVE  TypeOK'
  <2>1. ServerType' /\ HistoryType' /\ modal' \in BOOLEAN /\ RenderingStays /\ stack' \in Seq(Nat)
    BY <1>0, <1>6, <1>s, Zenon DEF ClickDelete, PageType, StackType
  <2>2. e.id \in Nat /\ e.name \in Name /\ Here \in Nat
    BY <1>0, <1>6, Fields, StackFacts, Zenon DEF PageType, StackType, ClickDelete, Here
  <2>3. \E op \in Op : Send(Fetch(op, e.id, e.name, Here))
    <3>1. {"dirDelete", "fileDelete"} \subseteq Op
      BY DEF Op, ChangeOp
    <3> QED
      BY <1>6, <3>1, Zenon DEF ClickDelete
  <2> QED
    BY <2>1, <2>2, <2>3, FetchType, UserType, Zenon
<1>7. ASSUME NEW i \in 1..Len(crumb), ClickCrumb(i)
      PROVE  TypeOK'
  <2>1. ServerType' /\ HistoryType' /\ modal' \in BOOLEAN /\ RenderingStays
    BY <1>0, <1>7, <1>s, Zenon DEF ClickCrumb, PageType
  <2>2. crumb[i] \in Nat /\ Len(stack) \in Nat /\ Len(crumb) \in Nat
    BY <1>0, StackFacts, Zenon DEF StackType
  <2>3. (IF i <= Len(stack) THEN i ELSE Len(stack)) \in 0..Len(stack)
    BY <2>2, SMT
  <2>4. stack' \in Seq(Nat) /\ Lookup(crumb[i]) \in Request
    BY <1>0, <1>7, <2>2, <2>3, StackFacts, LookupType, Zenon DEF ClickCrumb, StackType
  <2> QED
    BY <1>7, <2>1, <2>4, UserType, Zenon DEF ClickCrumb
<1>8. ASSUME NEW name \in Name, Upload(name)
      PROVE  TypeOK'
  <2>1. ServerType' /\ HistoryType' /\ modal' \in BOOLEAN /\ RenderingStays /\ stack' \in Seq(Nat)
    BY <1>0, <1>8, <1>s, Zenon DEF Upload, PageType, StackType
  <2>2. Here \in Nat /\ "upload" \in Op
    BY <1>0, <1>8, StackFacts, Zenon DEF StackType, Upload, Here, Op, ChangeOp
  <2> QED
    BY <1>8, <2>1, <2>2, FetchType, UserType, Zenon DEF Upload
<1>9. ASSUME NEW name \in Name, NEW op \in {"fileCreate", "dirCreate"}, SubmitForm(op, name)
      PROVE  TypeOK'
  <2>1. ServerType' /\ HistoryType' /\ modal' \in BOOLEAN /\ RenderingStays /\ stack' \in Seq(Nat)
    BY <1>0, <1>9, <1>s, Zenon DEF SubmitForm, PageType, StackType
  <2>2. Here \in Nat /\ op \in Op /\ NULL \in Nat
    <3>1. op \in Op /\ NULL \in Nat
      BY DEF Op, ChangeOp, NULL
    <3> QED
      BY <1>0, <1>9, <3>1, StackFacts, Zenon DEF StackType, SubmitForm, Here
  <2> QED
    BY <1>9, <2>1, <2>2, FetchType, UserType, Zenon DEF SubmitForm
<1> QED
  BY <1>1, <1>2, <1>3, <1>4, <1>5, <1>6, <1>7, <1>8, <1>9, Zenon DEF User

\* What a search of the tree finds.
LEMMA TreeTypes ==
  ASSUME NEW fs \in SUBSET Entry, NEW dir \in Nat, NEW uid \in Nat, NEW name \in Name
  PROVE  /\ fileAdd(fs, dir, name, uid) \subseteq Entry
         /\ dirAdd(fs, dir, name, uid) \subseteq Entry
         /\ collectEntries(fs, dir) \subseteq Entry
<1>1. File(uid, dir, name) \in Entry /\ Directory(uid, dir, name) \in Entry
  BY SMT DEF File, Directory, Entry
<1> QED
  BY <1>1, Zenon DEF fileAdd, dirAdd, collectEntries

\* The entry of a new file is an entry.
LEMMA NewFileType ==
  ASSUME ServerType, NEW dir \in Nat, NEW name \in Name
  PROVE  {File(nextUID, dir, name)} \in SUBSET Entry
<1>1. nextUID \in Nat
  BY DEF ServerType
<1>2. File(nextUID, dir, name) \in Entry
  BY <1>1, SMT DEF File, Entry
<1> QED
  BY <1>2

\* A creation adds one entry, with the next uid.
LEMMA CreateStep ==
  ASSUME ServerType, NEW op, NEW dir \in Nat, NEW name \in Name, Create(op, dir, name)
  PROVE  /\ entries' \subseteq Entry /\ nextUID' \in Nat /\ nextUID' = nextUID + 1
         /\ File(nextUID, dir, name) \in Entry /\ File(nextUID, dir, name).id = nextUID
         /\ op # "dirCreate" => entries' = entries \union {File(nextUID, dir, name)}
         /\ \E n \in Entry : n.id = nextUID /\ entries' = entries \union {n}
<1>1. /\ File(nextUID, dir, name) \in Entry
      /\ File(nextUID, dir, name).id = nextUID
      /\ Directory(nextUID, dir, name) \in Entry
      /\ Directory(nextUID, dir, name).id = nextUID
  BY SMT DEF ServerType, File, Directory, Entry
<1>2. nextUID' = nextUID + 1 /\ nextUID' \in Nat
  BY SMT DEF Create, ServerType
<1>3. /\ op = "dirCreate" => entries' = entries \union {Directory(nextUID, dir, name)}
      /\ op # "dirCreate" => entries' = entries \union {File(nextUID, dir, name)}
  BY Zenon DEF Create, fileAdd, dirAdd
<1> QED
  BY <1>1, <1>2, <1>3, Zenon DEF ServerType

\* Serving a request keeps every variable's type.
LEMMA TypeServe == \A s \in Slot : TypeOK /\ Serve(s) => TypeOK'
<1> SUFFICES ASSUME NEW s \in Slot, TypeOK, Serve(s)
             PROVE  TypeOK'
  OBVIOUS
<1>0. ServerType /\ StackType /\ PageType /\ HistoryType /\ NetType
  BY TypeParts
<1>r. net[s].id \in Nat /\ net[s].name \in Name /\ {} \subseteq Entry
  BY <1>0, Fields, Zenon DEF NetType
<1>1. /\ UNCHANGED <<page, trouble>>
      /\ \/ UNCHANGED count
         \/ (changed' = FALSE /\ UNCHANGED mishaps)
         \/ (UNCHANGED changed /\ Mishap)
  BY Zenon DEF Serve, ServeRoots, LookupBegin, LookupData, Creates, UploadBegins,
               UploadEnds, Deletes, count
<1>2. StackType' /\ PageType' /\ HistoryType'
  BY <1>0, <1>1, HasteType, Zenon DEF StackType, PageType, HistoryType, page, count
<1>3. ServerType' /\ \E at \in {"ok", "failed", "begun"}, data \in SUBSET Entry : Respond(s, at, data)
  <2>1. CASE ServeRoots(s)
    BY <1>0, <2>1, <1>r, Zenon DEF ServeRoots, ServerType, server
  <2>2. CASE LookupBegin(s)
    BY <1>0, <2>2, <1>r, Zenon DEF LookupBegin, ServerType
  <2>3. CASE LookupData(s)
    <3>1. collectEntries(entries, net[s].id) \subseteq Entry
      BY <1>0, Zenon DEF ServerType, collectEntries
    <3>2. CASE findDir(entries, net[s].id) # NULL
      <4>1. collector' \subseteq Entry /\ Respond(s, "ok", collector')
        BY <1>0, <2>3, <3>1, <3>2, Zenon DEF LookupData, ServerType
      <4> QED
        BY <1>0, <2>3, <4>1, Zenon DEF LookupData, ServerType
    <3>3. CASE findDir(entries, net[s].id) = NULL
      BY <1>0, <1>r, <2>3, <3>3, Zenon DEF LookupData, ServerType
    <3> QED
      BY <3>2, <3>3
  <2>a. ASSUME UNCHANGED <<collector, left>>, NEW op, Create(op, net[s].id, net[s].name)
        PROVE  ServerType'
    BY <1>0, <1>r, <2>a, CreateStep, Zenon DEF ServerType
  <2>b. ASSUME UNCHANGED <<collector, left, entries, nextUID>>
        PROVE  ServerType'
    BY <1>0, <2>b, Zenon DEF ServerType
  <2>4. CASE Creates(s)
    BY <1>r, <2>4, <2>a, <2>b, Zenon DEF Creates
  <2>6. CASE UploadBegins(s)
    <3>1. CASE Respond(s, "failed", {}) /\ UNCHANGED <<entries, nextUID>>
      BY <1>r, <2>6, <2>b, <3>1, Zenon DEF UploadBegins
    <3>2. CASE /\ Create(net[s].op, net[s].id, net[s].name)
               /\ Respond(s, "begun", {File(nextUID, net[s].id, net[s].name)})
      <4>1. {File(nextUID, net[s].id, net[s].name)} \in SUBSET Entry
        BY <1>0, <1>r, NewFileType
      <4>2. ServerType'
        BY <2>6, <2>a, <3>2, Zenon DEF UploadBegins
      <4>3. "begun" \in {"ok", "failed", "begun"}
        OBVIOUS
      <4> QED
        BY <3>2, <4>1, <4>2, <4>3, Zenon
    <3> QED
      BY <2>6, <3>1, <3>2, Zenon DEF UploadBegins
  <2>7. CASE UploadEnds(s)
    <3>1. left' \subseteq Leftover
      BY <1>0, <2>7, RemainsType, Zenon DEF UploadEnds, ServerType
    <3> QED
      BY <1>0, <1>r, <2>7, <3>1, Zenon DEF UploadEnds, ServerType
  <2>5. CASE Deletes(s)
    BY <1>0, <1>r, <2>5, Zenon DEF Deletes, ServerType
  <2> QED
    BY <2>1, <2>2, <2>3, <2>4, <2>5, <2>6, <2>7, Zenon DEF Serve
<1>4. NetType'
  <2>1. PICK at \in {"ok", "failed", "begun"}, data \in SUBSET Entry : Respond(s, at, data)
    BY <1>3
  <2> QED
    BY <1>0, <2>1, RespondSlot, Zenon DEF NetType
<1> QED
  BY <1>2, <1>3, <1>4, Zenon DEF TypeOK, ServerType, StackType, PageType, HistoryType, NetType

\* So does what befalls the tree and the requests from outside.
LEMMA TypeOutside ==
  TypeOK /\ (OthersChange \/ LeftActs \/ \E s \in Slot : Lose(s)) => TypeOK'
<1> SUFFICES ASSUME TypeOK, OthersChange \/ LeftActs \/ \E s \in Slot : Lose(s)
             PROVE  TypeOK'
  OBVIOUS
<1>0. ServerType /\ StackType /\ PageType /\ HistoryType /\ NetType
  BY TypeParts
<1>1. CASE OthersChange
  <2>1. StackType' /\ PageType' /\ NetType'
    BY <1>0, <1>1, Zenon DEF OthersChange, StackType, PageType, NetType, page
  <2>2. HistoryType'
    BY <1>0, <1>1, HasteType, Zenon DEF OthersChange, HistoryType
  <2>3. ServerType'
    <3>1. \A name \in ValidName : dirAdd(entries, Root, name, nextUID) \subseteq Entry
      BY <1>0, RootAssumption, NameAssumption, TreeTypes, Zenon DEF ServerType
    <3>2. nextUID + 1 \in Nat
      BY <1>0, SMT DEF ServerType
    <3> QED
      BY <1>0, <1>1, <3>1, <3>2, Zenon DEF OthersChange, ServerType
  <2> QED
    BY <2>1, <2>2, <2>3, Zenon DEF TypeOK, ServerType, StackType, PageType, HistoryType, NetType
<1>2. ASSUME NEW s \in Slot, Lose(s)
      PROVE  TypeOK'
  <2>1. ServerType' /\ StackType' /\ PageType'
    <3>1. left' \subseteq Leftover
      BY <1>0, <1>2, RemainsType, Zenon DEF Lose, ServerType
    <3> QED
      BY <1>0, <1>2, <3>1, Zenon DEF Lose, ServerType, StackType, PageType, page
  <2>2. HistoryType'
    BY <1>0, <1>2, HasteType, Zenon DEF Lose, HistoryType
  <2>3. NetType'
    <3>1. Respond(s, "failed", {}) /\ {} \in SUBSET Entry
      BY <1>2, Zenon DEF Lose
    <3> QED
      BY <1>0, <3>1, RespondSlot, Zenon DEF NetType
  <2> QED
    BY <2>1, <2>2, <2>3, Zenon DEF TypeOK, ServerType, StackType, PageType, HistoryType, NetType
<1>3. CASE LeftActs
  <2>1. StackType' /\ PageType' /\ NetType' /\ HistoryType' /\ UNCHANGED collector
    BY <1>0, <1>3, Zenon DEF LeftActs, StackType, PageType, NetType, HistoryType, page
  <2>2. PICK r \in left : LeftCreates(r) \/ LeftDeletes(r)
    BY <1>3, Zenon DEF LeftActs
  <2>3. r.id \in Nat /\ r.name \in Name
    BY <1>0, SMT DEF ServerType, Leftover
  <2>4. CASE LeftCreates(r)
    <3>1. Create(r.op, r.id, r.name)
      BY <2>4, Zenon DEF LeftCreates
    <3>2. entries' \subseteq Entry /\ nextUID' \in Nat
      BY <1>0, <2>3, <3>1, CreateStep, Zenon
    <3>3. [op |-> "revert", id |-> nextUID, name |-> r.name] \in Leftover
      BY <1>0, <2>3, SMT DEF ServerType, Leftover
    <3>4. left' \subseteq Leftover
      BY <1>0, <2>4, <3>3, Zenon DEF LeftCreates, ServerType
    <3> QED
      BY <1>0, <2>1, <3>2, <3>4, Zenon DEF TypeOK, ServerType, StackType, PageType, HistoryType, NetType
  <2>5. CASE LeftDeletes(r)
    <3>1. ServerType'
      BY <1>0, <2>1, <2>5, Zenon DEF LeftDeletes, ServerType
    <3> QED
      BY <2>1, <3>1, Zenon DEF TypeOK, ServerType, StackType, PageType, HistoryType, NetType
  <2> QED
    BY <2>2, <2>4, <2>5
<1> QED
  BY <1>1, <1>2, <1>3

\* What an answer leaves in its slot: nothing, or the visit the handler makes.
LEMMA AnsweredSlot ==
  ASSUME TypeOK, NEW s \in Slot, Answered(s)
  PROVE  /\ \/ net' = [net EXCEPT ![s] = Idle]
            \/ \E dir \in Nat : net' = [net EXCEPT ![s] = Lookup(dir)]
         /\ net' \in [Slot -> Request]
         /\ \A q \in Slot \ {s} : net'[q] = net[q]
<1>0. StackType /\ NetType
  BY TypeParts
<1>1. \/ net' = [net EXCEPT ![s] = Idle]
      \/ \E dir \in Nat : net' = [net EXCEPT ![s] = Lookup(dir)]
  <2>1. net[s].then \in Nat /\ Root \in Nat
    BY <1>0, Fields, RootAssumption, Zenon DEF NetType
  <2>2. stack # <<>> => Here \in Nat
    BY <1>0, StackFacts, Zenon DEF StackType, Here
  <2>3. CASE RootsAnswered(s)
    BY <2>1, <2>3, Zenon DEF RootsAnswered, Visit, Done
  <2>4. CASE LookupAnswered(s)
    BY <2>4, Zenon DEF LookupAnswered, Done
  <2>5. CASE ChangeAnswered(s)
    BY <2>1, <2>5, Zenon DEF ChangeAnswered, Visit, Done
  <2>6. CASE FormAnswered(s)
    BY <2>2, <2>6, Zenon DEF FormAnswered, Visit, Done
  <2> QED
    BY <2>3, <2>4, <2>5, <2>6, Zenon DEF Answered
<1>2. Idle \in Request
  BY LookupType DEF NULL
<1>3. \A dir \in Nat : Lookup(dir) \in Request
  BY LookupType
<1> QED
  BY <1>0, <1>1, <1>2, <1>3, TurnSlot, Zenon DEF NetType

\* An answer keeps every variable's type.
LEMMA TypeAnswered == \A s \in Slot : TypeOK /\ Answered(s) => TypeOK'
<1> SUFFICES ASSUME NEW s \in Slot, TypeOK, Answered(s)
             PROVE  TypeOK'
  OBVIOUS
<1>0. ServerType /\ StackType /\ PageType /\ HistoryType /\ NetType
  BY TypeParts
<1>1. NetType'
  BY AnsweredSlot, Zenon DEF NetType
<1>2. ServerType' /\ HistoryType'
  BY <1>0, Zenon DEF Answered, RootsAnswered, LookupAnswered, ChangeAnswered, FormAnswered,
                     ServerType, HistoryType, server, count
<1>3. <<Root>> \in Seq(Nat)
  BY RootAssumption, SMT
<1>4. StackType'
  BY <1>0, <1>3, Zenon DEF Answered, RootsAnswered, LookupAnswered, ChangeAnswered, FormAnswered,
                           StackType, page, RenderingStays
<1>5. net[s].data \subseteq Entry /\ net[s].id \in Nat
  BY <1>0, Fields, Zenon DEF NetType
<1>6. PageType'
  BY <1>0, <1>5, Zenon DEF Answered, RootsAnswered, LookupAnswered, ChangeAnswered, FormAnswered,
                           PageType, page, RenderingStays
<1> QED
  BY <1>1, <1>2, <1>4, <1>6, Zenon DEF TypeOK, ServerType, StackType, PageType, HistoryType, NetType

\* Every step keeps every variable's type.
LEMMA TypeStep == TypeOK /\ [Next]_vars => TypeOK'
<1>1. TypeOK /\ UNCHANGED vars => TypeOK'
  BY Zenon DEF TypeOK, vars, server, page, count
<1> QED
  BY <1>1, TypeUser, TypeServe, TypeOutside, TypeAnswered, Zenon DEF Next

\* The tree, what is rendered and every request keep their types (dashboard.js).
THEOREM TypeCorrect == Spec => []TypeOK
BY TypeInit, TypeStep, PTL DEF Spec

(***************************************************************************)
(* The breadcrumb.                                                         *)
(***************************************************************************)

\* A visit is under way.
Visiting == \E s \in Slot : Busy(s) /\ net[s].op = "lookup"

\* An answer from the server leaves a visit under way.
LEMMA VisitingResponded ==
  ASSUME NetType, NEW s \in Slot, NEW at \in {"ok", "failed", "begun"},
         NEW data \in SUBSET Entry, Respond(s, at, data), Visiting
  PROVE  Visiting'
<1>1. PICK q \in Slot : Busy(q) /\ net[q].op = "lookup"
  BY DEF Visiting
<1>2. net'[s].op = net[s].op /\ net'[s].at = at /\ \A p \in Slot \ {s} : net'[p] = net[p]
  BY RespondSlot, Zenon DEF NetType
<1>3. net'[q].op = "lookup" /\ net'[q].at # "idle"
  <2>1. CASE q = s
    BY <1>1, <1>2, <2>1
  <2>2. CASE q # s
    BY <1>1, <1>2, <2>2, Zenon DEF Busy
  <2> QED
    BY <2>1, <2>2
<1> QED
  BY <1>3, Zenon DEF Visiting, Busy

\* Whoever sends a lookup is visiting, and whoever sends another request goes on.
LEMMA VisitingSent ==
  ASSUME NetType, NEW r \in Request, r.at = "sent", Send(r), r.op = "lookup" \/ Visiting
  PROVE  Visiting'
<1>1. PICK s \in Slot : ~Busy(s) /\ net'[s] = r /\ \A q \in Slot \ {s} : net'[q] = net[q]
  BY SendSlot, Zenon DEF NetType
<1>2. CASE r.op = "lookup"
  BY <1>1, <1>2 DEF Visiting, Busy
<1>3. CASE Visiting
  <2>1. PICK q \in Slot : Busy(q) /\ net[q].op = "lookup"
    BY <1>3 DEF Visiting
  <2>2. q # s
    BY <1>1, <2>1
  <2> QED
    BY <1>1, <2>1, <2>2, Zenon DEF Visiting, Busy
<1> QED
  BY <1>2, <1>3

\* The breadcrumb settles from the start: the stack is empty.
LEMMA CrumbInit == Init => CrumbSettles
BY Zenon DEF Init, PageInit, CrumbSettles

\* What is shown and the stack stay, and so do the visits.
LEMMA CrumbKept ==
  ASSUME CrumbSettles, UNCHANGED <<stack, crumb, missed>>, Visiting => Visiting'
  PROVE  CrumbSettles'
BY Zenon DEF CrumbSettles, Visiting

\* A visit is under way, so the breadcrumb is about to be rendered.
LEMMA CrumbVisited == Visiting' => CrumbSettles'
BY Zenon DEF CrumbSettles, Visiting

\* The user leaves the breadcrumb as it should be: every click that changes the
\* stack sends a lookup, but the one that empties it.
LEMMA CrumbUser == TypeOK /\ CrumbSettles /\ User => CrumbSettles'
<1> SUFFICES ASSUME TypeOK, CrumbSettles, User
             PROVE  CrumbSettles'
  OBVIOUS
<1>0. StackType /\ PageType /\ NetType
  BY TypeParts
<1>a. ASSUME NEW dir \in Nat, Send(Lookup(dir))
      PROVE  CrumbSettles'
  BY <1>0, <1>a, LookupType, VisitingSent, CrumbVisited, Zenon
<1>b. ASSUME NEW op \in Op, NEW id \in Nat, NEW name \in Name, NEW then \in Nat,
             Send(Fetch(op, id, name, then)), UNCHANGED <<stack, crumb, missed>>
      PROVE  CrumbSettles'
  <2>1. Fetch(op, id, name, then) \in Request /\ Fetch(op, id, name, then).at = "sent"
    BY FetchType
  <2>2. Visiting => Visiting'
    BY <1>0, <1>b, <2>1, VisitingSent, Zenon
  <2> QED
    BY <1>b, <2>2, CrumbKept
<1>1. CASE ClickRoot
  BY <1>1, <1>a, RootAssumption, Zenon DEF ClickRoot
<1>2. CASE ClickUp
  <2>1. Len(stack) \in Nat \ {0}
    BY <1>0, <1>2, StackFacts, SMT DEF ClickUp, StackType
  <2>2. CASE Len(stack) > 1
    <3>1. stack[Len(stack) - 1] \in Nat
      BY <1>0, <2>1, <2>2, StackFacts, SMT DEF StackType
    <3> QED
      BY <1>2, <1>a, <2>2, <3>1, Zenon DEF ClickUp
  <2>3. CASE ~(Len(stack) > 1)
    <3>0. \A n \in Nat \ {0} : ~(n > 1) => n = 1
      BY SMT
    <3>1. Len(stack) = 1
      BY <2>1, <2>3, <3>0, Zenon
    <3>2. stack' = SubSeq(stack, 1, 0)
      <4>1. stack' = SubSeq(stack, 1, Len(stack) - 1)
        BY <1>2, Zenon DEF ClickUp
      <4>2. Len(stack) - 1 = 0
        BY <3>1, SMT
      <4> QED
        BY <4>1, <4>2, Zenon
    <3>3. stack' \in Seq(Nat) /\ Len(stack') = 0
      BY <1>0, <3>1, <3>2, StackFacts, SMT DEF StackType
    <3>4. stack' = <<>>
      BY <3>3, StackFacts
    <3> QED
      BY <3>4, Zenon DEF CrumbSettles
  <2> QED
    BY <2>2, <2>3
<1>3. CASE ToggleModal
  <2>1. UNCHANGED net
    BY <1>3, Zenon DEF ToggleModal
  <2>2. Visiting => Visiting'
    BY <2>1, Zenon DEF Visiting, Busy
  <2> QED
    BY <1>3, <2>2, CrumbKept, Zenon DEF ToggleModal, RenderingStays
<1>4. CASE Reload
  BY <1>4, Zenon DEF Reload, CrumbSettles
<1>5. ASSUME NEW e \in shown, ClickDir(e)
      PROVE  CrumbSettles'
  <2>1. e.id \in Nat
    BY <1>0, <1>5, Fields, Zenon DEF PageType
  <2> QED
    BY <1>5, <1>a, <2>1, Zenon DEF ClickDir
<1>6. ASSUME NEW e \in shown, ClickDelete(e)
      PROVE  CrumbSettles'
  <2>1. e.id \in Nat /\ e.name \in Name /\ Here \in Nat
    BY <1>0, <1>6, Fields, StackFacts, Zenon DEF PageType, StackType, ClickDelete, Here
  <2>2. \E op \in Op : Send(Fetch(op, e.id, e.name, Here))
    <3>1. {"dirDelete", "fileDelete"} \subseteq Op
      BY DEF Op, ChangeOp
    <3> QED
      BY <1>6, <3>1, Zenon DEF ClickDelete
  <2>3. UNCHANGED <<stack, crumb, missed>>
    BY <1>6, Zenon DEF ClickDelete, RenderingStays
  <2> QED
    BY <1>b, <2>1, <2>2, <2>3, Zenon
<1>7. ASSUME NEW i \in 1..Len(crumb), ClickCrumb(i)
      PROVE  CrumbSettles'
  <2>1. crumb[i] \in Nat
    BY <1>0, StackFacts, Zenon DEF StackType
  <2> QED
    BY <1>7, <1>a, <2>1, Zenon DEF ClickCrumb
<1>8. ASSUME NEW name \in Name, Upload(name)
      PROVE  CrumbSettles'
  <2>1. Here \in Nat /\ "upload" \in Op
    BY <1>0, <1>8, StackFacts, Zenon DEF StackType, Upload, Here, Op, ChangeOp
  <2> QED
    BY <1>8, <1>b, <2>1, Zenon DEF Upload, RenderingStays
<1>9. ASSUME NEW name \in Name, NEW op \in {"fileCreate", "dirCreate"}, SubmitForm(op, name)
      PROVE  CrumbSettles'
  <2>1. op \in Op /\ NULL \in Nat
    BY DEF Op, ChangeOp, NULL
  <2>2. Here \in Nat
    BY <1>0, <1>9, StackFacts, Zenon DEF StackType, SubmitForm, Here
  <2> QED
    BY <1>9, <1>b, <2>1, <2>2, Zenon DEF SubmitForm, RenderingStays
<1> QED
  BY <1>1, <1>2, <1>3, <1>4, <1>5, <1>6, <1>7, <1>8, <1>9, Zenon DEF User

\* What the server answers.
LEMMA ServeResponds ==
  ASSUME TypeOK, NEW s \in Slot, Serve(s)
  PROVE  \E at \in {"ok", "failed", "begun"}, data \in SUBSET Entry : Respond(s, at, data)
<1>0. ServerType /\ {} \in SUBSET Entry
  BY TypeParts, Zenon
<1>1. CASE ServeRoots(s)
  BY <1>0, <1>1, Zenon DEF ServeRoots
<1>2. CASE LookupBegin(s)
  BY <1>0, <1>2, Zenon DEF LookupBegin
<1>3. CASE LookupData(s)
  <2>1. collectEntries(entries, net[s].id) \subseteq Entry
    BY <1>0, Zenon DEF ServerType, collectEntries
  <2>2. CASE findDir(entries, net[s].id) # NULL
    <3>1. collector' \in SUBSET Entry /\ Respond(s, "ok", collector')
      BY <1>0, <1>3, <2>1, <2>2, Zenon DEF LookupData, ServerType
    <3> QED
      BY <3>1, Zenon
  <2>3. CASE findDir(entries, net[s].id) = NULL
    BY <1>0, <1>3, <2>3, Zenon DEF LookupData
  <2> QED
    BY <2>2, <2>3
<1>4. CASE Creates(s)
  BY <1>0, <1>4, Zenon DEF Creates
<1>5. CASE Deletes(s)
  BY <1>0, <1>5, Zenon DEF Deletes
<1>6. CASE UploadBegins(s)
  <2>1. net[s].id \in Nat /\ net[s].name \in Name
    BY Fields, Zenon DEF TypeOK
  <2>2. {File(nextUID, net[s].id, net[s].name)} \in SUBSET Entry
    BY <2>1, TypeParts, NewFileType
  <2>3. "begun" \in {"ok", "failed", "begun"} /\ "failed" \in {"ok", "failed", "begun"}
    OBVIOUS
  <2> QED
    BY <1>0, <1>6, <2>2, <2>3, Zenon DEF UploadBegins
<1>7. CASE UploadEnds(s)
  BY <1>0, <1>7, Zenon DEF UploadEnds
<1> QED
  BY <1>1, <1>2, <1>3, <1>4, <1>5, <1>6, <1>7, Zenon DEF Serve

\* What is not an answer to the page leaves the breadcrumb alone.
LEMMA CrumbServed ==
  /\ TypeOK /\ CrumbSettles
  /\ OthersChange \/ LeftActs \/ \E s \in Slot : Serve(s) \/ Lose(s)
  => CrumbSettles'
<1> SUFFICES ASSUME TypeOK, CrumbSettles,
                    OthersChange \/ LeftActs \/ \E s \in Slot : Serve(s) \/ Lose(s)
             PROVE  CrumbSettles'
  OBVIOUS
<1>0. NetType
  BY TypeParts
<1>1. UNCHANGED <<stack, crumb, missed>>
  BY Zenon DEF OthersChange, LeftActs, Serve, ServeRoots, LookupBegin, LookupData, Creates, UploadBegins,
               UploadEnds, Deletes, Lose, page
<1>2. CASE OthersChange \/ LeftActs
  BY <1>1, <1>2, CrumbKept, Zenon DEF OthersChange, LeftActs, Visiting, Busy
<1>3. ASSUME NEW s \in Slot, Serve(s)
      PROVE  CrumbSettles'
  BY <1>0, <1>1, <1>3, ServeResponds, VisitingResponded, CrumbKept, Zenon
<1>4. ASSUME NEW s \in Slot, Lose(s)
      PROVE  CrumbSettles'
  <2>1. Respond(s, "failed", {}) /\ {} \in SUBSET Entry
    BY <1>4, Zenon DEF Lose
  <2> QED
    BY <1>0, <1>1, <2>1, VisitingResponded, CrumbKept, Zenon
<1> QED
  BY <1>2, <1>3, <1>4

\* The answer to a visit renders the stack, and every other one that ends does
\* not touch it.
LEMMA CrumbAnswered == \A s \in Slot : TypeOK /\ CrumbSettles /\ Answered(s) => CrumbSettles'
<1> SUFFICES ASSUME NEW s \in Slot, TypeOK, CrumbSettles, Answered(s)
             PROVE  CrumbSettles'
  OBVIOUS
<1>0. StackType /\ NetType /\ \A q \in Slot \ {s} : net'[q] = net[q]
  BY TypeParts, AnsweredSlot
<1>1. CASE net[s].op = "lookup"
  <2>1. LookupAnswered(s)
    BY <1>1, Zenon DEF Answered, RootsAnswered, ChangeAnswered, FormAnswered
  <2>2. missed' \/ crumb' = stack'
    BY <2>1, Zenon DEF LookupAnswered
  <2> QED
    BY <2>2, Zenon DEF CrumbSettles
<1>2. CASE net[s].op # "lookup"
  <2>1. Visiting => Visiting'
    <3> SUFFICES ASSUME Visiting
                 PROVE  Visiting'
      OBVIOUS
    <3>1. PICK q \in Slot : Busy(q) /\ net[q].op = "lookup"
      BY DEF Visiting
    <3> QED
      BY <1>0, <1>2, <3>1, Zenon DEF Visiting, Busy
  <2>2. ASSUME NEW dir \in Nat, Visit(s, dir)
        PROVE  CrumbSettles'
    <3>1. net'[s] = Lookup(dir)
      BY <1>0, <2>2, Zenon DEF Visit, NetType
    <3>2. Busy(s)' /\ net'[s].op = "lookup"
      BY <3>1, LookupType DEF Busy
    <3> QED
      BY <3>2, CrumbVisited, Zenon DEF Visiting
  <2>3. CASE UNCHANGED <<stack, crumb, missed>>
    BY <2>1, <2>3, CrumbKept
  <2>4. UNCHANGED <<stack, crumb, missed>> \/ Visit(s, Root)
    BY <1>2, Zenon DEF Answered, RootsAnswered, LookupAnswered, ChangeAnswered, FormAnswered,
                       RenderingStays, page
  <2> QED
    BY <2>2, <2>3, <2>4, RootAssumption, Zenon
<1> QED
  BY <1>1, <1>2

\* Whatever the user clicks and in whatever order the answers come, a breadcrumb
\* that is not the navigation stack is about to be rendered anew
\* (visitDirectory in dashboard.js).
THEOREM CrumbCorrect == Spec => []CrumbSettles
<1>1. TypeOK /\ CrumbSettles /\ [Next]_vars => CrumbSettles'
  <2>1. CrumbSettles /\ UNCHANGED vars => CrumbSettles'
    <3> SUFFICES ASSUME CrumbSettles, UNCHANGED vars
                 PROVE  CrumbSettles'
      OBVIOUS
    <3>1. UNCHANGED net /\ UNCHANGED <<stack, crumb, missed>>
      BY Zenon DEF vars, page
    <3>2. Visiting => Visiting'
      BY <3>1, Zenon DEF Visiting, Busy
    <3> QED
      BY <3>1, <3>2, CrumbKept
  <2> QED
    BY <2>1, CrumbUser, CrumbServed, CrumbAnswered, Zenon DEF Next
<1> QED
  BY <1>1, CrumbInit, TypeCorrect, PTL DEF Spec

(***************************************************************************)
(* Every uid that is seen anywhere names one entry, and is an old one.     *)
(***************************************************************************)

\* The entries of the tree, those on their way to the page, and those it shows.
Known == entries \union collector \union shown \union UNION {net[s].data : s \in Slot}

UniqueIds == \A e, f \in Known : e.id = f.id => e = f

OldIds == \A e \in Known : e.id < nextUID

OldStack == Root < nextUID /\ \A i \in 1..Len(stack) : stack[i] < nextUID

IdInv == UniqueIds /\ OldIds /\ OldStack

\* At most one new entry becomes known, which takes the next uid.
Grows ==
  \/ Known' \subseteq Known /\ nextUID' = nextUID
  \/ \E n \in Entry : n.id = nextUID /\ Known' \subseteq Known \union {n} /\ nextUID' = nextUID + 1

\* What is known has the type of an entry.
LEMMA KnownType == TypeOK => Known \subseteq Entry
<1> SUFFICES ASSUME TypeOK
             PROVE  Known \subseteq Entry
  OBVIOUS
<1>1. ServerType /\ PageType /\ NetType
  BY TypeParts
<1>2. \A s \in Slot : net[s].data \subseteq Entry
  BY <1>1, Fields, Zenon DEF NetType
<1> QED
  BY <1>1, <1>2, Zenon DEF Known, ServerType, PageType

\* A step that answers with nothing new, and shows what it had on its way.
LEMMA KnownKept ==
  ASSUME NEW new, entries' \subseteq entries \union new, collector' \subseteq collector,
         shown' \subseteq shown \union UNION {net[s].data : s \in Slot},
         \A s \in Slot : net'[s].data \subseteq net[s].data
  PROVE  Known' \subseteq Known \union new
BY Zenon DEF Known

\* One new entry at most, with the next uid, leaves the uids unique and old.
LEMMA GrowthIds ==
  ASSUME TypeOK, UniqueIds, OldIds, Grows
  PROVE  UniqueIds' /\ OldIds' /\ nextUID' \in Nat /\ nextUID <= nextUID'
<1>0. nextUID \in Nat /\ \A e \in Known : e.id \in Nat
  BY KnownType, Fields, Zenon DEF TypeOK
<1>1. CASE Known' \subseteq Known /\ nextUID' = nextUID
  <2>1. UniqueIds' /\ OldIds'
    BY <1>1, Zenon DEF UniqueIds, OldIds
  <2> QED
    BY <1>0, <1>1, <2>1, SMT
<1>2. ASSUME NEW n \in Entry, n.id = nextUID, Known' \subseteq Known \union {n},
             nextUID' = nextUID + 1
      PROVE  UniqueIds' /\ OldIds' /\ nextUID' \in Nat /\ nextUID <= nextUID'
  <2>1. \A e \in Known : e.id # n.id /\ e.id < nextUID + 1
    BY <1>0, <1>2, SMT DEF OldIds
  <2>2. n.id < nextUID + 1 /\ nextUID' \in Nat /\ nextUID <= nextUID'
    BY <1>0, <1>2, SMT
  <2>3. UniqueIds'
    BY <1>2, <2>1, Zenon DEF UniqueIds
  <2>4. OldIds'
    BY <1>2, <2>1, <2>2, Zenon DEF OldIds
  <2> QED
    BY <2>2, <2>3, <2>4
<1> QED
  BY <1>1, <1>2 DEF Grows

\* The uids are unique and old at the start.
LEMMA IdInit == Init => IdInv
<1> SUFFICES ASSUME Init
             PROVE  IdInv
  OBVIOUS
<1>1. \A s \in Slot : net[s].data = {}
  BY LookupType, Zenon DEF Init, NULL
<1>2. Known = StartTree
  <2>1. entries = StartTree /\ collector = {} /\ shown = {}
    BY Zenon DEF Init, PageInit
  <2>2. UNION {net[s].data : s \in Slot} = {}
    BY <1>1, Zenon
  <2> QED
    BY <2>1, <2>2, Zenon DEF Known
<1>3. UniqueIds /\ OldIds
  BY <1>2, TreeAssumption, Zenon DEF Init, UniqueIds, OldIds
<1>4. OldStack
  BY BoundsAssumption, SMT DEF Init, PageInit, OldStack
<1> QED
  BY <1>3, <1>4 DEF IdInv

\* What the user does, but to load the page again: a request leaves, or none.
UserSends ==
  /\ UNCHANGED server
  /\ RenderingStays
  /\ \/ UNCHANGED net
     \/ \E r \in Request : r.at = "sent" /\ r.data = {} /\ r.op # "roots" /\ Send(r)

\* Every act of the user but a reload is of that form.
LEMMA UserSendsOrReloads == TypeOK /\ User => UserSends \/ Reload
<1> SUFFICES ASSUME TypeOK, User
             PROVE  UserSends \/ Reload
  OBVIOUS
<1>0. StackType /\ PageType /\ NetType
  BY TypeParts
<1>a. ASSUME NEW dir \in Nat, Send(Lookup(dir)), UNCHANGED server, RenderingStays
      PROVE  UserSends
  <2>1. Lookup(dir).op # "roots"
    BY LookupType
  <2> QED
    BY <1>a, <2>1, LookupType, Zenon DEF UserSends
<1>b. ASSUME NEW op \in ChangeOp, NEW id \in Nat, NEW name \in Name, NEW then \in Nat,
             Send(Fetch(op, id, name, then)), UNCHANGED server, RenderingStays
      PROVE  UserSends
  <2>1. op \in Op /\ op # "roots"
    BY DEF Op, ChangeOp
  <2> DEFINE r == Fetch(op, id, name, then)
  <2>2. r \in Request /\ r.op = op /\ r.at = "sent" /\ r.data = {}
    BY <2>1, FetchType
  <2> HIDE DEF r
  <2> QED
    BY <1>b, <2>1, <2>2, Zenon DEF UserSends, r
<1>1. CASE ClickRoot
  BY <1>1, <1>a, RootAssumption, Zenon DEF ClickRoot
<1>2. CASE ClickUp
  <2>1. UNCHANGED server /\ RenderingStays
    BY <1>2, Zenon DEF ClickUp, Acts
  <2>2. Len(stack) \in Nat \ {0}
    BY <1>0, <1>2, StackFacts, SMT DEF ClickUp, StackType
  <2>3. CASE Len(stack) > 1
    <3>1. stack[Len(stack) - 1] \in Nat
      BY <1>0, <2>2, <2>3, StackFacts, SMT DEF StackType
    <3> QED
      BY <1>2, <1>a, <2>1, <2>3, <3>1, Zenon DEF ClickUp
  <2>4. CASE ~(Len(stack) > 1)
    BY <1>2, <2>1, <2>4, Zenon DEF ClickUp, UserSends
  <2> QED
    BY <2>3, <2>4
<1>3. CASE ToggleModal
  BY <1>3, Zenon DEF ToggleModal, UserSends
<1>4. CASE Reload
  BY <1>4
<1>5. ASSUME NEW e \in shown, ClickDir(e)
      PROVE  UserSends
  <2>1. e.id \in Nat
    BY <1>0, <1>5, Fields, Zenon DEF PageType
  <2> QED
    BY <1>5, <1>a, <2>1, Zenon DEF ClickDir, Acts
<1>6. ASSUME NEW e \in shown, ClickDelete(e)
      PROVE  UserSends
  <2>1. e.id \in Nat /\ e.name \in Name /\ Here \in Nat
    BY <1>0, <1>6, Fields, StackFacts, Zenon DEF PageType, StackType, ClickDelete, Here
  <2>2. \E op \in ChangeOp : Send(Fetch(op, e.id, e.name, Here))
    <3>1. {"dirDelete", "fileDelete"} \subseteq ChangeOp
      BY DEF ChangeOp
    <3> QED
      BY <1>6, <3>1, Zenon DEF ClickDelete
  <2> QED
    BY <1>6, <1>b, <2>1, <2>2, Zenon DEF ClickDelete, Acts
<1>7. ASSUME NEW i \in 1..Len(crumb), ClickCrumb(i)
      PROVE  UserSends
  <2>1. crumb[i] \in Nat
    BY <1>0, StackFacts, Zenon DEF StackType
  <2> QED
    BY <1>7, <1>a, <2>1, Zenon DEF ClickCrumb, Acts
<1>8. ASSUME NEW name \in Name, Upload(name)
      PROVE  UserSends
  <2>1. Here \in Nat /\ "upload" \in ChangeOp
    BY <1>0, <1>8, StackFacts, Zenon DEF StackType, Upload, Here, ChangeOp
  <2> QED
    BY <1>8, <1>b, <2>1, Zenon DEF Upload, Acts
<1>9. ASSUME NEW name \in Name, NEW op \in {"fileCreate", "dirCreate"}, SubmitForm(op, name)
      PROVE  UserSends
  <2>1. op \in ChangeOp /\ NULL \in Nat
    BY DEF ChangeOp, NULL
  <2>2. Here \in Nat
    BY <1>0, <1>9, StackFacts, Zenon DEF StackType, SubmitForm, Here
  <2> QED
    BY <1>9, <1>b, <2>1, <2>2, Zenon DEF SubmitForm, Acts
<1> QED
  BY <1>1, <1>2, <1>3, <1>4, <1>5, <1>6, <1>7, <1>8, <1>9, Zenon DEF User

\* A step of the user's sends at most one request, which brings no entries.
LEMMA SendsData ==
  ASSUME NetType, UserSends
  PROVE  \A s \in Slot : net'[s].data \subseteq net[s].data
<1>1. CASE UNCHANGED net
  BY <1>1, Zenon
<1>2. ASSUME NEW r \in Request, r.data = {}, Send(r)
      PROVE  \A s \in Slot : net'[s].data \subseteq net[s].data
  BY <1>2, SendSlot, Zenon DEF NetType
<1> QED
  BY <1>1, <1>2, Zenon DEF UserSends

\* An answer that brings nothing new.
LEMMA RespondData ==
  ASSUME NetType, NEW s \in Slot, NEW at \in {"ok", "failed", "begun"}, Respond(s, at, {})
  PROVE  \A q \in Slot : net'[q].data \subseteq net[q].data
<1>1. {} \in SUBSET Entry
  OBVIOUS
<1>2. net'[s].data = {} /\ \A q \in Slot \ {s} : net'[q] = net[q]
  BY <1>1, RespondSlot, SMT DEF NetType
<1> QED
  BY <1>2, Zenon

\* The user brings nothing new.
LEMMA UserGrows == TypeOK /\ User => Grows
<1> SUFFICES ASSUME TypeOK, User
             PROVE  Grows
  OBVIOUS
<1>0. NetType
  BY TypeParts
<1>1. CASE UserSends
  <2>1. \A s \in Slot : net'[s].data \subseteq net[s].data
    BY <1>0, <1>1, SendsData
  <2>2. entries' \subseteq entries \union {} /\ collector' \subseteq collector /\ nextUID' = nextUID
        /\ shown' \subseteq shown \union UNION {net[s].data : s \in Slot}
    BY <1>1, Zenon DEF UserSends, server, RenderingStays
  <2>3. Known' \subseteq Known \union {}
    BY <2>1, <2>2, KnownKept
  <2> QED
    BY <2>2, <2>3, Zenon DEF Grows
<1>2. CASE Reload
  <2>1. \A s \in Slot : net'[s].data \subseteq net[s].data
    BY <1>2, LookupType, Zenon DEF Reload, NULL
  <2>2. entries' \subseteq entries \union {} /\ collector' \subseteq collector /\ nextUID' = nextUID
        /\ shown' \subseteq shown \union UNION {net[s].data : s \in Slot}
    BY <1>2, Zenon DEF Reload
  <2>3. Known' \subseteq Known \union {}
    BY <2>1, <2>2, KnownKept
  <2> QED
    BY <2>2, <2>3, Zenon DEF Grows
<1> QED
  BY <1>1, <1>2, UserSendsOrReloads

\* The server adds one new entry at most.
LEMMA ServeGrows == \A s \in Slot : TypeOK /\ Serve(s) => Grows
<1> SUFFICES ASSUME NEW s \in Slot, TypeOK, Serve(s)
             PROVE  Grows
  OBVIOUS
<1>0. ServerType /\ NetType
  BY TypeParts
<1>s. shown' \subseteq shown \union UNION {net[q].data : q \in Slot}
  BY Zenon DEF Serve, ServeRoots, LookupBegin, LookupData, Creates, UploadBegins,
               UploadEnds, Deletes, page
<1>a. ASSUME NEW at \in {"ok", "failed", "begun"}, Respond(s, at, {}),
             entries' \subseteq entries, collector' \subseteq collector, nextUID' = nextUID
      PROVE  Grows
  <2>1. \A q \in Slot : net'[q].data \subseteq net[q].data
    BY <1>0, <1>a, RespondData, Zenon
  <2>2. Known' \subseteq Known \union {}
    BY <1>a, <1>s, <2>1, KnownKept, Zenon
  <2> QED
    BY <1>a, <2>2, Zenon DEF Grows
<1>1. CASE ServeRoots(s)
  BY <1>1, <1>a, Zenon DEF ServeRoots, server
<1>2. CASE LookupBegin(s)
  BY <1>2, <1>a, Zenon DEF LookupBegin
<1>3. CASE LookupData(s)
  <2>1. CASE findDir(entries, net[s].id) # NULL
    <3>1. collector' = collector \union collectEntries(entries, net[s].id)
          /\ Respond(s, "ok", collector')
      BY <1>3, <2>1, Zenon DEF LookupData
    <3>2. collectEntries(entries, net[s].id) \subseteq entries
      BY Zenon DEF collectEntries
    <3>3. collector' \in SUBSET Entry
      BY <1>0, <3>1, <3>2, Zenon DEF ServerType
    <3>4. net'[s].data = collector' /\ \A q \in Slot \ {s} : net'[q] = net[q]
      BY <1>0, <3>1, <3>3, RespondSlot, Zenon DEF NetType
    <3>5. UNCHANGED <<entries, nextUID>> /\ shown' = shown
      BY <1>3, Zenon DEF LookupData, page
    <3>6. Known' \subseteq Known
      <4>1. collector' \subseteq Known
        BY <3>1, <3>2, Zenon DEF Known
      <4>2. \A q \in Slot : net'[q].data \subseteq Known
        BY <3>4, <4>1, Zenon DEF Known
      <4>3. entries' = entries /\ shown' = shown
        BY <3>5
      <4> QED
        BY <4>1, <4>2, <4>3, Zenon DEF Known
    <3> QED
      BY <3>5, <3>6, Zenon DEF Grows
  <2>2. CASE findDir(entries, net[s].id) = NULL
    BY <1>3, <1>a, <2>2, Zenon DEF LookupData
  <2> QED
    BY <2>1, <2>2
<1>r. net[s].id \in Nat /\ net[s].name \in Name
  BY <1>0, Fields, Zenon DEF NetType
<1>4. CASE Creates(s)
  <2>0. UNCHANGED collector
    BY <1>4, Zenon DEF Creates
  <2>1. CASE Respond(s, "failed", {}) /\ UNCHANGED <<entries, nextUID>>
    BY <1>a, <2>0, <2>1, Zenon
  <2>2. CASE Create(net[s].op, net[s].id, net[s].name) /\ Respond(s, "ok", {})
    <3>1. PICK n \in Entry : n.id = nextUID /\ entries' = entries \union {n}
      BY <1>0, <1>r, <2>2, CreateStep, Zenon
    <3>2. nextUID' = nextUID + 1
      BY <2>2, Zenon DEF Create
    <3>3. \A q \in Slot : net'[q].data \subseteq net[q].data
      BY <1>0, <2>2, RespondData, Zenon
    <3>4. Known' \subseteq Known \union {n}
      BY <1>s, <2>0, <3>1, <3>3, KnownKept, Zenon
    <3> QED
      BY <3>1, <3>2, <3>4, Zenon DEF Grows
  <2> QED
    BY <1>4, <2>1, <2>2, Zenon DEF Creates
<1>6. CASE UploadBegins(s)
  <2>0. collector' = collector /\ shown' = shown
    BY <1>6, Zenon DEF UploadBegins, page
  <2>1. CASE Respond(s, "failed", {}) /\ UNCHANGED <<entries, nextUID>>
    BY <1>a, <2>0, <2>1, Zenon
  <2> DEFINE n == File(nextUID, net[s].id, net[s].name)
  <2>2. CASE Create(net[s].op, net[s].id, net[s].name) /\ Respond(s, "begun", {n})
    <3>1. n \in Entry /\ n.id = nextUID /\ nextUID' = nextUID + 1 /\ entries' = entries \union {n}
      <4>1. net[s].op # "dirCreate"
        BY <1>6, Zenon DEF UploadBegins
      <4> QED
        BY <1>0, <1>r, <2>2, <4>1, CreateStep, Zenon
    <3>2. net'[s].data = {n} /\ \A q \in Slot \ {s} : net'[q] = net[q]
      <4>1. {n} \in SUBSET Entry /\ "begun" \in {"ok", "failed", "begun"}
        BY <3>1
      <4> HIDE DEF n
      <4> QED
        BY <1>0, <2>2, <4>1, RespondSlot, Zenon DEF NetType
    <3> HIDE DEF n
    <3>3. \A q \in Slot : net'[q].data \subseteq Known \union {n}
      BY <3>2, Zenon DEF Known
    <3>4. Known' \subseteq Known \union {n}
      BY <2>0, <3>1, <3>3, Zenon DEF Known
    <3> QED
      BY <3>1, <3>4, Zenon DEF Grows
  <2> QED
    BY <1>6, <2>1, <2>2, Zenon DEF UploadBegins
<1>7. CASE UploadEnds(s)
  BY <1>7, <1>a, Zenon DEF UploadEnds
<1>5. CASE Deletes(s)
  BY <1>5, <1>a, Zenon DEF Deletes
<1> QED
  BY <1>1, <1>2, <1>3, <1>4, <1>5, <1>6, <1>7, Zenon DEF Serve

\* So do other clients and requests given up, and a loss brings nothing new.
LEMMA OutsideGrows ==
  TypeOK /\ (OthersChange \/ LeftActs \/ \E s \in Slot : Lose(s)) => Grows
<1> SUFFICES ASSUME TypeOK, OthersChange \/ LeftActs \/ \E s \in Slot : Lose(s)
             PROVE  Grows
  OBVIOUS
<1>0. ServerType /\ NetType
  BY TypeParts
<1>1. CASE OthersChange
  <2>1. /\ UNCHANGED <<net, collector>>
        /\ shown' \subseteq shown \union UNION {net[s].data : s \in Slot}
    BY <1>1, Zenon DEF OthersChange, page
  <2>2. CASE entries' \subseteq entries /\ UNCHANGED nextUID
    <3>1. Known' \subseteq Known \union {}
      BY <2>1, <2>2, KnownKept, Zenon
    <3> QED
      BY <2>2, <3>1, Zenon DEF Grows
  <2>3. ASSUME NEW name \in ValidName, entries' = dirAdd(entries, Root, name, nextUID),
               nextUID' = nextUID + 1
        PROVE  Grows
    <3>1. name \in Name
      BY NameAssumption
    <3>2. Directory(nextUID, Root, name) \in Entry /\ Directory(nextUID, Root, name).id = nextUID
      BY <1>0, <3>1, RootAssumption, SMT DEF ServerType, Directory, Entry
    <3>3. Known' \subseteq Known \union {Directory(nextUID, Root, name)}
      BY <2>1, <2>3, KnownKept, Zenon DEF dirAdd
    <3> QED
      BY <2>3, <3>2, <3>3, Zenon DEF Grows
  <2> QED
    BY <1>1, <2>2, <2>3, Zenon DEF OthersChange
<1>2. ASSUME NEW s \in Slot, Lose(s)
      PROVE  Grows
  <2>1. Respond(s, "failed", {}) /\ UNCHANGED <<entries, nextUID, collector, shown>>
    BY <1>2, Zenon DEF Lose, page
  <2>2. \A q \in Slot : net'[q].data \subseteq net[q].data
    BY <1>0, <2>1, RespondData, Zenon
  <2>3. Known' \subseteq Known \union {}
    BY <2>1, <2>2, KnownKept, Zenon
  <2> QED
    BY <2>1, <2>3, Zenon DEF Grows
<1>3. CASE LeftActs
  <2>1. /\ UNCHANGED <<net, collector>>
        /\ shown' \subseteq shown \union UNION {net[s].data : s \in Slot}
    BY <1>3, Zenon DEF LeftActs, page
  <2>2. PICK r \in left : LeftCreates(r) \/ LeftDeletes(r)
    BY <1>3, Zenon DEF LeftActs
  <2>3. CASE LeftDeletes(r)
    <3>1. Known' \subseteq Known \union {} /\ nextUID' = nextUID
      BY <2>1, <2>3, KnownKept, Zenon DEF LeftDeletes
    <3> QED
      BY <3>1, Zenon DEF Grows
  <2>4. CASE LeftCreates(r)
    <3>1. r.id \in Nat /\ r.name \in Name
      BY <1>0, SMT DEF ServerType, Leftover
    <3>2. Create(r.op, r.id, r.name)
      BY <2>4, Zenon DEF LeftCreates
    <3>3. nextUID' = nextUID + 1 /\ \E n \in Entry : n.id = nextUID /\ entries' = entries \union {n}
      BY <1>0, <3>1, <3>2, CreateStep, Zenon
    <3>4. PICK n \in Entry : n.id = nextUID /\ entries' = entries \union {n}
      BY <3>3
    <3>5. Known' \subseteq Known \union {n}
      BY <2>1, <3>4, KnownKept, Zenon
    <3> QED
      BY <3>3, <3>4, <3>5, Zenon DEF Grows
  <2> QED
    BY <2>2, <2>3, <2>4
<1> QED
  BY <1>1, <1>2, <1>3

\* An answer shows what was on its way.
LEMMA AnsweredGrows == \A s \in Slot : TypeOK /\ Answered(s) => Grows
<1> SUFFICES ASSUME NEW s \in Slot, TypeOK, Answered(s)
             PROVE  Grows
  OBVIOUS
<1>0. NetType
  BY TypeParts
<1>1. UNCHANGED <<entries, nextUID, collector>> /\ shown' \subseteq shown \union net[s].data
  BY Zenon DEF Answered, RootsAnswered, LookupAnswered, ChangeAnswered, FormAnswered,
               server, page, RenderingStays
<1>2. net'[s].data = {} /\ \A q \in Slot \ {s} : net'[q] = net[q]
  <2>1. \/ net' = [net EXCEPT ![s] = Idle]
        \/ \E dir \in Nat : net' = [net EXCEPT ![s] = Lookup(dir)]
    BY AnsweredSlot
  <2>2. Idle.data = {} /\ \A dir \in Nat : Lookup(dir).data = {}
    BY LookupType DEF NULL
  <2> QED
    BY <1>0, <2>1, <2>2, AnsweredSlot, Zenon DEF NetType
<1>3. \A q \in Slot : net'[q].data \subseteq net[q].data
  BY <1>2, Zenon
<1>4. Known' \subseteq Known \union {}
  BY <1>1, <1>3, KnownKept, Zenon
<1> QED
  BY <1>1, <1>4, Zenon DEF Grows

\* The stack holds no uid that is still to be handed out.
LEMMA StackStep == TypeOK /\ IdInv /\ Next => \A i \in 1..Len(stack') : stack'[i] < nextUID
<1> SUFFICES ASSUME TypeOK, IdInv, Next
             PROVE  \A i \in 1..Len(stack') : stack'[i] < nextUID
  OBVIOUS
<1>0. ServerType /\ StackType /\ PageType
  BY TypeParts
<1>1. Root < nextUID /\ \A i \in 1..Len(stack) : stack[i] < nextUID
  BY DEF IdInv, OldStack
<1>2. Len(stack) \in Nat
  BY <1>0, StackFacts DEF StackType
<1>a. CASE UNCHANGED stack
  BY <1>1, <1>a, Zenon
<1>b. CASE stack' = <<>>
  BY <1>b, SMT
<1>c. CASE stack' = <<Root>>
  <2>1. \A i \in 1..Len(<<Root>>) : <<Root>>[i] = Root
    BY SMT
  <2> QED
    BY <1>1, <1>c, <2>1, Zenon
<1>d. ASSUME NEW k \in 0..Len(stack), stack' = SubSeq(stack, 1, k)
      PROVE  \A i \in 1..Len(stack') : stack'[i] < nextUID
  <2>1. Len(stack') = k /\ \A i \in 1..k : stack'[i] = stack[i]
    BY <1>0, <1>d, StackFacts DEF StackType
  <2>2. \A i \in 1..k : i \in 1..Len(stack)
    BY <1>2, SMT
  <2> QED
    BY <1>1, <2>1, <2>2, Zenon
<1>e. ASSUME NEW e \in shown, stack' = Append(stack, e.id)
      PROVE  \A i \in 1..Len(stack') : stack'[i] < nextUID
  <2>1. e.id < nextUID
    BY Zenon DEF IdInv, OldIds, Known
  <2>2. e.id \in Nat
    BY <1>0, Fields, Zenon DEF PageType
  <2>3. /\ Len(stack') = Len(stack) + 1
        /\ stack'[Len(stack) + 1] = e.id
        /\ \A j \in 1..Len(stack) : stack'[j] = stack[j]
    BY <1>0, <1>e, <2>2, StackFacts DEF StackType
  <2>4. \A i \in 1..(Len(stack) + 1) : i = Len(stack) + 1 \/ i \in 1..Len(stack)
    BY <1>2, SMT
  <2> QED
    BY <1>1, <2>1, <2>3, <2>4, Zenon
<1>3. CASE User
  <2>1. CASE ClickRoot
    BY <1>c, <2>1, Zenon DEF ClickRoot
  <2>2. CASE ClickUp
    <3>1. stack' = SubSeq(stack, 1, Len(stack) - 1)
      BY <2>2, Zenon DEF ClickUp
    <3>2. Len(stack) - 1 \in 0..Len(stack)
      <4>1. Len(stack) > 0
        BY <2>2, Zenon DEF ClickUp
      <4> QED
        BY <1>2, <4>1, SMT
    <3> QED
      BY <1>d, <3>1, <3>2, Zenon
  <2>3. CASE ToggleModal
    BY <1>a, <2>3, Zenon DEF ToggleModal
  <2>4. CASE Reload
    BY <1>b, <2>4, Zenon DEF Reload
  <2>5. ASSUME NEW e \in shown, ClickDir(e) \/ ClickDelete(e)
        PROVE  \A i \in 1..Len(stack') : stack'[i] < nextUID
    BY <1>a, <1>e, <2>5, Zenon DEF ClickDir, ClickDelete
  <2>6. ASSUME NEW i \in 1..Len(crumb), ClickCrumb(i)
        PROVE  \A j \in 1..Len(stack') : stack'[j] < nextUID
    <3>1. i \in Nat
      BY SMT
    <3>2. (IF i <= Len(stack) THEN i ELSE Len(stack)) \in 0..Len(stack)
      BY <1>2, <3>1, SMT
    <3> QED
      BY <1>d, <2>6, <3>2, Zenon DEF ClickCrumb
  <2>7. ASSUME NEW name \in Name,
               Upload(name) \/ \E op \in {"fileCreate", "dirCreate"} : SubmitForm(op, name)
        PROVE  \A i \in 1..Len(stack') : stack'[i] < nextUID
    BY <1>a, <2>7, Zenon DEF Upload, SubmitForm
  <2> QED
    BY <1>3, <2>1, <2>2, <2>3, <2>4, <2>5, <2>6, <2>7, Zenon DEF User
<1>4. CASE OthersChange \/ LeftActs
  BY <1>a, <1>4, Zenon DEF OthersChange, LeftActs, page
<1>5. ASSUME NEW s \in Slot, Serve(s) \/ Lose(s)
      PROVE  \A i \in 1..Len(stack') : stack'[i] < nextUID
  BY <1>a, <1>5, Zenon DEF Serve, ServeRoots, LookupBegin, LookupData, Creates, UploadBegins,
               UploadEnds, Deletes, Lose, page
<1>6. ASSUME NEW s \in Slot, Answered(s)
      PROVE  \A i \in 1..Len(stack') : stack'[i] < nextUID
  BY <1>a, <1>c, <1>6, Zenon DEF Answered, RootsAnswered, LookupAnswered, ChangeAnswered,
                                 FormAnswered, page
<1> QED
  BY <1>3, <1>4, <1>5, <1>6, Zenon DEF Next

\* The uids stay unique and old.
LEMMA IdStep == TypeOK /\ IdInv /\ [Next]_vars => IdInv'
<1> SUFFICES ASSUME TypeOK, IdInv, [Next]_vars
             PROVE  IdInv'
  OBVIOUS
<1>1. CASE Next
  <2>1. Grows
    BY <1>1, UserGrows, ServeGrows, OutsideGrows, AnsweredGrows, Zenon DEF Next
  <2>2. UniqueIds' /\ OldIds' /\ nextUID' \in Nat /\ nextUID <= nextUID'
    BY <2>1, GrowthIds DEF IdInv
  <2>3. \A i \in 1..Len(stack') : stack'[i] < nextUID
    BY <1>1, StackStep
  <2>4. \A i \in 1..Len(stack') : stack'[i] \in Nat
    <3>1. stack' \in Seq(Nat)
      BY <1>1, TypeStep, Zenon DEF TypeOK
    <3> QED
      BY <3>1, StackFacts
  <2>5. nextUID \in Nat /\ Root \in Nat /\ Root < nextUID
    BY RootAssumption, Zenon DEF TypeOK, IdInv, OldStack
  <2>6. OldStack'
    <3>1. Root < nextUID'
      BY <2>2, <2>5, SMT
    <3>2. \A x \in Nat : x < nextUID => x < nextUID'
      BY <2>2, <2>5, SMT
    <3>3. \A i \in 1..Len(stack') : stack'[i] < nextUID'
      BY <2>3, <2>4, <3>2, Zenon
    <3> QED
      BY <3>1, <3>3, Zenon DEF OldStack
  <2> QED
    BY <2>2, <2>6 DEF IdInv
<1>2. CASE UNCHANGED vars
  <2>1. Known' = Known /\ UNCHANGED <<nextUID, stack>>
    BY <1>2, Zenon DEF vars, server, page, Known
  <2> QED
    BY <2>1, Zenon DEF IdInv, UniqueIds, OldIds, OldStack
<1> QED
  BY <1>1, <1>2

(***************************************************************************)
(* Before the side menu is rendered there is nothing to click.             *)
(***************************************************************************)

NoMenu ==
  /\ stack = <<>> /\ crumb = <<>> /\ shown = {}
  /\ \A s \in Slot : Busy(s) => s = 1 /\ net[s].op = "roots"

MenuInv ==
  /\ \A s \in Slot : net[s].at = "begun" => net[s].op \in {"lookup", "upload"}
  /\ menu => \A s \in Slot : Busy(s) => net[s].op # "roots"
  /\ ~menu => NoMenu

\* The page asks for the roots first.
LEMMA MenuInit == Init => MenuInv
<1> SUFFICES ASSUME Init
             PROVE  MenuInv
  OBVIOUS
<1>1. \A s \in Slot : net[s] = IF s = 1 THEN Roots ELSE Idle
  BY Zenon DEF Init
<1>2. Roots.at = "sent" /\ Roots.op = "roots" /\ Idle.at = "idle"
  BY LookupType DEF NULL
<1>3. \A s \in Slot : net[s].at # "begun" /\ (Busy(s) => s = 1 /\ net[s].op = "roots")
  BY <1>1, <1>2, Zenon DEF Busy
<1> QED
  BY <1>3, Zenon DEF Init, PageInit, MenuInv, NoMenu

\* The user can click on what is rendered only, once it is.
LEMMA MenuUser == TypeOK /\ MenuInv /\ User => MenuInv'
<1> SUFFICES ASSUME TypeOK, MenuInv, User
             PROVE  MenuInv'
  OBVIOUS
<1>0. NetType
  BY TypeParts
<1>1. CASE Reload
  <2>1. \A s \in Slot : net'[s] = IF s = 1 THEN Roots ELSE Idle
    BY <1>1, Zenon DEF Reload
  <2>2. Roots.at = "sent" /\ Roots.op = "roots" /\ Idle.at = "idle"
    BY LookupType DEF NULL
  <2>3. \A s \in Slot : net'[s].at # "begun" /\ (Busy(s)' => s = 1 /\ net'[s].op = "roots")
    BY <2>1, <2>2, Zenon DEF Busy
  <2> QED
    BY <1>1, <2>3, Zenon DEF Reload, MenuInv, NoMenu
<1>2. CASE ToggleModal
  BY <1>2, Zenon DEF ToggleModal, RenderingStays, MenuInv, NoMenu, Busy
<1>3. CASE UserSends /\ ~Reload /\ ~ToggleModal
  <2>1. menu
    <3> SUFFICES ASSUME ~menu
                 PROVE  FALSE
      OBVIOUS
    <3>1. stack = <<>> /\ crumb = <<>> /\ shown = {}
      BY Zenon DEF MenuInv, NoMenu
    <3>2. Len(crumb) = 0
      BY <3>1, SMT
    <3>3. ~(Len(crumb) > 1) /\ 1..Len(crumb) = {}
      BY <3>2, SMT
    <3> QED
      BY <1>3, <3>1, <3>3, Zenon DEF User, ClickRoot, ClickUp, Upload, SubmitForm
  <2>2. menu' = menu
    BY <1>3, Zenon DEF UserSends, RenderingStays
  <2>3. CASE UNCHANGED net
    BY <2>1, <2>2, <2>3, Zenon DEF MenuInv, Busy
  <2>4. ASSUME NEW r \in Request, r.at = "sent", r.op # "roots", Send(r)
        PROVE  MenuInv'
    <3>1. PICK s \in Slot : net'[s] = r /\ \A q \in Slot \ {s} : net'[q] = net[q]
      BY <1>0, <2>4, SendSlot, Zenon DEF NetType
    <3> QED
      BY <2>1, <2>2, <2>4, <3>1, Zenon DEF MenuInv, Busy
  <2> QED
    BY <1>3, <2>3, <2>4, Zenon DEF UserSends
<1> QED
  BY <1>1, <1>2, <1>3, UserSendsOrReloads

\* A step that keeps what is rendered, and every request but the state of one.
LEMMA MenuResponded ==
  ASSUME NetType, MenuInv, NEW s \in Slot, NEW at \in {"ok", "failed", "begun"},
         NEW data \in SUBSET Entry, Respond(s, at, data),
         Busy(s), at = "begun" => net[s].op \in {"lookup", "upload"},
         UNCHANGED <<stack, crumb, shown, menu>>
  PROVE  MenuInv'
<1>1. net'[s].op = net[s].op /\ net'[s].at = at /\ \A q \in Slot \ {s} : net'[q] = net[q]
  BY RespondSlot, Zenon DEF NetType
<1>2. \A q \in Slot : net'[q].op = net[q].op /\ (Busy(q)' => Busy(q))
                      /\ (net'[q].at = "begun" => net[q].op \in {"lookup", "upload"})
  <2> SUFFICES ASSUME NEW q \in Slot
               PROVE  net'[q].op = net[q].op /\ (Busy(q)' => Busy(q))
                      /\ (net'[q].at = "begun" => net[q].op \in {"lookup", "upload"})
    OBVIOUS
  <2>1. CASE q = s
    BY <1>1, <2>1
  <2>2. CASE q # s
    BY <1>1, <2>2, Zenon DEF Busy, MenuInv
  <2> QED
    BY <2>1, <2>2
<1> QED
  BY <1>2, Zenon DEF MenuInv, NoMenu

\* How the server goes on with a request: only a lookup or an upload is begun.
LEMMA ServeAt ==
  ASSUME TypeOK, NEW s \in Slot, Serve(s)
  PROVE  /\ Busy(s)
         /\ \E at \in {"ok", "failed", "begun"}, data \in SUBSET Entry :
              Respond(s, at, data) /\ (at = "begun" => net[s].op \in {"lookup", "upload"})
<1>1. Busy(s)
  BY Zenon DEF Serve, ServeRoots, LookupBegin, LookupData, Creates, UploadBegins, UploadEnds,
               Deletes, Busy
<1>2. CASE LookupBegin(s) \/ UploadBegins(s)
  BY <1>1, <1>2, ServeResponds, Zenon DEF LookupBegin, UploadBegins
<1>3. CASE ~LookupBegin(s) /\ ~UploadBegins(s)
  <2>1. PICK at \in {"ok", "failed", "begun"}, data \in SUBSET Entry : Respond(s, at, data)
    BY ServeResponds
  <2>2. \E d : \E a \in {"ok", "failed"} : Respond(s, a, d)
    BY <1>3, Zenon DEF Serve, ServeRoots, LookupData, Creates, UploadEnds, Deletes
  <2>3. net'[s].at = at
    <3>1. net \in [Slot -> Request]
      BY DEF TypeOK
    <3> QED
      BY <2>1, <3>1, RespondSlot, Zenon
  <2>4. net'[s].at \in {"ok", "failed"}
    <3>1. net \in [Slot -> Request]
      BY DEF TypeOK
    <3>2. PICK d : \E a \in {"ok", "failed"} : Respond(s, a, d)
      BY <2>2
    <3>3. PICK a \in {"ok", "failed"} : net'[s] = [[net[s] EXCEPT !.at = a] EXCEPT !.data = d]
      BY <3>1, <3>2, Zenon DEF Respond
    <3>4. net[s] \in Request
      BY <3>1
    <3> QED
      BY <3>3, <3>4, SMT DEF Request
  <2> QED
    BY <1>1, <2>1, <2>3, <2>4
<1> QED
  BY <1>2, <1>3

\* The side menu comes with the answer to the roots, and with the first visit.
LEMMA MenuStep == TypeOK /\ MenuInv /\ [Next]_vars => MenuInv'
<1> SUFFICES ASSUME TypeOK, MenuInv, [Next]_vars
             PROVE  MenuInv'
  OBVIOUS
<1>0. NetType
  BY TypeParts
<1>1. CASE User
  BY <1>1, MenuUser
<1>2. CASE OthersChange \/ LeftActs
  <2>1. UNCHANGED <<stack, crumb, shown, menu, net>>
    BY <1>2, Zenon DEF OthersChange, LeftActs, page
  <2> QED
    BY <2>1, Zenon DEF MenuInv, NoMenu, Busy
<1>3. ASSUME NEW s \in Slot, Serve(s)
      PROVE  MenuInv'
  <2>1. UNCHANGED <<stack, crumb, shown, menu>>
    BY <1>3, Zenon DEF Serve, ServeRoots, LookupBegin, LookupData, Creates, UploadBegins,
               UploadEnds, Deletes, page
  <2> QED
    BY <1>0, <1>3, <2>1, ServeAt, MenuResponded, Zenon
<1>4. ASSUME NEW s \in Slot, Lose(s)
      PROVE  MenuInv'
  <2>1. UNCHANGED <<stack, crumb, shown, menu>> /\ Respond(s, "failed", {}) /\ Busy(s)
    BY <1>4, Zenon DEF Lose, page, Busy
  <2>2. {} \in SUBSET Entry
    OBVIOUS
  <2> QED
    BY <1>0, <2>1, <2>2, MenuResponded, Zenon
<1>5. ASSUME NEW s \in Slot, Answered(s)
      PROVE  MenuInv'
  <2>1. Busy(s) /\ \A q \in Slot \ {s} : net'[q] = net[q]
    <3>1. Busy(s)
      BY <1>5, Zenon DEF Answered, RootsAnswered, LookupAnswered, ChangeAnswered, FormAnswered, Busy
    <3> QED
      BY <1>5, <3>1, AnsweredSlot
  <2>2. net'[s].at # "begun" /\ (Busy(s)' => net'[s].op # "roots")
    <3>1. \/ net' = [net EXCEPT ![s] = Idle]
          \/ \E dir \in Nat : net' = [net EXCEPT ![s] = Lookup(dir)]
      BY <1>5, AnsweredSlot
    <3>2. Idle.at = "idle" /\ \A dir \in Nat : Lookup(dir).at = "sent" /\ Lookup(dir).op = "lookup"
      BY LookupType DEF NULL
    <3>3. net'[s] = Idle \/ \E dir \in Nat : net'[s] = Lookup(dir)
      BY <1>0, <3>1, Zenon DEF NetType
    <3> QED
      BY <3>2, <3>3, Zenon DEF Busy
  <2>3. CASE menu
    <3>1. menu'
      BY <1>5, <2>3, Zenon DEF Answered, RootsAnswered, LookupAnswered, ChangeAnswered,
                               FormAnswered, RenderingStays, page
    <3> QED
      BY <2>1, <2>2, <2>3, <3>1, Zenon DEF MenuInv, Busy
  <2>4. CASE ~menu
    <3>1. s = 1 /\ net[s].op = "roots" /\ NoMenu /\ \A q \in Slot \ {s} : ~Busy(q)
      BY <2>1, <2>4, Zenon DEF MenuInv, NoMenu
    <3>2. RootsAnswered(s)
      BY <1>5, <3>1, Zenon DEF Answered, LookupAnswered, ChangeAnswered, FormAnswered
    <3>3. \A q \in Slot \ {s} : ~Busy(q)'
      BY <2>1, <3>1, Zenon DEF Busy
    <3>4. CASE menu'
      BY <2>1, <2>2, <3>3, <3>4, Zenon DEF MenuInv, Busy
    <3>5. CASE ~menu'
      <4>1. Done(s) /\ UNCHANGED <<stack, crumb, shown>>
        BY <3>2, <3>5, Zenon DEF RootsAnswered
      <4>2. ~Busy(s)'
        <5>1. net'[s] = Idle
          BY <1>0, <4>1, Zenon DEF Done, NetType
        <5> QED
          BY <5>1, LookupType DEF Busy, NULL
      <4> QED
        BY <2>1, <2>2, <3>1, <3>3, <3>5, <4>1, <4>2, Zenon DEF MenuInv, NoMenu, Busy
    <3> QED
      BY <3>4, <3>5
  <2> QED
    BY <2>3, <2>4
<1>6. CASE UNCHANGED vars
  BY <1>6, Zenon DEF vars, page, MenuInv, NoMenu, Busy
<1> QED
  BY <1>1, <1>2, <1>3, <1>4, <1>5, <1>6, Zenon DEF Next

(***************************************************************************)
(* The user who waits for each answer.                                     *)
(***************************************************************************)

\* The stack is a path from the root, through whatever is known.
Rooted ==
  /\ stack # <<>> /\ stack[1] = Root
  /\ \A i \in 1..(Len(stack) - 1) : \A e \in Known :
       e.id = stack[i + 1] => e.directory /\ e.parent = stack[i]

Settled == crumb = stack /\ shownOf = Here /\ \A e \in shown : e.parent = shownOf

Fresh == changed \/ shown = collectEntries(entries, shownOf)

\* A lookup is of the top of the stack, has the thread's collector to itself, and
\* brings that directory's entries.
LookupPending(s) ==
  /\ net[s].id = Here
  /\ net[s].at = "begun" => collector = {}
  /\ net[s].at = "ok" =>
       /\ \A e \in net[s].data : e.parent = net[s].id
       /\ changed \/ net[s].data = collectEntries(entries, net[s].id)

\* Under a change the page shows the top of the stack, and as it is unless the
\* change succeeds or is an upload: then it is visited next.
ChangePending(s) ==
  /\ Settled
  /\ net[s].at # "ok" /\ net[s].op # "upload" => Fresh
  /\ net[s].op \in {"fileDelete", "dirDelete", "upload"} => net[s].then = Here

Pending(s) == IF net[s].op = "lookup" THEN LookupPending(s) ELSE ChangePending(s)

Alone(s) == Busy(s) /\ \A q \in Slot \ {s} : ~Busy(q)

PathInv ==
  ~trouble /\ menu =>
    /\ Rooted
    /\ Quiet => Settled /\ Fresh
    /\ \A s \in Slot : Busy(s) => Alone(s) /\ Pending(s)

\* A path keeps to the tree when it is left, or cut short, whatever is added.
LEMMA RootedPart ==
  ASSUME TypeOK, IdInv, Rooted, Grows,
         Len(stack') \in 1..Len(stack), \A i \in 1..Len(stack') : stack'[i] = stack[i]
  PROVE  Rooted'
<1>0. Len(stack) \in Nat /\ nextUID \in Nat
  BY StackFacts, Zenon DEF TypeOK
<1>1. stack' # <<>>
  <2>1. Len(<<>>) = 0 /\ 0 \notin 1..Len(stack)
    BY SMT
  <2> QED
    BY <2>1
<1>2. stack'[1] = Root
  <2>1. 1 \in 1..Len(stack')
    BY <1>0, SMT
  <2> QED
    BY <2>1, Zenon DEF Rooted
<1>3. ASSUME NEW i \in 1..(Len(stack') - 1), NEW e \in Known', e.id = stack'[i + 1]
      PROVE  e.directory /\ e.parent = stack'[i]
  <2>1. /\ i \in 1..Len(stack') /\ i + 1 \in 1..Len(stack')
        /\ i \in 1..(Len(stack) - 1) /\ i + 1 \in 1..Len(stack)
    BY <1>0, SMT
  <2>2. e.id = stack[i + 1] /\ stack'[i] = stack[i]
    BY <1>3, <2>1
  <2>3. stack[i + 1] < nextUID
    BY <2>1 DEF IdInv, OldStack
  <2>4. e.id # nextUID
    <3>1. stack[i + 1] \in Nat
      BY <2>1, StackFacts DEF TypeOK
    <3>2. \A x \in Nat : x < nextUID => x # nextUID
      BY <1>0, SMT
    <3> QED
      BY <2>2, <2>3, <3>1, <3>2
  <2>5. e \in Known
    BY <2>4, Zenon DEF Grows
  <2> QED
    BY <2>1, <2>2, <2>5, Zenon DEF Rooted
<1> QED
  BY <1>1, <1>2, <1>3, Zenon DEF Rooted

\* So it does when nothing is clicked.
LEMMA RootedKept ==
  ASSUME TypeOK, IdInv, Rooted, Grows, UNCHANGED stack
  PROVE  Rooted'
<1>1. Len(stack) \in Nat /\ Len(stack) # 0
  BY StackFacts, Zenon DEF TypeOK, Rooted
<1>2. Len(stack') \in 1..Len(stack)
  BY <1>1, SMT
<1> QED
  BY <1>2, RootedPart, Zenon

\* A directory that is listed under the top of the stack makes the path longer.
LEMMA RootedDeeper ==
  ASSUME TypeOK, IdInv, Rooted, Known' \subseteq Known, NEW e \in shown,
         e.directory, e.parent = Here, stack' = Append(stack, e.id)
  PROVE  Rooted' /\ Here' = e.id
<1>0. Len(stack) \in Nat \ {0} /\ stack \in Seq(Nat) /\ e.id \in Nat
  <2>1. stack \in Seq(Nat) /\ e \in Entry
    BY Zenon DEF TypeOK
  <2>2. Len(stack) \in Nat /\ Len(stack) # 0
    BY <2>1, StackFacts, Zenon DEF Rooted
  <2> QED
    BY <2>1, <2>2, Fields, SMT
<1>1. /\ Len(stack') = Len(stack) + 1
      /\ stack'[Len(stack) + 1] = e.id
      /\ \A j \in 1..Len(stack) : stack'[j] = stack[j]
  BY <1>0, StackFacts
<1>2. Here' = e.id
  BY <1>1, Zenon DEF Here
<1>3. stack' # <<>> /\ stack'[1] = Root
  <2>1. Len(<<>>) = 0 /\ Len(stack) + 1 # 0 /\ 1 \in 1..Len(stack)
    BY <1>0, SMT
  <2> QED
    BY <1>1, <2>1, Zenon DEF Rooted
<1>4. ASSUME NEW i \in 1..(Len(stack') - 1), NEW f \in Known', f.id = stack'[i + 1]
      PROVE  f.directory /\ f.parent = stack'[i]
  <2>1. i \in 1..Len(stack) /\ stack'[i] = stack[i]
    BY <1>0, <1>1, SMT
  <2>2. CASE i = Len(stack)
    <3>1. f.id = e.id /\ f \in Known /\ e \in Known
      BY <1>1, <1>4, <2>2, Zenon DEF Known
    <3>2. f = e
      BY <3>1, Zenon DEF IdInv, UniqueIds
    <3> QED
      BY <2>1, <2>2, <3>2, Zenon DEF Here
  <2>3. CASE i # Len(stack)
    <3>1. i \in 1..(Len(stack) - 1) /\ i + 1 \in 1..Len(stack)
      BY <1>0, <2>1, <2>3, SMT
    <3>2. f.id = stack[i + 1] /\ f \in Known
      BY <1>1, <1>4, <3>1, Zenon
    <3> QED
      BY <2>1, <3>1, <3>2, Zenon DEF Rooted
  <2> QED
    BY <2>2, <2>3
<1> QED
  BY <1>2, <1>3, <1>4, Zenon DEF Rooted

\* The root alone is a path.
LEMMA RootedAtRoot ==
  ASSUME stack' = <<Root>>
  PROVE  Rooted' /\ Here' = Root
<1>1. Len(<<Root>>) = 1 /\ <<Root>>[1] = Root /\ <<Root>> # <<>> /\ 1..(1 - 1) = {}
  BY SMT
<1> QED
  BY <1>1, Zenon DEF Rooted, Here

\* One request that is under way, as it should be, is all there is to say.
LEMMA PathBusy ==
  ASSUME NEW s \in Slot, Alone(s)', Rooted', Pending(s)'
  PROVE  PathInv'
<1>1. ~Quiet'
  BY Zenon DEF Alone, Quiet
<1>2. ASSUME NEW q \in Slot, Busy(q)'
      PROVE  Alone(q)' /\ Pending(q)'
  <2>1. q = s
    BY <1>2, Zenon DEF Alone
  <2> QED
    BY <2>1
<1> QED
  BY <1>1, <1>2, Zenon DEF PathInv

\* So it is when none is, and the page is settled.
LEMMA PathQuiet ==
  ASSUME Quiet', Rooted', Settled', Fresh'
  PROVE  PathInv'
BY Zenon DEF PathInv, Quiet

\* A request that leaves while none is under way is alone.
LEMMA AloneSent ==
  ASSUME NetType, Quiet, NEW r \in Request, r.at = "sent", Send(r)
  PROVE  \E s \in Slot : net'[s] = r /\ Alone(s)'
<1>1. PICK s \in Slot : net'[s] = r /\ \A q \in Slot \ {s} : net'[q] = net[q]
  BY SendSlot, Zenon DEF NetType
<1>2. Alone(s)'
  BY <1>1, Zenon DEF Alone, Busy, Quiet
<1> QED
  BY <1>1, <1>2

\* A visit of the top of the stack is as it should be.
LEMMA LookupSent ==
  ASSUME NetType, Quiet, NEW dir \in Nat, Send(Lookup(dir)), Rooted', dir = Here'
  PROVE  PathInv'
<1>1. Lookup(dir) \in Request /\ Lookup(dir).op = "lookup" /\ Lookup(dir).id = dir
      /\ Lookup(dir).at = "sent"
  BY LookupType
<1>2. PICK s \in Slot : net'[s] = Lookup(dir) /\ Alone(s)'
  BY <1>1, AloneSent, Zenon
<1>3. Pending(s)'
  BY <1>1, <1>2, Zenon DEF Pending, LookupPending
<1> QED
  BY <1>2, <1>3, PathBusy

\* So is a change, when the page is settled.
LEMMA ChangeSent ==
  ASSUME NetType, Quiet, NEW op \in ChangeOp, NEW id \in Nat, NEW name \in Name,
         NEW then \in Nat, Send(Fetch(op, id, name, then)),
         op \in {"fileDelete", "dirDelete", "upload"} => then = Here',
         Rooted', Settled', Fresh'
  PROVE  PathInv'
<1> DEFINE r == Fetch(op, id, name, then)
<1>1. op \in Op /\ op # "lookup"
  BY DEF Op, ChangeOp
<1>2. r \in Request /\ r.op = op /\ r.then = then /\ r.at = "sent"
  BY <1>1, FetchType
<1> HIDE DEF r
<1>3. Send(r)
  BY DEF r
<1>4. PICK s \in Slot : net'[s] = r /\ Alone(s)'
  BY <1>2, <1>3, AloneSent
<1>5. Pending(s)'
  BY <1>1, <1>2, <1>4, Zenon DEF Pending, ChangePending
<1> QED
  BY <1>4, <1>5, PathBusy

\* Nothing of it changes.
LEMMA PathSame ==
  ASSUME PathInv, UNCHANGED <<entries, collector, stack, crumb, shown, menu, shownOf>>,
         UNCHANGED <<net, trouble, changed>>
  PROVE  PathInv'
<1>1. /\ entries' = entries /\ collector' = collector
      /\ stack' = stack /\ crumb' = crumb /\ shown' = shown /\ shownOf' = shownOf
  BY Zenon
<1>2. Known' = Known
  BY <1>1, Zenon DEF Known
<1>3. \A s \in Slot : Busy(s)' = Busy(s)
  BY Zenon DEF Busy
<1>4. Here' = Here
  BY <1>1, Zenon DEF Here
<1>5. Rooted => Rooted'
  BY <1>1, <1>2, Zenon DEF Rooted
<1>6. (Settled => Settled') /\ (Fresh => Fresh')
  BY <1>1, <1>4, Zenon DEF Settled, Fresh
<1>7. \A s \in Slot : Pending(s) => Pending(s)'
  BY <1>1, <1>4, <1>6, Zenon DEF Pending, LookupPending, ChangePending
<1>8. \A s \in Slot : Alone(s) => Alone(s)'
  BY <1>3, Zenon DEF Alone
<1>9. Quiet' => Quiet
  BY <1>3, Zenon DEF Quiet
<1>a. ASSUME ~trouble', menu'
      PROVE  ~trouble /\ menu
  BY <1>a, Zenon
<1>b. (\A s \in Slot : Busy(s) => Alone(s) /\ Pending(s))
      => \A s \in Slot : Busy(s)' => Alone(s)' /\ Pending(s)'
  BY <1>3, <1>7, <1>8, Zenon
<1> QED
  BY <1>5, <1>6, <1>9, <1>a, <1>b, Zenon DEF PathInv

\* The page has not been rendered at the start.
LEMMA PathInit == Init => PathInv
BY Zenon DEF Init, PageInit, PathInv

\* A user who acts when nothing is under way leaves the path as it should be.
LEMMA PathUser == TypeOK /\ IdInv /\ PathInv /\ User => PathInv'
<1> SUFFICES ASSUME TypeOK, IdInv, PathInv, User, ~trouble', menu'
             PROVE  PathInv'
  BY Zenon DEF PathInv
<1>0. StackType /\ PageType /\ NetType
  BY TypeParts
<1>g. Grows
  BY UserGrows
<1>a. ASSUME Acts, RenderingStays
      PROVE  /\ Quiet /\ Rooted /\ Settled /\ Fresh
             /\ UNCHANGED <<server, changed, crumb, shown, shownOf>>
             /\ Fresh' /\ Len(stack) \in Nat \ {0}
  <2>1. ~trouble /\ Quiet /\ menu /\ UNCHANGED <<server, changed, crumb, shown, shownOf>>
    BY <1>a, Zenon DEF Acts, RenderingStays
  <2>2. Rooted /\ Settled /\ Fresh
    BY <2>1, Zenon DEF PathInv
  <2>3. Len(stack) \in Nat /\ Len(stack) # 0
    BY <1>0, <2>2, StackFacts, Zenon DEF StackType, Rooted
  <2>4. Fresh'
    BY <2>1, <2>2, Zenon DEF Fresh, server
  <2> QED
    BY <2>1, <2>2, <2>3, <2>4, SMT
<1>b. ASSUME NEW k \in 1..Len(stack), stack' = SubSeq(stack, 1, k),
             Quiet, Rooted, Send(Lookup(stack[k]))
      PROVE  PathInv'
  <2>1. k \in 0..Len(stack) /\ k \in 1..k /\ \A i \in 1..k : i \in 1..Len(stack)
    BY <1>0, StackFacts, SMT DEF StackType
  <2>2. Len(stack') = k /\ \A i \in 1..k : stack'[i] = stack[i]
    BY <1>0, <1>b, <2>1, StackFacts DEF StackType
  <2>3. Rooted'
    BY <1>b, <1>g, <2>2, RootedPart, Zenon
  <2>4. Here' = stack[k] /\ stack[k] \in Nat
    BY <1>0, <2>1, <2>2, StackFacts, Zenon DEF Here, StackType
  <2> QED
    BY <1>0, <1>b, <2>3, <2>4, LookupSent, Zenon
<1>c. ASSUME Acts, RenderingStays, UNCHANGED stack,
             NEW op \in ChangeOp, NEW id \in Nat, NEW name \in Name,
             NEW then \in Nat, Send(Fetch(op, id, name, then)),
             op \in {"fileDelete", "dirDelete", "upload"} => then = Here
      PROVE  PathInv'
  <2>1. Here' = Here
    BY <1>c, Zenon DEF Here
  <2>2. Settled'
    BY <1>a, <1>c, <2>1, Zenon DEF Settled
  <2>3. Rooted'
    BY <1>a, <1>c, <1>g, RootedKept
  <2> QED
    BY <1>0, <1>a, <1>c, <2>1, <2>2, <2>3, ChangeSent, Zenon
<1>1. CASE ClickRoot
  <2>1. Quiet /\ stack' = <<Root>> /\ Send(Lookup(Root))
    BY <1>1, Zenon DEF ClickRoot
  <2>2. Rooted' /\ Here' = Root /\ Root \in Nat
    BY <2>1, RootedAtRoot, RootAssumption
  <2> QED
    BY <1>0, <2>1, <2>2, LookupSent, Zenon
<1>2. CASE ClickUp
  <2>1. Acts /\ RenderingStays
    BY <1>2, Zenon DEF ClickUp
  <2>2. Len(stack) > 1
    BY <1>2, <1>a, <2>1, Zenon DEF ClickUp, Settled
  <2>3. Len(stack) - 1 \in 1..Len(stack)
    BY <1>a, <2>1, <2>2, SMT
  <2>4. stack' = SubSeq(stack, 1, Len(stack) - 1) /\ Send(Lookup(stack[Len(stack) - 1]))
    BY <1>2, <2>2, Zenon DEF ClickUp
  <2> QED
    BY <1>a, <1>b, <2>1, <2>3, <2>4, Zenon
<1>3. CASE ToggleModal
  <2>1. UNCHANGED <<entries, collector, stack, crumb, shown, menu, shownOf>>
    BY <1>3, Zenon DEF ToggleModal, server, RenderingStays
  <2>2. UNCHANGED <<net, trouble, changed>>
    BY <1>3, Zenon DEF ToggleModal, count
  <2> QED
    BY <2>1, <2>2, PathSame, Zenon
<1>4. CASE Reload
  BY <1>4, Zenon DEF Reload
<1>5. ASSUME NEW e \in shown, ClickDir(e)
      PROVE  PathInv'
  <2>1. Acts /\ RenderingStays /\ e.directory /\ stack' = Append(stack, e.id) /\ Send(Lookup(e.id))
    BY <1>5, Zenon DEF ClickDir
  <2>2. e.parent = Here
    BY <1>a, <2>1, Zenon DEF Settled
  <2>3. e.id \in Nat
    BY <1>0, Fields, Zenon DEF PageType
  <2>4. Known' \subseteq Known
    <3>1. UserSends
      <4>1. ~Reload
        BY Zenon DEF Reload
      <4> QED
        BY <4>1, UserSendsOrReloads
    <3>2. \A s \in Slot : net'[s].data \subseteq net[s].data
      BY <1>0, <3>1, SendsData
    <3>3. entries' \subseteq entries \union {} /\ collector' \subseteq collector
          /\ shown' \subseteq shown \union UNION {net[s].data : s \in Slot}
      BY <3>1, Zenon DEF UserSends, server, RenderingStays
    <3>4. Known' \subseteq Known \union {}
      BY <3>2, <3>3, KnownKept
    <3> QED
      BY <3>4, Zenon
  <2>5. Rooted' /\ Here' = e.id
    BY <1>a, <2>1, <2>2, <2>4, RootedDeeper
  <2> QED
    BY <1>0, <1>a, <2>1, <2>3, <2>5, LookupSent, Zenon
<1>6. ASSUME NEW e \in shown, ClickDelete(e)
      PROVE  PathInv'
  <2>1. e.id \in Nat /\ e.name \in Name /\ Here \in Nat
    BY <1>0, <1>6, Fields, StackFacts, Zenon DEF PageType, StackType, ClickDelete, Here
  <2>2. \E op \in ChangeOp : Send(Fetch(op, e.id, e.name, Here))
    <3>1. {"dirDelete", "fileDelete"} \subseteq ChangeOp
      BY DEF ChangeOp
    <3> QED
      BY <1>6, <3>1, Zenon DEF ClickDelete
  <2> QED
    BY <1>6, <1>c, <2>1, <2>2, Zenon DEF ClickDelete
<1>7. ASSUME NEW i \in 1..Len(crumb), ClickCrumb(i)
      PROVE  PathInv'
  <2>1. Acts /\ RenderingStays
    BY <1>7, Zenon DEF ClickCrumb
  <2>2. crumb = stack /\ i \in 1..Len(stack)
    BY <1>a, <2>1, Zenon DEF Settled
  <2>3. i <= Len(stack)
    BY <1>a, <2>1, <2>2, SMT
  <2>4. stack' = SubSeq(stack, 1, i) /\ Send(Lookup(stack[i]))
    BY <1>7, <2>2, <2>3, Zenon DEF ClickCrumb
  <2> QED
    BY <1>a, <1>b, <2>1, <2>2, <2>4, Zenon
<1>8. ASSUME NEW name \in Name, Upload(name)
      PROVE  PathInv'
  <2>1. Here \in Nat /\ "upload" \in ChangeOp
    BY <1>0, <1>8, StackFacts, Zenon DEF StackType, Upload, Here, ChangeOp
  <2> QED
    BY <1>8, <1>c, <2>1, Zenon DEF Upload
<1>9. ASSUME NEW name \in Name, NEW op \in {"fileCreate", "dirCreate"}, SubmitForm(op, name)
      PROVE  PathInv'
  <2>1. op \in ChangeOp /\ NULL \in Nat /\ op \notin {"fileDelete", "dirDelete", "upload"}
    BY DEF ChangeOp, NULL
  <2>2. Here \in Nat
    BY <1>0, <1>9, StackFacts, Zenon DEF StackType, SubmitForm, Here
  <2> QED
    BY <1>9, <1>c, <2>1, <2>2, Zenon DEF SubmitForm
<1> QED
  BY <1>1, <1>2, <1>3, <1>4, <1>5, <1>6, <1>7, <1>8, <1>9, Zenon DEF User

\* A request that the server goes on with stays alone.
LEMMA AloneResponded ==
  ASSUME NetType, NEW s \in Slot, Alone(s), NEW at \in {"ok", "failed", "begun"},
         NEW data \in SUBSET Entry, Respond(s, at, data)
  PROVE  /\ Alone(s)'
         /\ net'[s].op = net[s].op /\ net'[s].id = net[s].id /\ net'[s].then = net[s].then
         /\ net'[s].at = at /\ net'[s].data = data
<1>1. /\ net'[s].op = net[s].op /\ net'[s].id = net[s].id /\ net'[s].then = net[s].then
      /\ net'[s].at = at /\ net'[s].data = data
      /\ \A q \in Slot \ {s} : net'[q] = net[q]
  BY RespondSlot, SMT DEF NetType
<1>2. at # "idle"
  OBVIOUS
<1> QED
  BY <1>1, <1>2, Zenon DEF Alone, Busy

\* The server keeps the request of such a user as it should be.
LEMMA PathServe ==
  \A s \in Slot : TypeOK /\ IdInv /\ MenuInv /\ PathInv /\ Serve(s) => PathInv'
<1> SUFFICES ASSUME NEW s \in Slot, TypeOK, IdInv, MenuInv, PathInv, Serve(s), ~trouble', menu'
             PROVE  PathInv'
  BY Zenon DEF PathInv
<1>0. NetType
  BY TypeParts
<1>1. UNCHANGED page /\ UNCHANGED trouble
  BY Zenon DEF Serve, ServeRoots, LookupBegin, LookupData, Creates, UploadBegins,
               UploadEnds, Deletes
<1>2. menu /\ ~trouble /\ Here' = Here /\ UNCHANGED <<stack, crumb, shown, shownOf>>
  BY <1>1, Zenon DEF page, Here
<1>3. Busy(s)
  BY ServeAt
<1>4. Rooted /\ Alone(s) /\ Pending(s)
  BY <1>2, <1>3, Zenon DEF PathInv
<1>5. Grows
  BY ServeGrows
<1>6. Rooted'
  BY <1>2, <1>4, <1>5, RootedKept
<1>e. {} \in SUBSET Entry
  OBVIOUS
<1>7. CASE ServeRoots(s)
  BY <1>2, <1>3, <1>7, Zenon DEF ServeRoots, MenuInv
<1>8. CASE LookupBegin(s)
  <2>1. Respond(s, "begun", {}) /\ net[s].op = "lookup" /\ collector' = {}
    BY <1>8, Zenon DEF LookupBegin
  <2>2. Alone(s)' /\ net'[s].op = "lookup" /\ net'[s].id = net[s].id /\ net'[s].at = "begun"
    BY <1>0, <1>4, <1>e, <2>1, AloneResponded, Zenon
  <2>3. Pending(s)'
    BY <1>2, <1>4, <2>1, <2>2, Zenon DEF Pending, LookupPending
  <2> QED
    BY <1>6, <2>2, <2>3, PathBusy
<1>9. CASE LookupData(s)
  <2>1. net[s].op = "lookup" /\ collector = {} /\ net[s].id = Here
    BY <1>4, <1>9, Zenon DEF LookupData, Pending, LookupPending
  <2>2. CASE findDir(entries, net[s].id) # NULL
    <3>1. /\ Respond(s, "ok", collector')
          /\ collector' = collector \union collectEntries(entries, net[s].id)
          /\ UNCHANGED entries
      BY <1>9, <2>2, Zenon DEF LookupData
    <3>2. collector' = collectEntries(entries, net[s].id)
      BY <2>1, <3>1, Zenon
    <3>3. collector' \in SUBSET Entry
      BY <3>2, Zenon DEF TypeOK, collectEntries
    <3>r. Respond(s, "ok", collector') /\ "ok" \in {"ok", "failed", "begun"}
      BY <3>1
    <3>4. /\ Alone(s)' /\ net'[s].op = "lookup" /\ net'[s].id = net[s].id /\ net'[s].at = "ok"
          /\ net'[s].data = collector'
      BY <1>0, <1>4, <2>1, <3>r, <3>3, AloneResponded, Zenon
    <3>5. \A e \in net'[s].data : e.parent = net'[s].id
      BY <3>2, <3>4, Zenon DEF collectEntries
    <3>6. Pending(s)'
      BY <1>2, <2>1, <3>1, <3>2, <3>4, <3>5, Zenon DEF Pending, LookupPending
    <3> QED
      BY <1>6, <3>4, <3>6, PathBusy
  <2>3. CASE findDir(entries, net[s].id) = NULL
    <3>1. Respond(s, "failed", {})
      BY <1>9, <2>3, Zenon DEF LookupData
    <3>2. Alone(s)' /\ net'[s].op = "lookup" /\ net'[s].id = net[s].id /\ net'[s].at = "failed"
      BY <1>0, <1>4, <1>e, <2>1, <3>1, AloneResponded, Zenon
    <3>3. Pending(s)'
      BY <1>2, <2>1, <3>2, Zenon DEF Pending, LookupPending
    <3> QED
      BY <1>6, <3>2, <3>3, PathBusy
  <2> QED
    BY <2>2, <2>3
<1>u. ASSUME net[s].op = "upload", NEW at \in {"ok", "failed", "begun"},
             NEW data \in SUBSET Entry, Respond(s, at, data)
      PROVE  PathInv'
  <2>1. Settled' /\ ChangePending(s)
    BY <1>2, <1>4, <1>u, Zenon DEF Pending, ChangePending, Settled
  <2>2. Alone(s)' /\ net'[s].op = "upload" /\ net'[s].then = net[s].then
    BY <1>0, <1>4, <1>u, AloneResponded, Zenon
  <2>3. Pending(s)'
    BY <1>2, <1>u, <2>1, <2>2, Zenon DEF Pending, ChangePending
  <2> QED
    BY <1>6, <2>2, <2>3, PathBusy
<1>a. ASSUME net[s].op # "lookup", net[s].op # "upload", net[s].at = "sent", UNCHANGED changed,
             \/ Respond(s, "ok", {})
             \/ Respond(s, "failed", {}) /\ UNCHANGED entries
      PROVE  PathInv'
  <2>1. Settled' /\ Fresh /\ ChangePending(s)
    BY <1>2, <1>4, <1>a, Zenon DEF Pending, ChangePending, Settled
  <2>2. CASE Respond(s, "ok", {})
    <3>1. Alone(s)' /\ net'[s].op = net[s].op /\ net'[s].then = net[s].then /\ net'[s].at = "ok"
      BY <1>0, <1>4, <1>e, <2>2, AloneResponded, Zenon
    <3>2. Pending(s)'
      BY <1>2, <1>a, <2>1, <3>1, Zenon DEF Pending, ChangePending
    <3> QED
      BY <1>6, <3>1, <3>2, PathBusy
  <2>3. CASE Respond(s, "failed", {}) /\ UNCHANGED entries
    <3>1. Alone(s)' /\ net'[s].op = net[s].op /\ net'[s].then = net[s].then
      BY <1>0, <1>4, <1>e, <2>3, AloneResponded, Zenon
    <3>2. Fresh'
      BY <1>2, <1>a, <2>1, <2>3, Zenon DEF Fresh
    <3>3. Pending(s)'
      BY <1>2, <1>a, <2>1, <3>1, <3>2, Zenon DEF Pending, ChangePending
    <3> QED
      BY <1>6, <3>1, <3>3, PathBusy
  <2> QED
    BY <1>a, <2>2, <2>3
<1>b. CASE Creates(s)
  <2>1. "lookup" \notin {"fileCreate", "dirCreate"} /\ "upload" \notin {"fileCreate", "dirCreate"}
    OBVIOUS
  <2> QED
    BY <1>a, <1>b, <2>1, Zenon DEF Creates, count
<1>d. CASE UploadBegins(s) \/ UploadEnds(s)
  <2>1. net[s].op = "upload"
    BY <1>d, Zenon DEF UploadBegins, UploadEnds
  <2> QED
    BY <1>u, <2>1, ServeResponds, Zenon
<1>c. CASE Deletes(s)
  <2>1. "lookup" \notin {"fileDelete", "dirDelete"} /\ "upload" \notin {"fileDelete", "dirDelete"}
    OBVIOUS
  <2>2. net[s].op # "lookup" /\ net[s].op # "upload" /\ net[s].at = "sent" /\ UNCHANGED changed
    BY <1>c, <2>1, Zenon DEF Deletes, count
  <2>3. CASE Gone(net[s].op, net[s].id) = {}
    <3>1. Respond(s, "failed", {}) /\ entries' = entries \ {}
      BY <1>c, <2>3, Zenon DEF Deletes
    <3> QED
      BY <1>a, <2>2, <3>1, Zenon
  <2>4. CASE Gone(net[s].op, net[s].id) # {}
    BY <1>a, <1>c, <2>2, <2>4, Zenon DEF Deletes
  <2> QED
    BY <2>3, <2>4
<1> QED
  BY <1>7, <1>8, <1>9, <1>b, <1>c, <1>d, Zenon DEF Serve

\* Others may change what is listed, but not its place.
LEMMA PathOthers == TypeOK /\ IdInv /\ PathInv /\ (OthersChange \/ LeftActs) => PathInv'
<1> SUFFICES ASSUME TypeOK, IdInv, PathInv, OthersChange \/ LeftActs, ~trouble', menu'
             PROVE  PathInv'
  BY Zenon DEF PathInv
<1>1. changed' /\ UNCHANGED <<collector, stack, crumb, shown, menu, shownOf, net, trouble>>
  BY Zenon DEF OthersChange, LeftActs, page
<1>2. Here' = Here /\ \A s \in Slot : Busy(s)' = Busy(s)
  BY <1>1, Zenon DEF Here, Busy
<1>3. Rooted /\ (Quiet => Settled) /\ \A s \in Slot : Busy(s) => Alone(s) /\ Pending(s)
  BY <1>1, Zenon DEF PathInv
<1>4. Rooted'
  BY <1>1, <1>3, OutsideGrows, RootedKept
<1>5. Fresh' /\ (Settled => Settled')
  BY <1>1, <1>2, Zenon DEF Fresh, Settled
<1>6. \A s \in Slot : (Pending(s) => Pending(s)') /\ (Alone(s) => Alone(s)')
  BY <1>1, <1>2, <1>5, Zenon DEF Pending, LookupPending, ChangePending, Alone
<1>7. Quiet' => Quiet
  BY <1>2, Zenon DEF Quiet
<1> QED
  BY <1>2, <1>3, <1>4, <1>5, <1>6, <1>7, Zenon DEF PathInv

\* A handler that visits the top of the stack leaves the path as it should be.
LEMMA PathVisits ==
  ASSUME NetType, NEW s \in Slot, Alone(s), NEW dir \in Nat, Visit(s, dir), Rooted', dir = Here'
  PROVE  PathInv'
<1>1. Lookup(dir) \in Request /\ Lookup(dir).op = "lookup" /\ Lookup(dir).id = dir
      /\ Lookup(dir).at = "sent"
  BY LookupType
<1>2. net'[s] = Lookup(dir) /\ \A q \in Slot \ {s} : net'[q] = net[q]
  BY <1>1, TurnSlot, Zenon DEF NetType, Visit
<1>3. Alone(s)' /\ Pending(s)'
  BY <1>1, <1>2, Zenon DEF Alone, Busy, Pending, LookupPending
<1> QED
  BY <1>3, PathBusy

\* So does one that ends on a page that is settled.
LEMMA PathEnds ==
  ASSUME NetType, NEW s \in Slot, Alone(s), Done(s), Rooted', Settled', Fresh'
  PROVE  PathInv'
<1>1. Idle \in Request /\ Idle.at = "idle"
  BY LookupType DEF NULL
<1>2. net'[s] = Idle /\ \A q \in Slot \ {s} : net'[q] = net[q]
  BY <1>1, TurnSlot, Zenon DEF NetType, Done
<1>3. Quiet'
  BY <1>1, <1>2, Zenon DEF Alone, Busy, Quiet
<1> QED
  BY <1>3, PathQuiet

\* An answer is rendered, and the next request that it asks for is as it should be.
LEMMA PathAnswered ==
  \A s \in Slot : TypeOK /\ IdInv /\ MenuInv /\ PathInv /\ Answered(s) => PathInv'
<1> SUFFICES ASSUME NEW s \in Slot, TypeOK, IdInv, MenuInv, PathInv, Answered(s), ~trouble', menu'
             PROVE  PathInv'
  BY Zenon DEF PathInv
<1>0. NetType
  BY TypeParts
<1>1. Busy(s)
  BY Zenon DEF Answered, RootsAnswered, LookupAnswered, ChangeAnswered, FormAnswered, Busy
<1>2. CASE net[s].op = "roots"
  <2>1. ~menu /\ Alone(s)
    BY <1>1, <1>2, Zenon DEF MenuInv, NoMenu, Alone
  <2>2. RootsAnswered(s)
    BY <1>2, Zenon DEF Answered, LookupAnswered, ChangeAnswered, FormAnswered
  <2>3. stack' = <<Root>> /\ Visit(s, Root)
    BY <2>1, <2>2, Zenon DEF RootsAnswered
  <2>4. Rooted' /\ Here' = Root /\ Root \in Nat
    BY <2>3, RootedAtRoot, RootAssumption
  <2> QED
    BY <1>0, <2>1, <2>3, <2>4, PathVisits, Zenon
<1>3. CASE net[s].op # "roots"
  <2>1. menu
    BY <1>1, <1>3, Zenon DEF MenuInv, NoMenu
  <2>2. LookupAnswered(s) \/ ChangeAnswered(s) \/ FormAnswered(s)
    BY <1>3, Zenon DEF Answered, RootsAnswered
  <2>3. UNCHANGED <<stack, entries, changed>> /\ ~trouble
    <3>1. UNCHANGED server /\ UNCHANGED count /\ UNCHANGED stack
      BY <2>2, Zenon DEF LookupAnswered, ChangeAnswered, FormAnswered, page
    <3>2. trouble' = TRUE \/ UNCHANGED trouble
      BY <2>2, Zenon DEF LookupAnswered, ChangeAnswered, FormAnswered
    <3>3. ~trouble
      BY <3>2, Zenon
    <3>4. entries' = entries /\ changed' = changed /\ stack' = stack
      BY <3>1, Zenon DEF server, count
    <3> QED
      BY <3>3, <3>4, Zenon
  <2>4. Rooted /\ Alone(s) /\ Pending(s)
    BY <1>1, <2>1, <2>3, Zenon DEF PathInv
  <2>5. Rooted' /\ Here' = Here
    <3>1. Grows
      BY AnsweredGrows
    <3> QED
      BY <2>3, <2>4, <3>1, RootedKept, Zenon DEF Here
  <2>6. CASE LookupAnswered(s)
    <3>1. /\ net[s].op = "lookup" /\ net[s].at = "ok" /\ Done(s)
          /\ crumb' = stack /\ shown' = net[s].data /\ shownOf' = net[s].id
      BY <2>6, Zenon DEF LookupAnswered
    <3>2. LookupPending(s)
      BY <2>4, <3>1, Zenon DEF Pending
    <3>3. Settled'
      BY <2>3, <2>5, <3>1, <3>2, Zenon DEF Settled, LookupPending
    <3>4. Fresh'
      BY <2>3, <3>1, <3>2, Zenon DEF Fresh, LookupPending
    <3> QED
      BY <1>0, <2>4, <2>5, <3>1, <3>3, <3>4, PathEnds
  <2>a. ASSUME UNCHANGED <<crumb, shown, shownOf>>, net[s].op # "lookup",
               net[s].op # "upload", net[s].at # "ok", Done(s)
        PROVE  PathInv'
    <3>1. Settled /\ Fresh
      BY <2>4, <2>a, Zenon DEF Pending, ChangePending
    <3>2. Settled' /\ Fresh'
      BY <2>3, <2>5, <2>a, <3>1, Zenon DEF Settled, Fresh
    <3> QED
      BY <1>0, <2>4, <2>5, <2>a, <3>2, PathEnds
  <2>7. CASE ChangeAnswered(s)
    <3>1. UNCHANGED <<crumb, shown, shownOf>> /\ net[s].op # "lookup"
      BY <2>7, Zenon DEF ChangeAnswered, page
    <3>2. net[s].then = Here /\ net[s].then \in Nat
      <4>1. net[s].op \in {"fileDelete", "dirDelete", "upload"}
        BY <2>7, Zenon DEF ChangeAnswered
      <4>2. net[s].then = Here
        BY <2>4, <3>1, <4>1, Zenon DEF Pending, ChangePending
      <4> QED
        BY <1>0, <4>2, Fields, Zenon DEF NetType
    <3>3. CASE Visit(s, net[s].then)
      BY <1>0, <2>4, <2>5, <3>2, <3>3, PathVisits
    <3>4. CASE net[s].at = "failed" /\ net[s].op # "upload" /\ Done(s)
      BY <2>a, <3>1, <3>4, Zenon
    <3> QED
      BY <2>7, <3>3, <3>4, Zenon DEF ChangeAnswered
  <2>8. CASE FormAnswered(s)
    <3>1. UNCHANGED <<crumb, shown, shownOf>> /\ net[s].op # "lookup"
      BY <2>8, Zenon DEF FormAnswered, RenderingStays
    <3>2. stack # <<>>
      BY <2>4, Zenon DEF Rooted
    <3>3. CASE Visit(s, Here)
      <4>1. Here \in Nat
        BY <3>2, StackFacts, Zenon DEF TypeOK, Here
      <4> QED
        BY <1>0, <2>4, <2>5, <3>3, <4>1, PathVisits
    <3>4. CASE net[s].at = "failed" /\ Done(s)
      <4>1. net[s].op # "upload"
        BY <2>8, Zenon DEF FormAnswered
      <4> QED
        BY <2>a, <3>1, <3>4, <4>1, Zenon
    <3> QED
      BY <2>8, <3>2, <3>3, <3>4, Zenon DEF FormAnswered
  <2> QED
    BY <2>2, <2>6, <2>7, <2>8
<1> QED
  BY <1>2, <1>3

\* Every step leaves the path as it should be.
LEMMA PathStep == TypeOK /\ IdInv /\ MenuInv /\ PathInv /\ [Next]_vars => PathInv'
<1> SUFFICES ASSUME TypeOK, IdInv, MenuInv, PathInv, [Next]_vars
             PROVE  PathInv'
  OBVIOUS
<1>1. ASSUME NEW s \in Slot, Lose(s)
      PROVE  PathInv'
  BY <1>1, Zenon DEF Lose, PathInv
<1>2. CASE UNCHANGED vars
  <2>1. UNCHANGED server /\ UNCHANGED page /\ UNCHANGED net /\ UNCHANGED trouble /\ UNCHANGED count
    BY <1>2, Zenon DEF vars
  <2>2. UNCHANGED <<entries, collector, stack, crumb, shown, menu, shownOf>>
    BY <2>1, Zenon DEF server, page
  <2>3. UNCHANGED <<net, trouble, changed>>
    BY <2>1, Zenon DEF count
  <2> QED
    BY <2>2, <2>3, PathSame, Zenon
<1> QED
  BY <1>1, <1>2, PathUser, PathServe, PathOthers, PathAnswered, Zenon DEF Next

\* The invariant of the four parts.
LEMMA PathInvariant == Spec => [](TypeOK /\ IdInv /\ MenuInv /\ PathInv)
<1>1. Init => TypeOK /\ IdInv /\ MenuInv /\ PathInv
  BY TypeInit, IdInit, MenuInit, PathInit
<1>2. TypeOK /\ IdInv /\ MenuInv /\ PathInv /\ [Next]_vars => (TypeOK /\ IdInv /\ MenuInv /\ PathInv)'
  BY TypeStep, IdStep, MenuStep, PathStep
<1> QED
  BY <1>1, <1>2, PTL DEF Spec

\* For a user who waits for each answer the stack is a path of the tree from the
\* root, and the breadcrumb and the listing are those of its top (visitDirectory,
\* and the handlers that change navigationStack in dashboard.js).
THEOREM PathCorrect == Spec => []PathShown
<1>1. TypeOK /\ IdInv /\ MenuInv /\ PathInv => PathShown
  <2> SUFFICES ASSUME TypeOK, PathInv, Quiet, menu, ~trouble
               PROVE  /\ stack # <<>> /\ crumb = stack
                      /\ Head(stack) = Root /\ Here = shownOf
                      /\ \A i \in 1..(Len(stack) - 1) : \A e \in entries :
                           e.id = stack[i + 1] => e.directory /\ e.parent = stack[i]
    BY Zenon DEF PathShown
  <2>1. Rooted /\ Settled
    BY Zenon DEF PathInv
  <2>2. Head(stack) = stack[1]
    BY <2>1, SMT DEF TypeOK, Rooted
  <2>3. entries \subseteq Known
    BY Zenon DEF Known
  <2> QED
    BY <2>1, <2>2, <2>3, Zenon DEF Rooted, Settled
<1> QED
  BY <1>1, PathInvariant, PTL

\* For that user, and unless others changed it since, the entries on the page are
\* those of the directory (BackendDirInfo and renderDirectoryEntries).
THEOREM ShowsCorrect == Spec => []ShowsWhatIs
<1>1. TypeOK /\ IdInv /\ MenuInv /\ PathInv => ShowsWhatIs
  BY Zenon DEF PathInv, Fresh, ShowsWhatIs
<1> QED
  BY <1>1, PathInvariant, PTL

=============================================================================
