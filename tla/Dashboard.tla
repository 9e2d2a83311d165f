------------------------------ MODULE Dashboard ------------------------------
(***************************************************************************)
(* The page of the web client that shows the files (dashboard.js), with    *)
(* the requests it has under way (backend.js) and the server's side of     *)
(* them: a change of the tree in one step, as AtomicEndpoint has it, but   *)
(* an upload from the entry it creates to the last of its data.            *)
(*                                                                         *)
(* JavaScript runs one callback at a time, but every `await' lets the user *)
(* and other answers in: the page keeps one navigationStack for all of     *)
(* them, and an answer is rendered whenever it comes.  Directories are     *)
(* named by their uid.  Of the roots, whose trees are apart, there is one. *)
(* An event handler that throws before it has changed anything is no       *)
(* action.                                                                 *)
(***************************************************************************)
EXTENDS VirtualFilesystem, FiniteSets, Sequences

CONSTANTS
  StartTree,  \* what earlier requests have left in the tree
  StartUID,   \* the first uid they left free
  MaxUID,     \* bound: the largest uid handed out
  MaxRequest, \* bound: how many requests the page has under way
  MaxDepth,   \* bound: how deep the user goes
  MaxMishap   \* bound: acts in haste, reloads, losses of the network, failing
              \* uploads, and changes of others

ASSUME TreeAssumption ==
  /\ StartTree \subseteq Entry
  /\ \A e, f \in StartTree : e.id = f.id => e = f
  /\ \A e \in StartTree : e.id < StartUID
ASSUME BoundsAssumption ==
  /\ {StartUID, MaxUID, MaxRequest, MaxDepth, MaxMishap} \subseteq Nat
  /\ Root < StartUID

VARIABLES
  entries,    \* server: the tree
  nextUID,    \* server: the next uid
  collector,  \* server: the listing the lookups of one thread share
  left,       \* server: what it may still do that no request awaits
  stack,      \* navigationStack
  crumb,      \* what the rendered breadcrumb shows of it
  shown,      \* the entries that are rendered
  menu,       \* is the side menu rendered?
  modal,      \* is the form for a new file or folder open?
  net,        \* net[s]: the s-th request of the page
  \* history, which no step depends on
  shownOf,    \* the directory the last listing was asked of
  missed,     \* did the last lookup that came back fail?
  trouble,    \* haste or a failure since the page was last set to a root
  changed,    \* did anything but the page's requests change the tree since the
              \* last lookup was served?
  mishaps     \* how many of those that MaxMishap bounds

server == <<entries, nextUID, collector, left>>
page   == <<stack, crumb, shown, menu, modal, shownOf, missed>>
count  == <<changed, mishaps>>
vars   == <<server, page, net, trouble, count>>

Slot == 1..MaxRequest

ChangeOp == {"fileCreate", "dirCreate", "fileDelete", "dirDelete", "upload"}
Op       == ChangeOp \union {"roots", "lookup"}

\* What is left of a request that the page has given up: its act, or the revert
\* of the file that an upload has created, which carries that file's uid.
Leftover == [op : ChangeOp \union {"revert"}, id : Nat, name : Name]

\* `then' is the directory that a handler has read from the stack before its
\* await, to visit it after.
Request == [op : Op, id : Nat, name : Name, then : Nat,
            at : {"idle", "sent", "begun", "ok", "failed"}, data : SUBSET Entry]

Fetch(op, id, name, then) ==
  [op |-> op, id |-> id, name |-> name, then |-> then, at |-> "sent", data |-> {}]

Lookup(dir) == Fetch("lookup", dir, TestFile, NULL)
Roots       == Fetch("roots", NULL, TestFile, NULL)
Idle        == [Roots EXCEPT !.at = "idle"]

Busy(s)  == net[s].at # "idle"
Quiet    == \A s \in Slot : ~Busy(s)
Here     == stack[Len(stack)]    \* navigationStack[navigationStack.length - 1].fid

Creation == {"fileCreate", "dirCreate", "upload"}
UIDsLeft ==
  nextUID + Cardinality({s \in Slot : net[s].op \in Creation /\ net[s].at = "sent"}) <= MaxUID

\* A request leaves in the first slot that is free.
Send(r) ==
  \E s \in Slot :
    /\ ~Busy(s)
    /\ \A q \in 1..(s - 1) : Busy(q)
    /\ net' = [net EXCEPT ![s] = r]

-----------------------------------------------------------------------------
(* The page is loaded: initializeFileSystemUI asks for the roots.          *)

PageInit ==
  /\ stack = <<>> /\ crumb = <<>> /\ shown = {}
  /\ menu = FALSE /\ modal = FALSE
  /\ shownOf = NULL /\ missed = FALSE /\ trouble = FALSE

Init ==
  /\ entries = StartTree /\ nextUID = StartUID /\ collector = {} /\ left = {}
  /\ PageInit
  /\ net = [s \in Slot |-> IF s = 1 THEN Roots ELSE Idle]
  /\ changed = FALSE /\ mishaps = 0

Mishap == mishaps < MaxMishap /\ mishaps' = mishaps + 1

\* An upload that does not come to its end takes back the file it has created,
\* at some time, when its handler goes: ~WriteFileTransaction.
Reverts(s) == {[op |-> "revert", id |-> e.id, name |-> e.name] : e \in net[s].data}

\* A request that the page gives up may reach the server all the same.  (One that
\* only looks does not.)
Remains(s) ==
  LET r == net[s]
  IN  CASE r.op \in ChangeOp /\ r.at = "sent" -> {[op |-> r.op, id |-> r.id, name |-> r.name]}
        [] r.op = "upload" /\ r.at = "begun"   -> Reverts(s)
        [] OTHER                               -> {}

\* The user loads the page again: what was under way is answered to nobody.
Reload ==
  /\ Mishap
  /\ stack' = <<>> /\ crumb' = <<>> /\ shown' = {}
  /\ menu' = FALSE /\ modal' = FALSE
  /\ shownOf' = NULL /\ missed' = FALSE /\ trouble' = FALSE
  /\ net' = [s \in Slot |-> IF s = 1 THEN Roots ELSE Idle]
  /\ left' = left \union UNION {Remains(s) : s \in Slot}
  /\ UNCHANGED <<entries, nextUID, collector, changed>>

-----------------------------------------------------------------------------
(* What the user does.  The open form covers what only a pointer reaches:  *)
(* the side menu, the breadcrumb and the entries; buttons take a key.      *)

RenderingStays == UNCHANGED <<crumb, shown, menu, shownOf, missed>>

\* Acting while something is under way is the haste that properties exclude.
Haste == IF Quiet THEN UNCHANGED mishaps ELSE Mishap

Acts == Haste /\ trouble' = (trouble \/ ~Quiet) /\ UNCHANGED <<server, changed>>

ClickRoot ==
  /\ menu /\ ~modal
  /\ stack' = <<Root>>
  /\ Send(Lookup(Root))
  /\ Haste /\ trouble' = ~Quiet
  /\ UNCHANGED <<server, changed, modal>> /\ RenderingStays

\* An entry that is rendered; a file only brings up its name.
ClickDir_Replaces(e) ==
  /\ ~modal
  /\ e \in shown /\ e.directory
  /\ Len(stack) < MaxDepth
  /\ stack' = Append(SubSeq(stack, 1, Len(stack) - 1), e.id)
  /\ Send(Lookup(e.id))
  /\ Acts
  /\ UNCHANGED modal /\ RenderingStays

ClickDir(e) ==
  /\ ~modal
  /\ e \in shown /\ e.directory
  /\ Len(stack) < MaxDepth
  /\ stack' = Append(stack, e.id)
  /\ Send(Lookup(e.id))
  /\ Acts
  /\ UNCHANGED modal /\ RenderingStays

\* The button is there when the breadcrumb was rendered with two entries.  A
\* second click before it is rendered anew may take the last one: then there
\* is nothing to visit, and the handler throws after its pop.
ClickUp ==
  /\ Len(crumb) > 1
  /\ Len(stack) > 0
  /\ stack' = SubSeq(stack, 1, Len(stack) - 1)
  /\ IF Len(stack) > 1 THEN Send(Lookup(stack[Len(stack) - 1])) ELSE UNCHANGED net
  /\ Acts
  /\ UNCHANGED modal /\ RenderingStays

\* slice(0, index + 1) of the stack as it is, the visit of the entry that was
\* rendered.
ClickCrumb(i) ==
  /\ ~modal
  /\ i \in 1..Len(crumb)
  /\ stack' = SubSeq(stack, 1, IF i <= Len(stack) THEN i ELSE Len(stack))
  /\ Send(Lookup(crumb[i]))
  /\ Acts
  /\ UNCHANGED modal /\ RenderingStays

ClickDelete(e) ==
  /\ e \in shown
  /\ stack # <<>>
  /\ Send(Fetch(IF e.directory THEN "dirDelete" ELSE "fileDelete", e.id, e.name, Here))
  /\ Acts
  /\ UNCHANGED <<stack, modal>> /\ RenderingStays

ToggleModal ==
  /\ modal' = ~modal
  /\ UNCHANGED <<server, count, trouble, net, stack>> /\ RenderingStays

\* handleAddFileFormSubmit: into the directory at the top of the stack.
SubmitForm(op, name) ==
  /\ modal
  /\ stack # <<>> /\ UIDsLeft
  /\ Send(Fetch(op, Here, name, NULL))
  /\ Acts
  /\ UNCHANGED <<stack, modal>> /\ RenderingStays

Upload(name) ==
  /\ stack # <<>> /\ UIDsLeft
  /\ Send(Fetch("upload", Here, name, Here))
  /\ Acts
  /\ UNCHANGED <<stack, modal>> /\ RenderingStays

User ==
  \/ ClickRoot \/ ClickUp \/ ToggleModal \/ Reload
  \/ \E e \in shown : ClickDir(e) \/ ClickDelete(e)
  \/ \E i \in 1..Len(crumb) : ClickCrumb(i)
  \/ \E name \in Name :
       Upload(name) \/ \E op \in {"fileCreate", "dirCreate"} : SubmitForm(op, name)

-----------------------------------------------------------------------------
(* The server.  A lookup is two events of its thread: the handler clears   *)
(* the thread's collector, and the body of the request fills and sends it. *)

Respond(s, at, data) == net' = [net EXCEPT ![s].at = at, ![s].data = data]

ServeRoots(s) ==
  /\ net[s].op = "roots" /\ net[s].at = "sent"
  /\ Respond(s, "ok", {})
  /\ UNCHANGED <<server, page, trouble, count>>

LookupBegin_Keeps(s) ==
  /\ net[s].op = "lookup" /\ net[s].at = "sent"
  /\ Respond(s, "begun", {})
  /\ UNCHANGED <<server, page, trouble, count>>

LookupBegin(s) ==
  /\ net[s].op = "lookup" /\ net[s].at = "sent"
  /\ collector' = {}
  /\ Respond(s, "begun", {})
  /\ UNCHANGED <<entries, nextUID, left, page, trouble, count>>

LookupData(s) ==
  /\ net[s].op = "lookup" /\ net[s].at = "begun"
  /\ IF findDir(entries, net[s].id) # NULL
       THEN /\ collector' = collector \union collectEntries(entries, net[s].id)
            /\ Respond(s, "ok", collector')
       ELSE Respond(s, "failed", {}) /\ UNCHANGED collector
  /\ changed' = FALSE
  /\ UNCHANGED <<entries, nextUID, left, page, trouble, mishaps>>

\* Creations, of files also those of uploads, of a valid name that the directory
\* does not have yet.
MayCreate(op, dir, name) ==
  /\ name \in ValidName
  /\ findDir(entries, dir) # NULL
  /\ ~(IF op = "dirCreate" THEN dirNameExists(entries, dir, name)
                           ELSE fileNameExists(entries, dir, name))

Create(op, dir, name) ==
  /\ entries' = IF op = "dirCreate" THEN dirAdd(entries, dir, name, nextUID)
                                    ELSE fileAdd(entries, dir, name, nextUID)
  /\ nextUID' = nextUID + 1

Creates(s) ==
  LET r == net[s]
  IN  /\ r.op \in {"fileCreate", "dirCreate"}
      /\ r.at = "sent"
      /\ \/ /\ MayCreate(r.op, r.id, r.name)
            /\ Create(r.op, r.id, r.name)
            /\ Respond(s, "ok", {})
         \/ /\ ~MayCreate(r.op, r.id, r.name)
            /\ Respond(s, "failed", {})
            /\ UNCHANGED <<entries, nextUID>>
      /\ UNCHANGED <<collector, left, page, trouble, count>>

\* An upload creates its file when it begins ...
UploadBegins(s) ==
  LET r == net[s]
  IN  /\ r.op = "upload"
      /\ r.at = "sent"
      /\ \/ /\ MayCreate(r.op, r.id, r.name)
            /\ Create(r.op, r.id, r.name)
            /\ Respond(s, "begun", {File(nextUID, r.id, r.name)})
         \/ /\ ~MayCreate(r.op, r.id, r.name)
            /\ Respond(s, "failed", {})
            /\ UNCHANGED <<entries, nextUID>>
      /\ UNCHANGED <<collector, left, page, trouble, count>>

\* ... and is committed with its last chunk; when it cannot start, or a chunk
\* fails, that is answered at once, while the file is still there.
UploadEnds(s) ==
  /\ net[s].op = "upload" /\ net[s].at = "begun"
  /\ \/ Respond(s, "ok", {}) /\ UNCHANGED <<left, mishaps>>
     \/ Mishap /\ Respond(s, "failed", {}) /\ left' = left \union Reverts(s)
  /\ UNCHANGED <<entries, nextUID, collector, page, trouble, changed>>

\* What a deletion takes out of the tree.
Gone(op, id) ==
  LET dir == findContainingDir(entries, id)
  IN  IF op = "dirDelete" THEN dirDelete(entries, dir, id) ELSE fileDelete(entries, dir, id)

Deletes(s) ==
  LET gone == Gone(net[s].op, net[s].id)
  IN  /\ net[s].op \in {"fileDelete", "dirDelete"}
      /\ net[s].at = "sent"
      /\ entries' = entries \ gone
      /\ Respond(s, IF gone = {} THEN "failed" ELSE "ok", {})
      /\ UNCHANGED <<nextUID, collector, left, page, trouble, count>>

Serve(s) ==
  \/ ServeRoots(s) \/ LookupBegin(s) \/ LookupData(s)
  \/ Creates(s) \/ UploadBegins(s) \/ UploadEnds(s) \/ Deletes(s)

\* Another client deletes or adds a directory.
OthersChange ==
  /\ Mishap
  /\ \/ \E e \in entries :
          /\ Gone("dirDelete", e.id) # {}
          /\ entries' = entries \ Gone("dirDelete", e.id)
          /\ UNCHANGED nextUID
     \/ \E name \in ValidName :
          /\ UIDsLeft
          /\ ~dirNameExists(entries, Root, name)
          /\ entries' = dirAdd(entries, Root, name, nextUID)
          /\ nextUID' = nextUID + 1
  /\ changed' = TRUE
  /\ UNCHANGED <<collector, left, page, net, trouble>>

\* The server does what nobody awaits any more, in any order, or never.
LeftCreates(r) ==
  /\ r.op \in Creation
  /\ MayCreate(r.op, r.id, r.name)
  /\ UIDsLeft
  /\ Create(r.op, r.id, r.name)
  /\ left' = (left \ {r}) \union
       IF r.op = "upload" THEN {[op |-> "revert", id |-> nextUID, name |-> r.name]} ELSE {}

LeftDeletes(r) ==
  LET op == IF r.op = "dirDelete" THEN "dirDelete" ELSE "fileDelete"
  IN  /\ r.op \in {"fileDelete", "dirDelete", "revert"}
      /\ entries' = entries \ Gone(op, r.id)
      /\ left' = left \ {r}
      /\ UNCHANGED nextUID

LeftActs ==
  /\ \E r \in left : LeftCreates(r) \/ LeftDeletes(r)
  /\ changed' = TRUE
  /\ UNCHANGED <<collector, page, net, trouble, mishaps>>

\* The network loses a request, or the answer to it: fetch throws.
Lose(s) ==
  /\ Mishap
  /\ net[s].at \in {"sent", "begun", "ok"}
  /\ trouble' = TRUE
  /\ Respond(s, "failed", {})
  /\ left' = left \union Remains(s)
  /\ UNCHANGED <<entries, nextUID, collector, page, changed>>

-----------------------------------------------------------------------------
(* An answer reaches the page, in whatever order.                          *)

Done(s)       == net' = [net EXCEPT ![s] = Idle]
Visit(s, dir) == net' = [net EXCEPT ![s] = Lookup(dir)]

\* renderSideMenu, and the first root is visited.
RootsAnswered(s) ==
  /\ net[s].op = "roots"
  /\ \/ /\ net[s].at = "ok"
        /\ menu' = TRUE
        /\ stack' = <<Root>>
        /\ Visit(s, Root)
     \/ net[s].at = "failed" /\ Done(s) /\ UNCHANGED <<menu, stack>>
  /\ UNCHANGED <<server, count, trouble, modal, crumb, shown, shownOf, missed>>

LookupAnswered_ContentsOnly(s) ==
  /\ net[s].op = "lookup"
  /\ \/ /\ net[s].at = "ok"
        /\ shown' = net[s].data
        /\ shownOf' = net[s].id
        /\ missed' = FALSE
        /\ UNCHANGED <<crumb, trouble>>
     \/ /\ net[s].at = "failed"
        /\ missed' = TRUE
        /\ trouble' = TRUE
        /\ UNCHANGED <<crumb, shown, shownOf>>
  /\ Done(s)
  /\ UNCHANGED <<server, count, stack, menu, modal>>

\* visitDirectory after its await: the breadcrumb is rendered from the stack as
\* it is now, the contents from the answer.
LookupAnswered(s) ==
  /\ net[s].op = "lookup"
  /\ \/ /\ net[s].at = "ok"
        /\ crumb' = stack
        /\ shown' = net[s].data
        /\ shownOf' = net[s].id
        /\ missed' = FALSE
        /\ UNCHANGED trouble
     \/ /\ net[s].at = "failed"
        /\ missed' = TRUE
        /\ trouble' = TRUE
        /\ UNCHANGED <<crumb, shown, shownOf>>
  /\ Done(s)
  /\ UNCHANGED <<server, count, stack, menu, modal>>

ChangeAnswered_Retries(s) ==
  /\ net[s].op \in {"fileDelete", "dirDelete", "upload"}
  /\ \/ /\ net[s].at = "ok" \/ (net[s].at = "failed" /\ net[s].op = "upload")
        /\ Visit(s, net[s].then)
     \/ net[s].at = "failed" /\ net[s].op # "upload" /\ Respond(s, "sent", {})
  /\ UNCHANGED <<server, page, trouble, count>>

\* A failed deletion throws out of its handler; a failed upload is caught in
\* BackendFileUpload, so its directory is visited all the same.
ChangeAnswered(s) ==
  /\ net[s].op \in {"fileDelete", "dirDelete", "upload"}
  /\ \/ /\ net[s].at = "ok" \/ (net[s].at = "failed" /\ net[s].op = "upload")
        /\ Visit(s, net[s].then)
     \/ net[s].at = "failed" /\ net[s].op # "upload" /\ Done(s)
  /\ UNCHANGED <<server, page, trouble, count>>

FormAnswered(s) ==
  /\ net[s].op \in {"fileCreate", "dirCreate"}
  /\ \/ /\ net[s].at = "ok"
        /\ modal' = FALSE
        /\ IF stack # <<>> THEN Visit(s, Here) ELSE Done(s)
     \/ net[s].at = "failed" /\ Done(s) /\ UNCHANGED modal
  /\ UNCHANGED <<server, count, trouble, stack>> /\ RenderingStays

Answered(s) ==
  RootsAnswered(s) \/ LookupAnswered(s) \/ ChangeAnswered(s) \/ FormAnswered(s)

Next ==
  \/ User
  \/ OthersChange \/ LeftActs
  \/ \E s \in Slot : Serve(s) \/ Lose(s) \/ Answered(s)

Spec == Init /\ [][Next]_vars

\* The server and the browser get on with every request; the user need not.
FairSpec == Spec /\ \A s \in Slot : WF_vars(Serve(s)) /\ WF_vars(Answered(s))

-----------------------------------------------------------------------------
(* What the page should be.                                                *)

\* Every variable has its type.
TypeOK ==
  /\ entries \subseteq Entry /\ nextUID \in Nat /\ collector \subseteq Entry
  /\ left \subseteq Leftover
  /\ stack \in Seq(Nat) /\ crumb \in Seq(Nat) /\ shown \subseteq Entry
  /\ menu \in BOOLEAN /\ modal \in BOOLEAN
  /\ net \in [Slot -> Request]
  /\ shownOf \in Nat /\ missed \in BOOLEAN /\ trouble \in BOOLEAN
  /\ changed \in BOOLEAN /\ mishaps \in Nat

\* Whatever the user clicks while answers are under way, and in whatever order
\* they come: a breadcrumb that is not the navigation stack is about to be
\* rendered anew (visitDirectory), unless the last lookup failed, or the stack
\* was emptied by a second click on Up.
CrumbSettles ==
  stack # <<>> /\ crumb # stack =>
    missed \/ \E s \in Slot : Busy(s) /\ net[s].op = "lookup"

\* For a user who waits for each answer, and since the last failure began anew
\* at the root: the stack is a path of the tree from the root, the breadcrumb
\* shows it, and its top, where uploads and new files go, is what is listed.
PathShown ==
  Quiet /\ menu /\ ~trouble =>
    /\ stack # <<>> /\ crumb = stack
    /\ Head(stack) = Root /\ Here = shownOf
    /\ \A i \in 1..(Len(stack) - 1) : \A e \in entries :
         e.id = stack[i + 1] => e.directory /\ e.parent = stack[i]

\* For that user, and unless another client, or a request given up, changed it
\* since: the entries that are rendered are those of the directory, after each
\* of the user's own changes too, whether it succeeded or not.  The file of a
\* failed upload is listed for as long as it is there: taking it back is one
\* more change since.
ShowsWhatIs ==
  Quiet /\ menu /\ ~trouble /\ ~changed =>
    shown = collectEntries(entries, shownOf)

\* Every request, with the visit that its handler makes afterwards, ends.
Ends == \A s \in Slot : []<>~Busy(s)

=============================================================================
