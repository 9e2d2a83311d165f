# teilpunkt: models and proofs

Teilpunkt is a self-hosted file server: a C++ server (`src/src`) on uWebSockets, with a
web client (`src/frontend`). This directory holds TLA+ modules of its core, TLC runs that
check them on small instances, and proofs, checked by TLAPS, that hold for every instance.
`PROJECT.json` lists the components, runs, findings, hazards and theorems, and maps each
definition to the source lines it stands for. Paths below are relative to `src/src`; those that end in
`.js` to `src/frontend/js`.

## 1. Inventory

Two web threads (`main.cpp:60`) each run an event loop; every request is served by one of
them, so handlers run truly in parallel and share the singletons below. Worker threads of
the task manager and the main thread run beside them. Locks are spinlocks without owner,
fairness or re-entry.

| Component | State | Operations | Interacts with |
|---|---|---|---|
| Virtual filesystem (`storage/vfs`) | tree of directories and files by value; one iteration cache | find, add, delete, list; rename, resize and limits without a caller | called by the endpoint, and by write transactions without the lock |
| Storage endpoint (`storage/StorageEndpoint.cpp`) | one tree, one spinlock, one data store | create, delete, read, write, info, list | called by handlers; hands the tree and the store to transactions |
| Endpoint table (`storage/Storage.cpp`) | list of endpoints | create, get, delete, roots | hands out raw pointers |
| Data store (`storage/datastore`) | a directory with a file and a temporary file per uid; 25 read buffers | createFile, deleteFile, init/write/closeWrite, init/read/closeRead | called by transactions |
| Transactions (`storage/transactions`), upload and download handlers | handle, file, committed flag; kept alive by response callbacks | start, chunk, commit, destructor | client, store, tree |
| Authenticator (`auth`) | users; sessions by user; one spinlock | register, log in, change, remove; add, check, remove sessions | called by handlers in several critical sections per request |
| Cooperative spinlock (`datastructures/Spinlock.cpp`) | two counts, two spinlocks | coop/exclusive add and remove | nothing yet |
| Task manager (`instance/TaskManager.cpp`) | threads with their status, task list, two spinlocks | add and remove tasks and threads, stop | workers run the tasks through pointers into the list |
| Main thread (`instance/MainThread.cpp`) | start of periodic work | poll | nothing yet |
| Event limiter (`monitoring`) | tokens per address range | allowRequest | every handler, both threads |
| Web server (`server`) | threads, their apps, round robin | start, accept, stop | everything above |
| Instance configuration | typed parameters, one lock | get, set, reset | everything |
| Secure containers, block allocator, buffers, timestamps | memory | | authenticator, store |
| Dashboard page (`dashboard.js`, `backend.js`) | navigation stack; rendered breadcrumb, entries and form; requests under way | go into, up and back to a directory; create, upload, delete, reload | the endpoint, through the request handlers |
| Sign-up and login pages (`signup.js`, `login.js`, `util.js`) | fields, pop-ups, message; requests under way; the session cookie | register, show the key, ask for the code, log in, passkeys | the authenticator, through the request handlers; the QR code generator |
| QR code generator (`qrcodegen.js`) | the symbol while it is built | encodeText | the sign-up page shows the TOTP key with it |
| UAC, crypto, logging, strings, static files, placeholders, icons | | | not modelled, see section 7 |

What is hard here: `dirCreate` and the destructor of an upload's transaction enter the tree without
the lock everything else takes; transactions outlive the handler that made them and end in destructors that uWebSockets triggers; each
system call of a commit may fail or be the last one before a crash; uids start again at each
start while data files stay; logins are several critical sections; the clock ends sessions
between any two steps; workers hold pointers into a vector that grows and is compacted; the web
client runs one callback at a time but lets every click and every other answer in at each `await`;
the key of an account is told once, in one answer, through one symbol.
`PROJECT.json` lists these hazards line by line.

What makes each part correct: the tree stays one tree with unique names and each operation
is atomic; a file is stored whole or not at all, a refused upload leaves nothing, a download
delivers the whole file, buffers are never lost or shared; readers and writers keep out of
each other's way; nobody is served as a user they did not log in as, and sessions end
when, and only when, there is a reason; a task runs once, and nothing of it is left when the
manager is gone; the page shows the directory that the next upload goes into, as it is; a key is
shown, and what is shown can be read.

## 2. Modules

| Module | Models | State and actions |
|---|---|---|
| `VirtualFilesystem` | `storage/vfs` | operators on a set of entries (uid, kind, parent, name), one per C++ method |
| `AtomicEndpoint` | what `docs/implementation/Filesystem.md` promises | call, one atomic effect, return, per thread |
| `StorageEndpoint` | `StorageEndpoint.cpp`, `Spinlock` | per thread: call, lock, the search over the shared iteration cache, the effect through the found pointer, return. `dirCreate` and the revert of an upload skip the lock; `dirCreate` is split at its name check, erasures are split into test and erasure where another thread can come in between |
| `LocalFileSystem` | `LocalFileSystem.cpp`, `Buffer.h` | the target and temporary file of each uid, open handles, taken buffers; each call succeeds or fails |
| `FileTransaction` | the transactions, `FileUploadEndpoint`, `FileDownloadEndpoint`, deletion, restart | per connection a program counter that moves one call at a time; `HangUp`, `Crash`, `Restart` |
| `CooperativeSpinlock` | `Spinlock.cpp:48-83` | one action per atomic access |
| `Authenticator` | `auth/*`, the password endpoints, `HasValidSession` | users, sessions, cookies; one action per critical section; `Tick` for the clock; each request comes from any place |
| `TaskManager` | `TaskManager.cpp`, `OneTimeTask` | the buffer of the task vector and each worker's pointer into it; one action per call or critical section of a worker, of the callers and of the destructor |
| `Dashboard` | `dashboard.js`, `backend.js`, `DirLookupEndpoint.cpp` | the stack, what is rendered, and a slot for each request under way; one action per handler up to its `await`, per step of the server, per answer. An upload is two steps of the server, the entry it creates and the end of its data. `Lose`, `Reload`, `OthersChange` and `LeftActs` for the network, the user, other clients and what the server still does of requests that the page has given up |
| `AccountPages` | `signup.js`, `login.js`, `util.js`, with the server's registrations and logins | the open page, its fields and pop-ups, the requests, the keys in the authenticator app; one action per handler, answer and step of the server |
| `QrCode` | `encodeText` of `qrcodegen.js` | the state of the constructor; one action per version tried, pass over the symbol, pair of columns, mask |
| `*Proofs` | | theorems of section 5 |
| `MC*` | | constants, symmetry and view of the runs |

`FileTransaction` extends `VirtualFilesystem` and `LocalFileSystem`; `StorageEndpoint`
instantiates `AtomicEndpoint` on its own state, with a `stage` computed from the program
counters, so that the refinement is a property of a run and a theorem. `Dashboard` extends
`VirtualFilesystem` too: each call its requests make on the endpoint takes effect on the tree in one step, which
is what the refinement of `AtomicEndpoint` allows as long as nothing without the lock is overlapped.

Some abstractions carry weight:

- A directory in C++ holds its children by value. The set of entries is the tree reachable
  from the root, and an erased directory takes what is below it along (`Subtree`).
- A pointer to a directory is a slot of its parent's vector, read when it is used (`At`). An erasure shifts the
  slots behind it, an append may take a slot again that a stale pointer names, and an append to a vector
  with at least `Reserve` elements (16 in the code) may move it: pointers into it dangle, as do pointers into a
  directory that is erased. A dangling pointer names an empty directory outside the tree, in which what is added is
  lost; that is what freed memory holds until it is used again.
- `erase_if` first tests (`DirTest`, `RevertTest`) and later cuts the vector off (`DirErase`, `RevertErase`).
  `dirCreate` may fill the directory in between, which then goes with all that it holds, or add beside it, which may be
  cut off. Two changes of one vector of files of which one is an erasure may lose any of its files
  (`Garble`). `torn` collects, as history, the directories to which something was added
  during such a meeting: two names may be equal there.
- Two searches that overlap share one iteration cache, and either may come out empty. A
  search that overlapped another search or an erasure may therefore miss its entry
  (`MissesIt`). Executions in which a race crashes the process just end in the model.
- A revert is a request of its own in `StorageEndpoint`, for any file of an upload and once for each; which upload
  fails, and when its destructor runs, is left to `FileTransaction`, where it changes the tree in one step.
- The clock is read once for the eviction of a user's sessions and again, later, for what follows (`Later`): a
  session may expire in between. That the eviction reads it for each session anew is left out.
- File contents are sequences of chunk numbers, `Whole` being all of them in order.
- The request is read after its handler returned during a login
  (`AuthPasswordEndpoint.cpp:47`), which is undefined: `sessionAdd` takes any metadata.
- Tokens are random, so never equal; hashes are compared as the values they hash. The TOTP key
  is a number that a login has to give.
- The vector of tasks is its buffer. A worker's pointer names a slot of it; when the buffer is replaced
  the pointer reads what was there (`stale`) and its writes are lost. Reading freed memory as what it
  last contained is the outcome a build produces until the memory is used again; other outcomes crash or
  corrupt and are not modelled. Nothing in the server calls the manager's interface yet, so any call may come.
- `RemoveQuiet` says that callers remove a task only while no worker has one in hand. The code does not
  see to it: without it `RunsOnce`, `DoneRan` and `StoppedClean` fail (set it to FALSE in the configuration).
- `Dashboard` has the directory that a listing was asked of (`shownOf`), whether the last lookup failed
  (`missed`), whether the user hurried or anything failed since the page was last set to a root
  (`trouble`), and whether anything but its own requests changed the tree since the last lookup (`changed`) as history: no step depends on them. Two lookups whose handlers both start before either
  body arrives share the thread's listing, as in the code. A lookup that was lost is not served any more; a change may be.
- In `AccountPages` the fields of a form are one value, `Blank` unless every one of them is accepted, and a
  code is typed digit by digit, each digit of each key's code its own value. `excused` collects the keys
  that were lost in a way the person or the network answers for.
- `QrCode` works on real numbers, because its properties are about what a reader of the symbol gets.
  `ReadsBack` decodes the modules without any of the generator's state but the tables of the standard, and
  checks each block's error correction at the roots of the generator polynomial. The library is not the
  project's own, but it is in the repository and the sign-up has no other way to hand out a key.
- A definition named `X_Y` is `X` with the mistake `Y`; it belongs to no specification and
  shows that the property in question can fail.

## 3. Runs

| Run | Instance | Shows |
|---|---|---|
| `alone` | 2 threads, one valid and one invalid name, uids to 4, room for 1 directory, all operations; nothing overlaps a `dirCreate` or a revert (274038 states) | type, refinement of `AtomicEndpoint`, every wait ends |
| `racing` | 2 threads, two names, uids to 5, room for 1 directory, creations, deletions and reverts; `dirCreate` and reverts overlap everything (1818688 states) | the lock and uids hold; names, pointers and removals do but where the meetings they name happened |
| `atomic` | as `racing`, with `dirCreate` and `fileDelete` only | **finding**: the endpoint does not refine the atomic one |
| `steady` | 2 connections, 2 names, 3 uids, 2 chunks, 1 buffer, backpressure; no fault (151284 states) | stored whole, refused leaves nothing, read whole, nobody waits for a stalled download |
| `faulty` | 2 connections, one name, 3 uids, 2 chunks, 2 buffers, 1 failing call, 1 restart, a crash anywhere | buffers, writers, no loss before the next start |
| `reverted` | as `steady` with 2 buffers and without backpressure; 1 restart, no fault | **finding**: a revert deletes the data of an earlier run |
| `lock` | 3 threads | counts, writers exclusive, some waiting writer gets in |
| `sessions` | 2 clients, each request from any of 3 places, one valid and one invalid name, 2 users one after the other, 3 tokens, 2 sessions a user, expiry after the tick, which may come inside a step (304638 states) | served only after a login from there, revoked stays revoked, the limit of sessions, one session per place, sessions end rightly |
| `tasks` | 2 workers, 1 at first, 3 tasks, 3 starts of threads; removals are quiet | runs once, the destructor leaves nothing, a dismissed worker stops |
| `browse` | the root and a directory in it, one valid and one invalid name, uids to 4, 2 requests under way, 2 mishaps (a click while something is under way, a loss, a failing upload, a reload, a change by others) (1122804 states) | the breadcrumb follows the stack, what is shown is where new files go and is what is there, every request ends |
| `accounts` | 2 names, codes of 2 digits, 2 keys, 2 requests under way, 1 mishap (a page left while something is under way, a loss) (297134 states) | keys are seen or lost for a known reason, sessions only with a scanned key, no code is left in the pop-up |
| `qrcode` | 20 texts of three charsets at the edges of versions 1 to 10, one of them too long for all 40 | the smallest version and best level, the room for every codeword, every score against the rules that its comments state, the best mask, what is read is what was encoded |

Why the bounds are enough: every hazard listed is a matter of two actors, so two threads or
connections (three for the lock, where a third thread is what could slip in between) and
as many uids as both can create, plus the file each endpoint starts with. `Reserve` is 1, so that the second
directory of a vector moves it, and a third one makes it move or stay; with 16 nothing but the number of
entries would differ. A file of two
chunks has a first and a last one that differ, and a position in between. In `faulty` all files have one name,
because its properties are about handles, buffers and files on the disk, which go by uid; the runs that are
about what a name stands for have two. Three tokens are
one more than the limit of sessions; a tick lets one session expire while another is
fresh. The second user of `sessions` comes after the first was removed, whose sessions stay, so the
sessions of two users meet. Three tasks make the buffer grow twice with a worker at work, to one, two and
four slots, and a third start of a thread is one that follows a removal. Two requests of a page are
enough for any two answers to overtake one another and for any handler to find the stack changed after its
`await`; two mishaps let a loss meet haste, and one uid is left so that a creation, an upload or another
client's directory can meet a deletion; the one valid name can be taken in the root and free in the directory. A code of two digits has a last digit and one before it. A text
that fits just so, and one that is a character longer, stand for each charset and each width of
the length field; version 7 is the first with version patterns, version 10 widens the length of bytes,
levels with short and long blocks occur, and the text that is too long runs the capacity formula against
the patterns through all forty versions. The bounds are guards of the actions that count: `UIDsLeft` and `MaxUID`, `UID`,
`MaxFaults`, `MaxRestarts`, `MaxUser`, `MaxToken`, `MaxTime`, `MaxTask`, `MaxStarts`; `MaxRequest`,
`Reserve` of the endpoint, `MaxDepth` and `MaxMishap` of the page, `MaxKey` of the account pages, `Texts` of the generator.

Deadlock is checked for the endpoint, the lock and the pages. It is not for the transactions, which
stop when the process has died for the last time, nor for the authenticator, where a thread
that is stuck on its own lock (`Authenticator.cpp:95`) or a bound stops everybody,
nor for the task manager and the QR code generator, which end.

Symmetry is used only in runs without liveness, over constants that no definition
tells apart. `View` of `faulty` leaves out what clients were told and the history
variables: no action of the module depends on them, and neither do the properties of that run. `MCView` of
`racing` leaves out the answer of a thread that is done, what it was asked unless it was a revert, and the history of
directories that are gone: nothing depends on them once the step that answers has been checked. `MCView` of
`sessions` keeps the place a request came from only while the request is served: the next one may come from
any place, and no property reads it in between.

## 4. Fairness

- `StorageEndpoint`: weak fairness of each thread's steps. A thread that has a request is
  scheduled. Taking the spinlock is a step that is not continuously enabled while others take
  it, so nothing is assumed about who gets it; `Progress` says that some thread is answered.
- `FileTransaction`: weak fairness of each handler, which runs to its end on the event loop, and of
  "a chunk arrives or the connection ends" together, because uWebSockets closes a connection
  whose body does not come. A download held by backpressure (`ReadFileTransaction.cpp:47`) is owed nothing: with
  `onWritable` installed (`FileDownloadEndpoint.cpp:67-72`) no timeout is sure to close it. `Released` says that
  everybody else comes to an end all the same, for a full pool refuses and never waits.
- `CooperativeSpinlock`: weak fairness of each thread's steps in the lock, none of its requests.
- `TaskManager`: weak fairness of each worker, of the join in `threadRemove` and of the destructor once it
  runs; tasks end. That is enough for `Dismisses`, because a worker looks at its flag between any two
  tasks. It is not enough for a task to run, or for the destructor to return: `getTask` prefers a task
  that is done to one that is not (`TaskManager.cpp:88`).
- `Dashboard`, `AccountPages`: weak fairness of the server and of the browser for each request: a request
  that is there is served, lost by the network or not, and an answer that has come is handled. The user
  and the network owe nothing. `Ends` and `KeysArrive` rest on that.
- `QrCode` runs to its end without a pause and needs no fairness.
- Where a property says that something under way ends (`Released`, `Ends`, `Dismisses`), it is written as
  `[]<>` of "nothing is under way" for each connection, slot or dismissal: what has begun cannot stay.
- `Authenticator` has no liveness property: nothing forces clients to act.

## 5. Proofs

All theorems are proved for any sets of threads, connections, clients and names and any bounds,
from the named assumptions of the modules (sizes are naturals, the marker values lie outside
the sets they mark).

| Module | Theorem | Inductive invariant and why |
|---|---|---|
| `StorageEndpointProofs` | `TypeCorrect` | `TypeOK` and `TreeInv`: uids are unique and none is still to be handed out, and every entry lies in the root or in a directory that is there, because what is erased takes along what is below it |
| | `LockCorrect` | `LockIInv`: the owner and the program counters agree, and each phase belongs to an operation that reaches it |
| | `UIDsCorrect` | part of `TreeInv` |
| | `FileNamesCorrect` | `FileNamesUnique` itself: the name is tested and the file added in one step under the lock, unless a revert erases beside it, and then the directory is `torn` |
| | `DirNamesCorrect` | `NameFree`: the name that a `dirCreate` has found free is still free when it adds the directory, or it has been told that another changed the vector |
| | `PointersCorrect` | `LiveInv`: a pointer of who holds the lock is good or some vector has outgrown its reserve. The lock keeps erasures of directories out, so slots do not shift; what is appended comes behind; only a vector that moves can take the pointer away |
| | `RemovalCorrect` | `EraseClean`: under the lock nothing but a file's own deletion or an overlapping revert takes a file, and what lies below a directory that is being erased is directories only, since adding a file needs the lock |
| | `AtomicityCorrect`, assuming `UnlockedAlone` | `AloneInv`: what runs without the lock is alone, no search is overlapped, and what was found is still there. Then each step is a stutter except the one that takes effect, which is `Create`, `Delete`, `Revert` or `Read` |
| `FileTransactionProofs` | `TypeCorrect`, `BuffersCorrect`, `WritersCorrect` | `Inv`: open handles and program counters agree (`HandlesHeld`, `NotYetOpen`), two uploads never have one uid (`FilesApart`), and a handler never gets more chunks than there are (`ChunksLeft`) |
| | `NothingLostCorrect` | before the first restart every uid is given out once, so no later upload, revert or commit touches a complete file |
| | `StoredCorrect`, `RevertCorrect`, `ReadCorrect`, assuming `NoFaults` | `SteadyInv`: what each phase of an upload has done to its files (`Progressed`), what one that is over has left (`Settled`), that a uid not given out yet has no file (`Untouched`), and that a target is empty or complete, so that what a download has sent is what it has read (`ReadInv`). Without `Untouched` createFile may fail and the revert delete another's target, as in the run `reverted` |
| `CooperativeSpinlockProofs` | `WritersCorrect` | the inner lock is set exactly when a thread is in a section it guards |
| | `CountsCorrect` | counts are cardinalities of the sets of threads past the one access and not past the other |
| `AuthenticatorProofs` | `TypeCorrect`, `RevokedCorrect`, `ServedCorrect`, `ApartCorrect`, `SessionsEndCorrect` | `TokenInv` (a token that is not drawn yet is in no session and not revoked), `GrantedInv` (the owner of every session was granted from its place), `ApartInv` (finite, at most `MaxSessions` per user) |
| `TaskManagerProofs` | `TypeCorrect` | `TypeInv`: a worker has a pointer only between taking a task and putting it down, and the thread that is awaited is the last |
| | `RunsOnceCorrect`, `DoneRanCorrect`, assuming `RemoveQuiet` | `TaskInv`: the slots in use hold different tasks (`SlotsInv`), a worker sees the task it took (`PointerInv`), a task not yet executed is flagged and in one hand (`ClaimInv`), and what was invoked is executed or running (`RunsInv`). The flag of the slot alone does not do: after the buffer was replaced a done task can look taken or free, and only the task's own flag keeps it from running again |
| | `StoppedCorrect`, assuming `RemoveQuiet` | `StopInv`: threads not joined are in the vector of threads, and a task that is done stays done |
| `DashboardProofs` | `TypeCorrect`, `CrumbCorrect` | `TypeOK` and the property itself: an answer keeps the request it belongs to |
| | `PathCorrect`, `ShowsCorrect` | `IdInv`: of all entries in the tree, in the collector, on their way and on the page, no two have one uid, and no uid on the stack is still to be handed out, so nothing new can bend the path; `MenuInv`: before the side menu there is nothing to click; `PathInv`: for a user who waits at most one request is under way, and what it finds on the stack is what its answer will find there |
| `AccountPagesProofs` | `TypeCorrect`, `CodeCorrect` | `TypeInv`: types, and a registration under way has a validated name; `CodeInv`: the digits typed are of keys in the app, and too few for a code |
| | `KeysCorrect` | `EveryKeySeen` itself, key by key (`SeenStep`), and a new account's key is in the answer to its registration (`AccountsStep`) |
| | `SessionCorrect` (whatever pages are opened) | `LoginInv`: a login is sent with a code of a scanned key or of none, and answered for an account's |
| `QrCodeProofs` | `SmallestFitCorrect`, `TooLongCorrect` | `VersionInv`: no version below the one that is tried holds the text at the level asked for, which is kept until a version is found |
| | `PenaltyBound` | the two assertions that end `getPenaltyScore`. For a line, by induction over its modules: the score is at most 30 points a module and what `Ahead` allows. A finder-like pattern has a middle run of three times its neighbours, so after one is counted the next two changes of color cannot complete another (`ChangeBound`) |
| | `BestMaskCorrect`, `FormatCorrect`, `AssertionsCorrect` | `MaskInv`: the penalties are those of the symbols that the masks make of the modules as they are now, although those change with every mask tried. That needs that a mask undoes itself and that what a symbol holds outside the format does not depend on the format drawn before (`MaskUndone`), that no two modules of the format are one (`FormatDrawn`), and, for a mask to be chosen at all, `PenaltyBound` |
| | `ScoreCorrect`, `ScoreRightCorrect` | `LineInv`, along a line: the history holds the lengths of the last runs (`Runs`), and the score is the points of all that has ended before here (`Points`). A finder-like pattern is counted at the change of color behind it, or behind its margin, and at no other (`LikeMatches`), also when runs at the border are joined with the light outside (`LineEnd`) |
| | `CapacityCorrect` | the patterns are cut into rectangles that do not overlap (`Fixed`, `VersionFixed`) and, for the alignment patterns, products of sets of columns (`AlignedIs`), and these are counted. It needs that the positions of `getAlignmentPatternPositions` are at least 12 apart and clear of the rest (`SpacingIs`, `BesideIs`) |
| | `InterleavedLength`, `RoomForAllCorrect` | `RoomInv`: while the codewords are drawn, the bits that are drawn are as many as there are free modules to the right of the next pair of columns (`FreeBeyond`), as long as there are bits. It needs that the pairs leave no free module out (`BeyondIs`), that the scan of a pair meets each once (`AlongCount`), the capacity, and the length of the interleaved blocks. TLC finds no violation of it on the texts of the run `qrcode` |

`UnlockedAlone` is a hypothesis on the clients, not a fact about the code: the run `atomic`
shows what happens without it. Only `AtomicityCorrect` has it; the other theorems of the endpoint hold with
`dirCreate` and reverts overlapping everything, and say themselves which meetings they leave out. So is `RemoveQuiet`. `NoFaults` says that no system call fails
and the process is not started again; the findings and notes of section 6 show what
happens otherwise.

The library's induction theorems take an operator and are of no use to the provers. `QrCodeProofs` has its own,
stated with sets: `SmallestSet` (from the well-founded order of finite sets), `Induction`, `Recursion` (a function on
`0..n` given step by step exists), `SumExists` and `SumBound` (the fold of `MapThenSumSet`), `JoinedFollows` and
`FlattenLength` (the sequence that `FlattenSeq` builds up).

Only model-checked: the liveness properties (`Progress`, `Released`, `WriterGetsIn`, `Dismisses`,
`Ends`, `KeysArrive`), which are out of the prover's reach, and `ReadsBack` of `QrCode`, which
compares an encoder and a decoder over all bits of a symbol: that the error correction of a block is zero at the roots
of the generator rests on the algebra of GF(256), and what a scan writes and a reader collects on recursive functions
over both. It holds for the texts of the run. What it needs of the format is proved (`FormatCorrect`), and that every
bit has a module of its own (`RoomForAllCorrect`).

## 6. Findings

1. `dirCreate` takes no lock (`StorageEndpoint.cpp:177`), so its search disturbs that of a `fileDelete` through
   the iteration cache they share (`VirtualFilesystem.cpp:59-62`), which then does not find a file that is there:
   not "all operations in the VFS are atomic" (run `atomic`).
2. A failed upload deletes a file it did not create (`WriteFileTransaction.cpp:47`), so not
   "reverted as if it never happened" (run `reverted`).

Known besides, and in the models, though no run is spent on them:

- A commit ignores the failure of its unlink and rename (`WriteFileTransaction.cpp:67`): with `MaxFaults = 1`
  in the configuration of `steady`, `StoredWhole` fails.
- A reader and a writer can hold the cooperative lock at once (`Spinlock.cpp:50`), each having looked before
  the other was counted, though "new readers are blocked when a writer is active" (a test, `src/tests/datastructures/TestSpinlock.cpp:124` of the repository).
- `userRemove` keeps the sessions of the user (`Authenticator.cpp:101`), though it "deletes the given user and
  all their associated sessions" (`Authenticator.h:40`).
- Two lookups of one thread whose handlers both start before either body arrives share one listing
  (`DirLookupEndpoint.cpp:16-25`): the second is sent both, though "within a single thread this method is
  threadsafe". `ShowsWhatIs` is therefore about a user who waits for each answer.
- A second registration replaces the first one's QR code before it was scanned (`signup.js:102`), and the
  account of the first can never be logged in to; likewise when the page is left too early. `EveryKeySeen`
  counts both among the ways to lose a key.
- A second click on Up pops the last entry of the navigation stack (`dashboard.js:62`), and a failed lookup leaves the
  stack where the page is not (`dashboard.js:101`): what is uploaded next does not go where the page shows.
  `CrumbSettles` and `PathShown` name both as exceptions.

## 7. Not modelled

- The user access control grants everything (`uac/UserAccessControl.cpp:32-40`); crypto context,
  zero-trust, passkeys, endpoint statistics and the cache are placeholders. There is no behaviour
  to check.
- Cryptography, strings, DTOs, static files, logging, icons, the password hash of the client: pure input and
  output or arithmetic out of TLC's reach.
- The endpoint table, the event limiter, the block allocator, the web server's start and stop and the
  instance configuration: small tables behind one lock that no request changes at this commit, a counter
  per address, and code without a caller. The main thread polls and does nothing.
- In the web client: downloads, which change no state of the page; makeEci, kanji, encodeBinary and forced
  masks of the QR library, which nothing calls; how the page is drawn.
- In the modelled parts: sizes and limits of directories (nothing calls them), parsing of requests,
  memory errors beyond the outcomes named above. (Parsing is not always harmless: `GetCookie`, `server/Endpoints.cpp:278`,
  may loop when the cookie it looks for is not among those sent.)

## 8. What could come next

1. The transactions composed with `StorageEndpoint` instead of one-step calls, at a size where TLC still ends.
2. `EventLimiter`, with its whole-second truncation and the unlocked map, against a reference token bucket.
3. Periodic tasks of the task manager, and an abstract task list as its specification.
4. A proof of `ReadsBack`: first that the codewords that are drawn are those that are read, from `RoomInv` and
   `MaskUndone`, then the error correction.
