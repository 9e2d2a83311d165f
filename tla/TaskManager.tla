---------------------------- MODULE TaskManager ----------------------------
(***************************************************************************)
(* Background tasks: the task list and the worker threads of TaskManager.  *)
(* A worker takes a task under taskLock and then works through a pointer   *)
(* into the vector of tasks, without the lock: the pointer names a slot,   *)
(* not a task.                                                             *)
(*                                                                         *)
(* The vector is its buffer, mem, whose first `size' slots are in use.     *)
(* push_back into a full buffer moves the tasks to one twice as large; a   *)
(* pointer into the old one then reads what was there and writes to        *)
(* nobody.  taskRemove fills a slot from the last one, which keeps its     *)
(* contents until it is used again.  Executions in which a freed buffer or *)
(* a null pointer crashes the process simply stop.                         *)
(*                                                                         *)
(* taskAdd is the only way in and makes tasks that run once; periodic      *)
(* tasks are never created.  Nothing in the server adds or removes tasks   *)
(* or threads yet; here anybody may, until the destructor runs, by which   *)
(* time the web server is gone.                                            *)
(***************************************************************************)
EXTENDS Naturals, Sequences

CONSTANTS
  Worker,       \* threads that may be started
  NoWorker,
  Initial,      \* the workers of the constructor, INSTANCE_WORKER_THREADS many
  MaxThreads,   \* hardware_concurrency() - 1
  RemoveQuiet,  \* TRUE: no task is removed while a worker has one in hand
  MaxTask,      \* bound: how many tasks are ever added
  MaxStarts     \* bound: how many threads are ever started

ASSUME NoWorkerAssumption == NoWorker \notin Worker
ASSUME RemoveQuietAssumption == RemoveQuiet \in BOOLEAN
ASSUME NumberAssumption == MaxThreads \in Nat /\ MaxTask \in Nat /\ MaxStarts \in Nat
ASSUME InitialAssumption ==
  /\ Initial \in Seq(Worker) /\ Len(Initial) <= MaxThreads
  /\ \A i, j \in 1..Len(Initial) : Initial[i] = Initial[j] => i = j

VARIABLES
  mem,        \* the buffer of the vector `tasks'
  size,       \* how many of its slots are in use
  nextTask,   \* taskID
  threads,    \* the vector `threads'
  starts,     \* how many threads were started (bound)
  isRunning,
  isEmployed, \* isEmployed[w]: the flag of w's status
  known,      \* known[w]: the manager has the pointer to w's status
  removing,   \* the worker threadRemove waits for
  destructor, \* the destructor of the manager: none, waiting, joining or over
  pc,         \* pc[w]: what worker w does next
  at,         \* at[w]: the slot its pointer names, or 0
  stale,      \* stale[w]: what its pointer reads when its buffer is freed
  running,    \* running[w]: the task whose invoke it runs
  executed,   \* executed[k]: the flag of task k
  runs        \* runs[k]: how often task k was invoked (history), 2 standing for more

taskVars   == <<mem, size, nextTask>>
threadVars == <<threads, starts, isEmployed, known, removing>>
handVars   == <<at, stale, running>>
objectVars == <<executed, runs>>
vars == <<taskVars, threadVars, isRunning, destructor, pc, handVars, objectVars>>

Task     == 1..MaxTask
NULL     == 0
TaskData == [task : Task \union {NULL}, isProcessing : BOOLEAN, isDone : BOOLEAN]
Unused   == [task |-> NULL, isProcessing |-> FALSE, isDone |-> FALSE]

HandPC == {"shouldBeInvoked", "invoke", "running", "shouldBeRemoved", "removeTask"}

Each(x) == [w \in Worker |-> x]

Init ==
  /\ mem = << >> /\ size = 0 /\ nextTask = 1
  /\ threads = Initial
  /\ starts = Len(Initial)
  /\ isRunning = TRUE
  /\ isEmployed = Each(TRUE) /\ known = Each(FALSE)
  /\ removing = NoWorker
  /\ destructor = "none"
  /\ pc = [w \in Worker |-> IF \A i \in 1..Len(Initial) : Initial[i] # w THEN "none"
                            ELSE IF w = Initial[Len(Initial)] THEN "start" ELSE "moved"]
  /\ at = Each(0) /\ stale = Each(Unused) /\ running = Each(NULL)
  /\ executed = [k \in Task |-> FALSE]
  /\ runs = [k \in Task |-> 0]

-----------------------------------------------------------------------------
(* Workers.                                                                *)

Goto(w, label) == pc' = [pc EXCEPT ![w] = label]

Hands(w) == pc[w] \in HandPC

\* What *taskData is for worker w.
Data(w) == IF at[w] # 0 THEN mem[at[w]] ELSE stale[w]

\* The thread looks for its own entry without threadLock; it writes to nobody
\* when the vector moves in the meantime.
AssignStatus(w) ==
  /\ \/ pc[w] = "start" /\ known' = [known EXCEPT ![w] = TRUE]
     \/ pc[w] = "moved" /\ known' \in {known, [known EXCEPT ![w] = TRUE]}
  /\ Goto(w, "loop")
  /\ UNCHANGED <<taskVars, threads, starts, isEmployed, removing, isRunning, destructor,
                 handVars, objectVars>>

Available_Processing(d) == ~d.isDone

Available(d) == ~d.isProcessing \/ d.isDone

GetTask(w) ==
  LET free == {i \in 1..size : Available(mem[i])}
  IN  /\ pc[w] = "loop"
      /\ isRunning /\ isEmployed[w]
      /\ \E i \in free :
           /\ \A j \in free : i <= j
           /\ mem' = [mem EXCEPT ![i].isProcessing = TRUE]
           /\ at' = [at EXCEPT ![w] = i]
      /\ Goto(w, "shouldBeInvoked")
      /\ UNCHANGED <<size, nextTask, threadVars, isRunning, destructor, stale, running, objectVars>>

ShouldBeInvoked(w) ==
  /\ pc[w] = "shouldBeInvoked"
  /\ Data(w).task # NULL
  /\ Goto(w, IF executed[Data(w).task] THEN "shouldBeRemoved" ELSE "invoke")
  /\ UNCHANGED <<taskVars, threadVars, isRunning, destructor, handVars, objectVars>>

Invoke(w) ==
  LET k == Data(w).task
  IN  /\ pc[w] = "invoke"
      /\ k # NULL
      /\ running' = [running EXCEPT ![w] = k]
      /\ runs' = [runs EXCEPT ![k] = IF @ = 0 THEN 1 ELSE 2]
      /\ Goto(w, "running")
      /\ UNCHANGED <<taskVars, threadVars, isRunning, destructor, at, stale, executed>>

Invoked(w) ==
  /\ pc[w] = "running"
  /\ executed' = [executed EXCEPT ![running[w]] = TRUE]
  /\ running' = [running EXCEPT ![w] = NULL]
  /\ Goto(w, "shouldBeRemoved")
  /\ UNCHANGED <<taskVars, threadVars, isRunning, destructor, at, stale, runs>>

\* The worker puts its pointer down and sleeps for a while.
PutDown(w) ==
  /\ at' = [at EXCEPT ![w] = 0]
  /\ stale' = [stale EXCEPT ![w] = Unused]
  /\ Goto(w, "loop")
  /\ UNCHANGED <<size, nextTask, threadVars, isRunning, destructor, running, objectVars>>

\* After an invocation, or none: the pointer may by now lead to another task.
ShouldBeRemoved(w) ==
  /\ pc[w] = "shouldBeRemoved"
  /\ Data(w).task # NULL
  /\ \/ /\ executed[Data(w).task]
        /\ Goto(w, "removeTask")
        /\ UNCHANGED <<taskVars, threadVars, isRunning, destructor, handVars, objectVars>>
     \/ /\ ~executed[Data(w).task]
        /\ PutDown(w)
        /\ UNCHANGED mem

Finished(d) == [d EXCEPT !.isProcessing = FALSE, !.isDone = TRUE]

\* The task stays in the vector, for infoTasks.
RemoveTask(w) ==
  /\ pc[w] = "removeTask"
  /\ mem' = IF at[w] # 0 THEN [mem EXCEPT ![at[w]] = Finished(@)] ELSE mem
  /\ PutDown(w)

Dismissed_Ignored(w) == ~isRunning

Dismissed(w) == ~isRunning \/ ~isEmployed[w]

Exit(w) ==
  /\ pc[w] = "loop"
  /\ Dismissed(w)
  /\ Goto(w, "exited")
  /\ UNCHANGED <<taskVars, threadVars, isRunning, destructor, handVars, objectVars>>

-----------------------------------------------------------------------------
(* Tasks come and go.                                                      *)

Grown == IF Len(mem) = 0 THEN 1 ELSE 2 * Len(mem)

\* What is put in a slot that contained d.
Added(d) == [task |-> nextTask, isProcessing |-> FALSE, isDone |-> FALSE]

taskAdd ==
  /\ destructor = "none"
  /\ nextTask <= MaxTask
  /\ nextTask' = nextTask + 1
  /\ size' = size + 1
  /\ \/ /\ size < Len(mem)
        /\ mem' = [mem EXCEPT ![size + 1] = Added(@)]
        /\ UNCHANGED <<at, stale>>
     \/ /\ size = Len(mem)
        /\ mem' = [i \in 1..Grown |-> IF i <= size THEN mem[i]
                                      ELSE IF i = size + 1 THEN Added(Unused) ELSE Unused]
        /\ at' = Each(0)
        /\ stale' = [w \in Worker |-> Data(w)]
  /\ UNCHANGED <<threadVars, isRunning, destructor, pc, running, objectVars>>

taskRemove(k) ==
  /\ destructor = "none"
  /\ RemoveQuiet => \A w \in Worker : ~Hands(w)
  /\ \E i \in 1..size :
       /\ mem[i].task = k
       /\ mem' = [mem EXCEPT ![i] = IF i = size THEN [@ EXCEPT !.task = NULL] ELSE mem[size]]
  /\ size' = size - 1
  /\ UNCHANGED <<nextTask, threadVars, isRunning, destructor, pc, handVars, objectVars>>

-----------------------------------------------------------------------------
(* Threads come and go, one call at a time under threadLock.               *)

threadAdd(w) ==
  /\ destructor = "none" /\ removing = NoWorker
  /\ starts < MaxStarts
  /\ Len(threads) < MaxThreads
  /\ pc[w] \in {"none", "joined"}
  /\ threads' = Append(threads, w)
  /\ starts' = starts + 1
  /\ isEmployed' = [isEmployed EXCEPT ![w] = TRUE]
  /\ known' = [known EXCEPT ![w] = FALSE]
  /\ pc' = [u \in Worker |-> IF u = w THEN "start"
                             ELSE IF pc[u] = "start" THEN "moved" ELSE pc[u]]
  /\ UNCHANGED <<taskVars, isRunning, destructor, removing, handVars, objectVars>>

\* The last one is dismissed; the call crashes when its status is not known.
threadRemove ==
  LET w == threads[Len(threads)]
  IN  /\ destructor = "none" /\ removing = NoWorker
      /\ Len(threads) > 1
      /\ known[w]
      /\ isEmployed' = [isEmployed EXCEPT ![w] = FALSE]
      /\ removing' = w
      /\ UNCHANGED <<taskVars, threads, starts, known, isRunning, destructor, pc, handVars, objectVars>>

threadJoin ==
  /\ removing # NoWorker
  /\ pc[removing] = "exited"
  /\ Goto(removing, "joined")
  /\ threads' = SubSeq(threads, 1, Len(threads) - 1)
  /\ removing' = NoWorker
  /\ UNCHANGED <<taskVars, starts, isEmployed, known, isRunning, destructor, handVars, objectVars>>

-----------------------------------------------------------------------------
(* The destructor waits for the tasks, then for the threads.               *)

Destroy ==
  /\ destructor = "none" /\ removing = NoWorker
  /\ destructor' = "waiting"
  /\ UNCHANGED <<taskVars, threadVars, isRunning, pc, handVars, objectVars>>

AllDone_Idle == \A i \in 1..size : ~mem[i].isProcessing

AllDone == \A i \in 1..size : mem[i].isDone

StopRunning ==
  /\ destructor = "waiting"
  /\ AllDone
  /\ isRunning' = FALSE
  /\ destructor' = "joining"
  /\ UNCHANGED <<taskVars, threadVars, pc, handVars, objectVars>>

JoinAll ==
  /\ destructor = "joining"
  /\ \A i \in 1..Len(threads) : pc[threads[i]] = "exited"
  /\ destructor' = "over"
  /\ UNCHANGED <<taskVars, threadVars, isRunning, pc, handVars, objectVars>>

-----------------------------------------------------------------------------

Work(w) ==
  \/ AssignStatus(w) \/ GetTask(w) \/ ShouldBeInvoked(w) \/ Invoke(w) \/ Invoked(w)
  \/ ShouldBeRemoved(w) \/ RemoveTask(w) \/ Exit(w)

Stop == StopRunning \/ JoinAll

Next ==
  \/ \E w \in Worker : Work(w) \/ threadAdd(w)
  \/ taskAdd
  \/ \E k \in Task : taskRemove(k)
  \/ threadRemove \/ threadJoin
  \/ Destroy \/ Stop

Spec == Init /\ [][Next]_vars

\* Threads are scheduled, a task ends, and so do joins.
FairSpec == Spec /\ WF_vars(threadJoin) /\ WF_vars(Stop) /\ \A w \in Worker : WF_vars(Work(w))

-----------------------------------------------------------------------------
(* Properties.                                                             *)

TypeOK ==
  /\ mem \in Seq(TaskData) /\ size \in 0..Len(mem)
  /\ nextTask \in 1..(MaxTask + 1)
  /\ threads \in Seq(Worker) /\ starts \in Nat
  /\ isRunning \in BOOLEAN
  /\ isEmployed \in [Worker -> BOOLEAN] /\ known \in [Worker -> BOOLEAN]
  /\ removing \in Worker \union {NoWorker}
  /\ destructor \in {"none", "waiting", "joining", "over"}
  /\ pc \in [Worker -> HandPC \union {"none", "start", "moved", "loop", "exited", "joined"}]
  /\ at \in [Worker -> 0..Len(mem)]
  /\ stale \in [Worker -> TaskData]
  /\ running \in [Worker -> Task \union {NULL}]
  /\ executed \in [Task -> BOOLEAN]
  /\ runs \in [Task -> 0..2]

\* TaskManager.h:80: "Currently processed".  A task is invoked once, whoever
\* takes it and however often: the flags of its slot and its own agree, also
\* for a worker that looks at a buffer that has been freed.
RunsOnce == \A k \in Task : runs[k] <= 1

\* A task that is listed as done has been invoked, and its invocation is over.
DoneRan == \A i \in 1..size : mem[i].isDone => executed[mem[i].task]

\* TaskManager.cpp:52: "Waiting for unfinished tasks".  Once the destructor has
\* returned every task has run and no worker is left: what tasks and workers
\* refer to may go.
StoppedClean ==
  destructor = "over" =>
    /\ \A i \in 1..size : runs[mem[i].task] = 1 /\ executed[mem[i].task]
    /\ \A w \in Worker : pc[w] \in {"none", "exited", "joined"}

\* threadRemove returns, whatever the worker it dismisses is doing.
Dismisses == []<>(removing = NoWorker)

=============================================================================
