------------------------- MODULE TaskManagerProofs -------------------------
(***************************************************************************)
(* Proofs about TaskManager, for any number of workers and tasks.          *)
(***************************************************************************)
EXTENDS TaskManager, SequenceTheorems, TLAPS

-----------------------------------------------------------------------------
(* Types.                                                                  *)

\* A worker has a pointer only between taking a task and putting it down, and a
\* thread that is awaited is the last of the vector.
HandInv == \A w \in Worker : ~Hands(w) => at[w] = 0

LastInv == removing # NoWorker =>
             /\ Len(threads) > 1 /\ removing = threads[Len(threads)]
             /\ destructor = "none"

RunningInv == \A w \in Worker : pc[w] = "running" => running[w] \in Task

TypeInv == TypeOK /\ HandInv /\ LastInv /\ RunningInv

\* A function on 1..n is a sequence.
LEMMA FunctionSeq ==
  ASSUME NEW S, NEW n \in Nat, NEW f \in [1..n -> S]
  PROVE  f \in Seq(S) /\ Len(f) = n
<1>1. f \in Seq(S)
  BY SeqDef
<1> QED
  BY <1>1, LenProperties

\* What the buffer and a worker's view of it are made of.
LEMMA BufferType ==
  ASSUME TypeInv
  PROVE  /\ Len(mem) \in Nat
         /\ \A i \in 1..Len(mem) : mem[i] \in TaskData
         /\ \A w \in Worker : Data(w) \in TaskData
         /\ Unused \in TaskData
<1>1. Len(mem) \in Nat /\ \A i \in 1..Len(mem) : mem[i] \in TaskData
  BY LenProperties, ElementOfSeq DEF TypeInv, TypeOK
<1>2. \A w \in Worker : Data(w) \in TaskData
  BY <1>1 DEF TypeInv, TypeOK, Data
<1>3. Unused \in TaskData
  BY DEF Unused, TaskData
<1> QED
  BY <1>1, <1>2, <1>3

\* Changing a slot of the buffer keeps its length and its type.
LEMMA SlotStep ==
  ASSUME TypeInv, NEW i \in 1..Len(mem), NEW d \in TaskData
  PROVE  /\ [mem EXCEPT ![i] = d] \in Seq(TaskData)
         /\ Len([mem EXCEPT ![i] = d]) = Len(mem)
         /\ \A j \in 1..Len(mem) : [mem EXCEPT ![i] = d][j] = IF j = i THEN d ELSE mem[j]
BY ExceptSeq DEF TypeInv, TypeOK

\* The first state is well-typed.
LEMMA TypeInit == Init => TypeInv
<1> SUFFICES ASSUME Init
             PROVE  TypeInv
  OBVIOUS
<1> USE NumberAssumption, InitialAssumption DEF Init, Each
<1>1. mem \in Seq(TaskData) /\ size \in 0..Len(mem) /\ Len(mem) = 0
  BY EmptySeq
<1>2. nextTask \in 1..(MaxTask + 1) /\ threads \in Seq(Worker) /\ starts \in Nat
  BY LenProperties
<1>3. /\ isRunning \in BOOLEAN
      /\ isEmployed \in [Worker -> BOOLEAN] /\ known \in [Worker -> BOOLEAN]
      /\ removing \in Worker \union {NoWorker}
      /\ destructor \in {"none", "waiting", "joining", "over"}
      /\ executed \in [Task -> BOOLEAN]
  BY Zenon
<1>4. /\ pc \in [Worker -> {"none", "start", "moved"}]
      /\ at \in [Worker -> 0..Len(mem)]
      /\ stale \in [Worker -> TaskData]
      /\ running \in [Worker -> Task \union {NULL}]
      /\ runs \in [Task -> 0..2]
  BY <1>1 DEF Unused, TaskData
<1>5. pc \in [Worker -> HandPC \union {"none", "start", "moved", "loop", "exited", "joined"}]
  BY <1>4
<1>6. HandInv /\ LastInv /\ RunningInv
  BY <1>4 DEF HandInv, LastInv, RunningInv, Hands, HandPC
<1> QED
  BY <1>1, <1>2, <1>3, <1>4, <1>5, <1>6 DEF TypeInv, TypeOK

\* A step that moves one worker to another label keeps the labels typed.
LEMMA GotoType ==
  ASSUME TypeInv, NEW w \in Worker,
         NEW l \in HandPC \union {"none", "start", "moved", "loop", "exited", "joined"}, Goto(w, l)
  PROVE  /\ pc' \in [Worker -> HandPC \union {"none", "start", "moved", "loop", "exited", "joined"}]
         /\ pc'[w] = l
         /\ \A u \in Worker : u # w => pc'[u] = pc[u]
BY DEF TypeInv, TypeOK, Goto

\* So does a step that takes up no task, puts none down and invokes none.
LEMMA TypeMove ==
  ASSUME TypeInv, NEW w \in Worker,
         NEW l \in HandPC \union {"none", "start", "moved", "loop", "exited", "joined"}, Goto(w, l),
         l # "running", Hands(w) <=> l \in HandPC, known' \in [Worker -> BOOLEAN],
         UNCHANGED <<taskVars, threads, starts, isEmployed, removing, isRunning, destructor>>,
         UNCHANGED <<handVars, objectVars>>
  PROVE  TypeInv'
<1>1. /\ pc' \in [Worker -> HandPC \union {"none", "start", "moved", "loop", "exited", "joined"}]
      /\ pc'[w] = l /\ \A u \in Worker : u # w => pc'[u] = pc[u]
  BY GotoType
<1>2. \A u \in Worker : Hands(u)' = Hands(u) /\ (pc'[u] = "running" => pc[u] = "running")
  BY <1>1 DEF Hands
<1>3. /\ UNCHANGED <<mem, size, nextTask, threads, starts, isEmployed, removing, isRunning>>
      /\ UNCHANGED <<destructor, at, stale, running, executed, runs>>
  BY DEF taskVars, handVars, objectVars
<1>4. TypeOK'
  BY <1>1, <1>3, Zenon DEF TypeInv, TypeOK
<1>5. HandInv' /\ LastInv' /\ RunningInv'
  BY <1>2, <1>3, Zenon DEF TypeInv, HandInv, LastInv, RunningInv
<1> QED
  BY <1>4, <1>5 DEF TypeInv

\* A step of a worker leaves the threads typed, and the awaited one the last.
LEMMA TypeWork ==
  ASSUME TypeInv, NEW w \in Worker, Work(w)
  PROVE  TypeInv'
<1> USE DEF TypeInv, TypeOK, HandInv, LastInv, RunningInv, Hands, HandPC
<1>1. ASSUME AssignStatus(w)
      PROVE  TypeInv'
  <2>1. known' \in [Worker -> BOOLEAN] /\ ~Hands(w)
    BY <1>1 DEF AssignStatus
  <2> QED
    BY <1>1, <2>1, TypeMove DEF AssignStatus
<1>2. ASSUME GetTask(w)
      PROVE  TypeInv'
  <2>1. PICK i \in 1..size : mem' = [mem EXCEPT ![i].isProcessing = TRUE]
                             /\ at' = [at EXCEPT ![w] = i]
    BY <1>2 DEF GetTask
  <2>2. i \in 1..Len(mem) /\ [mem[i] EXCEPT !.isProcessing = TRUE] \in TaskData
    <3>1. i \in 1..Len(mem) /\ mem[i] \in TaskData
      BY BufferType
    <3> QED
      BY <3>1, Zenon DEF TaskData
  <2>3. mem' \in Seq(TaskData) /\ Len(mem') = Len(mem)
    BY <2>1, <2>2, SlotStep
  <2>4. at' \in [Worker -> 0..Len(mem')]
    BY <2>1, <2>2, <2>3
  <2>5. Goto(w, "shouldBeInvoked")
    BY <1>2 DEF GetTask
  <2> QED
    BY <1>2, <2>1, <2>3, <2>4, <2>5, GotoType DEF GetTask, threadVars, objectVars
<1>3. ASSUME ShouldBeInvoked(w)
      PROVE  TypeInv'
  <2>1. PICK l \in {"shouldBeRemoved", "invoke"} : Goto(w, l)
    BY <1>3 DEF ShouldBeInvoked
  <2>2. Hands(w) /\ UNCHANGED <<taskVars, threadVars, isRunning, destructor, handVars, objectVars>>
    BY <1>3 DEF ShouldBeInvoked
  <2> QED
    BY <2>1, <2>2, TypeMove DEF threadVars
<1>4. ASSUME Invoke(w)
      PROVE  TypeInv'
  <2>1. Data(w).task \in Task
    BY <1>4, BufferType DEF Invoke, TaskData
  <2>2. runs' \in [Task -> 0..2] /\ running' \in [Worker -> Task \union {NULL}]
    BY <1>4, <2>1 DEF Invoke
  <2>3. Goto(w, "running") /\ running'[w] \in Task /\ \A u \in Worker : u # w => running'[u] = running[u]
    BY <1>4, <2>1 DEF Invoke
  <2>4. /\ pc' \in [Worker -> HandPC \union {"none", "start", "moved", "loop", "exited", "joined"}]
        /\ pc'[w] = "running" /\ \A u \in Worker : u # w => pc'[u] = pc[u]
    BY <2>3, GotoType
  <2>5. UNCHANGED <<taskVars, threadVars, isRunning, destructor, at, stale, executed>> /\ Hands(w)
    BY <1>4 DEF Invoke
  <2> QED
    BY <2>2, <2>3, <2>4, <2>5 DEF taskVars, threadVars
<1>5. ASSUME Invoked(w)
      PROVE  TypeInv'
  <2>1. executed' \in [Task -> BOOLEAN] /\ running' \in [Worker -> Task \union {NULL}]
    BY <1>5 DEF Invoked
  <2>2. Goto(w, "shouldBeRemoved") /\ \A u \in Worker : u # w => running'[u] = running[u]
    BY <1>5 DEF Invoked
  <2>3. /\ pc' \in [Worker -> HandPC \union {"none", "start", "moved", "loop", "exited", "joined"}]
        /\ pc'[w] = "shouldBeRemoved" /\ \A u \in Worker : u # w => pc'[u] = pc[u]
    BY <2>2, GotoType
  <2>4. UNCHANGED <<taskVars, threadVars, isRunning, destructor, at, stale, runs>> /\ Hands(w)
    BY <1>5 DEF Invoked
  <2> QED
    BY <2>1, <2>2, <2>3, <2>4 DEF taskVars, threadVars
<1>6. ASSUME PutDown(w), mem' \in Seq(TaskData), Len(mem') = Len(mem), pc[w] # "running"
      PROVE  TypeInv'
  <2>1. at' \in [Worker -> 0..Len(mem')] /\ stale' \in [Worker -> TaskData]
    BY <1>6, BufferType DEF PutDown
  <2> QED
    BY <1>6, <2>1, GotoType DEF PutDown, threadVars, objectVars
<1>7. ASSUME ShouldBeRemoved(w)
      PROVE  TypeInv'
  <2>1. CASE PutDown(w) /\ UNCHANGED mem
    BY <1>6, <1>7, <2>1 DEF ShouldBeRemoved
  <2>2. CASE Goto(w, "removeTask") /\ UNCHANGED <<taskVars, threadVars, isRunning, destructor, handVars, objectVars>>
    BY <1>7, <2>2, TypeMove DEF ShouldBeRemoved, threadVars
  <2> QED
    BY <1>7, <2>1, <2>2 DEF ShouldBeRemoved
<1>8. ASSUME RemoveTask(w)
      PROVE  TypeInv'
  <2>1. ASSUME at[w] # 0
        PROVE  mem' \in Seq(TaskData) /\ Len(mem') = Len(mem)
    <3>1. at[w] \in 1..Len(mem) /\ mem[at[w]] \in TaskData
      BY <2>1, BufferType
    <3>2. Finished(mem[at[w]]) \in TaskData
      BY <3>1, Zenon DEF Finished, TaskData
    <3> QED
      BY <1>8, <2>1, <3>1, <3>2, SlotStep DEF RemoveTask
  <2>2. mem' \in Seq(TaskData) /\ Len(mem') = Len(mem)
    BY <1>8, <2>1 DEF RemoveTask
  <2> QED
    BY <1>6, <1>8, <2>2 DEF RemoveTask
<1>9. ASSUME Exit(w)
      PROVE  TypeInv'
  <2>1. ~Hands(w) /\ Goto(w, "exited")
    BY <1>9 DEF Exit
  <2> QED
    BY <1>9, <2>1, TypeMove DEF Exit, threadVars
<1> QED
  BY <1>1, <1>2, <1>3, <1>4, <1>5, <1>7, <1>8, <1>9 DEF Work

\* So does the end of a thread that was waited for.
LEMMA TypeJoined ==
  ASSUME TypeInv, threadJoin, threads' \in Seq(Worker), removing \in Worker,
         Goto(removing, "joined")
  PROVE  TypeInv'
<1>1. /\ pc' \in [Worker -> HandPC \union {"none", "start", "moved", "loop", "exited", "joined"}]
      /\ pc'[removing] = "joined" /\ \A u \in Worker : u # removing => pc'[u] = pc[u]
  BY GotoType
<1>2. /\ UNCHANGED <<mem, size, nextTask, starts, isEmployed, known, isRunning, destructor>>
      /\ UNCHANGED <<at, stale, running, executed, runs>> /\ removing' = NoWorker
  BY DEF threadJoin, taskVars, handVars, objectVars
<1>3. \A u \in Worker : Hands(u)' = Hands(u) /\ (pc'[u] = "running" => pc[u] = "running")
  BY <1>1 DEF threadJoin, Hands, HandPC
<1>4. TypeOK'
  BY <1>1, <1>2, Zenon DEF TypeInv, TypeOK
<1>5. HandInv' /\ LastInv' /\ RunningInv'
  BY <1>2, <1>3, Zenon DEF TypeInv, HandInv, LastInv, RunningInv
<1> QED
  BY <1>4, <1>5 DEF TypeInv

\* So does every other step.
LEMMA TypeNext == TypeInv /\ [Next]_vars => TypeInv'
<1> SUFFICES ASSUME TypeInv, [Next]_vars
             PROVE  TypeInv'
  OBVIOUS
<1> USE NumberAssumption DEF TypeInv, TypeOK, HandInv, LastInv, RunningInv, Hands, HandPC
<1>1. ASSUME NEW w \in Worker, Work(w)
      PROVE  TypeInv'
  BY <1>1, TypeWork
<1>2. ASSUME NEW w \in Worker, threadAdd(w)
      PROVE  TypeInv'
  <2>1. threads' \in Seq(Worker) /\ starts' \in Nat
    BY <1>2, AppendProperties DEF threadAdd
  <2>2. /\ pc' \in [Worker -> HandPC \union {"none", "start", "moved", "loop", "exited", "joined"}]
        /\ \A u \in Worker : pc'[u] = pc[u] \/ (pc'[u] \in {"start", "moved"} /\ ~Hands(u))
    BY <1>2 DEF threadAdd
  <2>3. /\ isEmployed' \in [Worker -> BOOLEAN] /\ known' \in [Worker -> BOOLEAN]
        /\ UNCHANGED <<taskVars, isRunning, destructor, removing, handVars, objectVars>>
        /\ removing' = NoWorker
    BY <1>2 DEF threadAdd
  <2> QED
    BY <2>1, <2>2, <2>3 DEF taskVars, handVars, objectVars
<1>3. ASSUME taskAdd
      PROVE  TypeInv'
  <2>1. Added(Unused) \in TaskData /\ \A i \in 1..Len(mem) : Added(mem[i]) \in TaskData
    BY <1>3, BufferType DEF taskAdd, Added, Unused, TaskData, Task
  <2>2. CASE size < Len(mem) /\ mem' = [mem EXCEPT ![size + 1] = Added(@)] /\ UNCHANGED <<at, stale>>
    <3>1. size + 1 \in 1..Len(mem)
      BY <2>2
    <3>2. mem' \in Seq(TaskData) /\ Len(mem') = Len(mem)
      BY <2>1, <2>2, <3>1, SlotStep
    <3> QED
      BY <1>3, <2>2, <3>1, <3>2 DEF taskAdd, threadVars, objectVars
  <2>3. CASE /\ size = Len(mem)
             /\ mem' = [i \in 1..Grown |-> IF i <= size THEN mem[i]
                                            ELSE IF i = size + 1 THEN Added(Unused) ELSE Unused]
             /\ at' = Each(0) /\ stale' = [w \in Worker |-> Data(w)]
    <3>1. Grown \in Nat /\ Grown >= size + 1
      BY <2>3, BufferType DEF Grown
    <3>2. \A i \in 1..Grown : mem'[i] \in TaskData
      BY <2>1, <2>3, BufferType
    <3>3. mem' \in Seq(TaskData) /\ Len(mem') = Grown
      <4>1. mem' \in [1..Grown -> TaskData]
        BY <2>3, <3>2
      <4> QED
        BY <3>1, <4>1, FunctionSeq
    <3>4. at' \in [Worker -> 0..Len(mem')] /\ stale' \in [Worker -> TaskData]
          /\ \A w \in Worker : at'[w] = 0
      BY <2>3, <3>1, <3>3, BufferType DEF Each
    <3> QED
      BY <1>3, <2>3, <3>1, <3>3, <3>4 DEF taskAdd, threadVars, objectVars
  <2> QED
    BY <1>3, <2>2, <2>3 DEF taskAdd
<1>4. ASSUME NEW k \in Task, taskRemove(k)
      PROVE  TypeInv'
  <2>1. PICK i \in 1..size : mem' = [mem EXCEPT ![i] = IF i = size THEN [@ EXCEPT !.task = NULL] ELSE mem[size]]
    BY <1>4 DEF taskRemove
  <2>2. i \in 1..Len(mem) /\ size \in 1..Len(mem)
    BY <2>1
  <2>3. (IF i = size THEN [mem[i] EXCEPT !.task = NULL] ELSE mem[size]) \in TaskData
    BY <2>2, BufferType DEF TaskData
  <2>4. mem' \in Seq(TaskData) /\ Len(mem') = Len(mem)
    BY <2>1, <2>2, <2>3, SlotStep
  <2> QED
    BY <1>4, <2>2, <2>4 DEF taskRemove, threadVars, handVars, objectVars
<1>5. ASSUME threadRemove
      PROVE  TypeInv'
  <2>1. threads[Len(threads)] \in Worker
    BY <1>5, ElementOfSeq, LenProperties DEF threadRemove
  <2> QED
    BY <1>5, <2>1 DEF threadRemove, taskVars, handVars, objectVars
<1>6. ASSUME threadJoin
      PROVE  TypeInv'
  <2>1. threads' \in Seq(Worker)
    <3>1. Len(threads) - 1 \in 0..Len(threads)
      BY <1>6, LenProperties DEF threadJoin
    <3>2. \A i \in 1..(Len(threads) - 1) : threads[i] \in Worker
      BY <3>1, ElementOfSeq, LenProperties
    <3> QED
      BY <1>6, <3>1, <3>2, SubSeqProperties DEF threadJoin
  <2>2. removing \in Worker /\ Goto(removing, "joined")
    BY <1>6 DEF threadJoin
  <2> QED
    BY <1>6, <2>1, <2>2, TypeJoined
<1>7. ASSUME Destroy
      PROVE  TypeInv'
  BY <1>7 DEF Destroy, taskVars, threadVars, handVars, objectVars
<1>8. ASSUME Stop
      PROVE  TypeInv'
  BY <1>8 DEF Stop, StopRunning, JoinAll, taskVars, threadVars, handVars, objectVars
<1>9. ASSUME UNCHANGED vars
      PROVE  TypeInv'
  BY <1>9 DEF vars, taskVars, threadVars, handVars, objectVars, Data
<1> QED
  BY <1>1, <1>2, <1>3, <1>4, <1>5, <1>6, <1>7, <1>8, <1>9 DEF Next

\* Whatever threads and tasks come and go, the manager's variables keep their
\* types; a worker's pointer never leads outside the buffer.
THEOREM TypeCorrect == Spec => []TypeOK
<1>1. TypeInv => TypeOK
  BY DEF TypeInv
<1> QED
  BY TypeInit, TypeNext, <1>1, PTL DEF Spec

-----------------------------------------------------------------------------
(* Each task runs once.                                                    *)

\* The tasks in the vector are different ones, all of them given out.
SlotsInv ==
  /\ \A i \in 1..size : mem[i].task \in 1..(nextTask - 1)
  /\ \A i, j \in 1..size : mem[i].task = mem[j].task => i = j

\* A worker with a task sees the one it took.
PointerInv == \A w \in Worker : Hands(w) =>
  /\ at[w] <= size
  /\ Data(w).task \in 1..(nextTask - 1)
  /\ pc[w] = "running" => running[w] = Data(w).task

\* Until it has been executed, a task that is taken is flagged in the vector
\* and nobody else has it.
ClaimInv == \A w \in Worker : Hands(w) /\ ~executed[Data(w).task] =>
  /\ \A u \in Worker : Hands(u) /\ Data(u).task = Data(w).task => u = w
  /\ \A i \in 1..size : mem[i].task = Data(w).task => mem[i].isProcessing

PhaseInv == \A w \in Worker :
  /\ pc[w] \in {"invoke", "running"} => ~executed[Data(w).task]
  /\ pc[w] \in {"shouldBeRemoved", "removeTask"} => executed[Data(w).task]

\* A task that was invoked has been executed or is being executed.
RunsInv ==
  /\ \A k \in Task : executed[k] => runs[k] = 1
  /\ \A w \in Worker : pc[w] = "running" => runs[running[w]] = 1
  /\ \A k \in Task : runs[k] # 0 =>
       /\ runs[k] = 1 /\ k < nextTask
       /\ executed[k] \/ \E w \in Worker : pc[w] = "running" /\ running[w] = k

TaskInv == SlotsInv /\ PointerInv /\ ClaimInv /\ PhaseInv /\ RunsInv /\ DoneRan

\* Every thread that was started and not joined is in the vector of threads.
ThreadsInv == \A w \in Worker :
  pc[w] \notin {"none", "joined"} => \E i \in 1..Len(threads) : threads[i] = w

\* Once the destructor stops waiting all tasks are done, and when it is over
\* the threads have exited.
OverInv ==
  /\ destructor \in {"joining", "over"} => AllDone
  /\ destructor = "over" => \A i \in 1..Len(threads) : pc[threads[i]] = "exited"

\* What was given out is a task.
LEMMA GivenOut == TypeInv => \A k \in 1..(nextTask - 1) : k \in Task
BY NumberAssumption DEF TypeInv, TypeOK, Task

\* The fields of a slot after it was taken or finished.
LEMMA Fields ==
  ASSUME NEW d \in TaskData
  PROVE  /\ [d EXCEPT !.isProcessing = TRUE].task = d.task
         /\ [d EXCEPT !.isProcessing = TRUE].isProcessing
         /\ [d EXCEPT !.isProcessing = TRUE].isDone = d.isDone
         /\ Finished(d).task = d.task
         /\ Finished(d).isDone
<1> USE DEF TaskData
<1>1. /\ [d EXCEPT !.isProcessing = TRUE].task = d.task
      /\ [d EXCEPT !.isProcessing = TRUE].isProcessing
      /\ [d EXCEPT !.isProcessing = TRUE].isDone = d.isDone
  BY Zenon
<1>2. Finished(d).task = d.task /\ Finished(d).isDone
  BY Zenon DEF Finished
<1> QED
  BY <1>1, <1>2

\* A step that only changes where workers without a task are changes nothing.
LEMMA TaskQuiet ==
  ASSUME TypeInv, TypeInv', TaskInv, UNCHANGED <<taskVars, handVars, objectVars>>,
         \A w \in Worker : pc'[w] = pc[w] \/ (~Hands(w) /\ pc'[w] \notin HandPC)
  PROVE  TaskInv'
<1> USE DEF Hands, HandPC, taskVars, handVars, objectVars
<1>1. \A w \in Worker : Data(w)' = Data(w)
  BY DEF Data
<1>2. \A w \in Worker : Hands(w)' => pc'[w] = pc[w] /\ Hands(w)
  OBVIOUS
<1>3. \A w \in Worker : Hands(w) => pc'[w] = pc[w]
  OBVIOUS
<1>4. SlotsInv' /\ DoneRan'
  BY DEF TaskInv, SlotsInv, DoneRan
<1>5. PointerInv' /\ ClaimInv' /\ PhaseInv'
  BY <1>1, <1>2 DEF TaskInv, PointerInv, ClaimInv, PhaseInv
<1>6. RunsInv'
  BY <1>2, <1>3 DEF TaskInv, RunsInv
<1> QED
  BY <1>4, <1>5, <1>6 DEF TaskInv

\* Taking a task: a slot that is not flagged has a task nobody has, and one
\* that is done has a task that was executed.
LEMMA TaskGet ==
  ASSUME TypeInv, TypeInv', TaskInv, NEW w \in Worker, GetTask(w)
  PROVE  TaskInv'
<1>1. PICK i \in 1..size : /\ Available(mem[i])
                           /\ mem' = [mem EXCEPT ![i].isProcessing = TRUE]
                           /\ at' = [at EXCEPT ![w] = i]
  BY DEF GetTask
<1>2. i \in 1..Len(mem) /\ size \in 0..Len(mem) /\ mem[i] \in TaskData
  BY BufferType DEF TypeInv, TypeOK
<1>3. \A j \in 1..size : mem'[j] = IF j = i THEN [mem[i] EXCEPT !.isProcessing = TRUE] ELSE mem[j]
  <2>1. [mem[i] EXCEPT !.isProcessing = TRUE] \in TaskData
    BY <1>2, Zenon DEF TaskData
  <2> QED
    BY <1>1, <1>2, <2>1, SlotStep
<1>4. /\ \A j \in 1..size : /\ mem'[j].task = mem[j].task
                            /\ mem'[j].isDone = mem[j].isDone
                            /\ mem[j].isProcessing => mem'[j].isProcessing
      /\ mem'[i].isProcessing
  BY <1>2, <1>3, Fields
<1>5. /\ size' = size /\ nextTask' = nextTask /\ stale' = stale /\ running' = running
      /\ executed' = executed /\ runs' = runs
      /\ pc[w] = "loop" /\ pc'[w] = "shouldBeInvoked" /\ Hands(w)' /\ ~Hands(w)
      /\ \A u \in Worker : u # w => pc'[u] = pc[u] /\ Hands(u)' = Hands(u)
  BY GotoType DEF GetTask, objectVars, Hands, HandPC, Goto, TypeInv, TypeOK
<1>6. /\ Data(w)'.task = mem[i].task /\ at'[w] = i
      /\ \A u \in Worker : u # w => at'[u] = at[u]
  BY <1>1, <1>2, <1>4 DEF Data, TypeInv, TypeOK
<1>7. ASSUME NEW u \in Worker, u # w, Hands(u)
      PROVE  Data(u)'.task = Data(u).task
  <2>1. at[u] = 0 \/ at[u] \in 1..size
    BY <1>2, <1>7 DEF TaskInv, PointerInv, TypeInv, TypeOK
  <2> QED
    BY <1>4, <1>5, <1>6, <1>7, <2>1 DEF Data
<1>8. SlotsInv'
  BY <1>4, <1>5 DEF TaskInv, SlotsInv
<1>9. DoneRan'
  BY <1>4, <1>5 DEF TaskInv, DoneRan
<1>10. PointerInv'
  BY <1>2, <1>5, <1>6, <1>7 DEF TaskInv, PointerInv, SlotsInv
<1>11. PhaseInv'
  BY <1>5, <1>7 DEF TaskInv, PhaseInv, Hands, HandPC
<1>12. ClaimInv'
  <2>1. ASSUME ~executed[mem[i].task], NEW u \in Worker, Hands(u)
        PROVE  Data(u).task # mem[i].task
    BY <1>1, <2>1 DEF Available, TaskInv, ClaimInv, DoneRan
  <2>2. \A j \in 1..size : mem'[j].task = mem[i].task => j = i
    BY <1>4 DEF TaskInv, SlotsInv
  <2> QED
    BY <1>4, <1>5, <1>6, <1>7, <2>1, <2>2 DEF TaskInv, ClaimInv
<1>13. RunsInv'
  BY <1>5 DEF TaskInv, RunsInv
<1> QED
  BY <1>8, <1>9, <1>10, <1>11, <1>12, <1>13 DEF TaskInv

\* Looking at a task before and after it is invoked.
LEMMA TaskLook ==
  ASSUME TypeInv, TypeInv', TaskInv, NEW w \in Worker,
         ShouldBeInvoked(w) \/ (ShouldBeRemoved(w) /\ Goto(w, "removeTask"))
  PROVE  TaskInv'
<1>1. /\ UNCHANGED <<mem, size, nextTask, at, stale, running, executed, runs>>
      /\ Hands(w) /\ Hands(w)' /\ pc[w] # "running" /\ pc'[w] # "running"
      /\ pc'[w] = "invoke" => ~executed[Data(w).task]
      /\ pc'[w] \in {"shouldBeRemoved", "removeTask"} => executed[Data(w).task]
      /\ \A u \in Worker : u # w => pc'[u] = pc[u] /\ Hands(u)' = Hands(u)
  <2>1. CASE ShouldBeInvoked(w)
    BY <2>1 DEF ShouldBeInvoked, taskVars, handVars, objectVars, Goto, Hands, HandPC, TypeInv, TypeOK
  <2>2. CASE ShouldBeRemoved(w) /\ Goto(w, "removeTask")
    BY <2>2 DEF ShouldBeRemoved, PutDown, taskVars, handVars, objectVars, Goto, Hands, HandPC, TypeInv, TypeOK
  <2> QED
    BY <2>1, <2>2
<1>2. \A u \in Worker : Data(u)' = Data(u)
  BY <1>1 DEF Data
<1>3. SlotsInv' /\ DoneRan'
  BY <1>1 DEF TaskInv, SlotsInv, DoneRan
<1>4. PointerInv' /\ ClaimInv'
  BY <1>1, <1>2 DEF TaskInv, PointerInv, ClaimInv
<1>5. PhaseInv'
  BY <1>1, <1>2 DEF TaskInv, PhaseInv
<1>6. RunsInv'
  BY <1>1 DEF TaskInv, RunsInv
<1> QED
  BY <1>3, <1>4, <1>5, <1>6 DEF TaskInv

\* An invocation begins: had the task been invoked before, it would have been
\* executed or another worker would have it.
LEMMA TaskInvoke ==
  ASSUME TypeInv, TypeInv', TaskInv, NEW w \in Worker, Invoke(w)
  PROVE  TaskInv'
<1> DEFINE k == Data(w).task
<1>1. /\ UNCHANGED <<mem, size, nextTask, at, stale, executed>>
      /\ Hands(w) /\ Hands(w)' /\ pc[w] = "invoke" /\ pc'[w] = "running"
      /\ running'[w] = k
      /\ \A u \in Worker : u # w => /\ pc'[u] = pc[u] /\ Hands(u)' = Hands(u)
                                     /\ running'[u] = running[u]
  BY DEF Invoke, taskVars, Goto, Hands, HandPC, TypeInv, TypeOK
<1>2. k \in Task /\ k < nextTask /\ ~executed[k]
  <2>1. k \in Task
    BY BufferType DEF Invoke, TaskData
  <2> QED
    BY <1>1, <2>1 DEF TaskInv, PointerInv, PhaseInv, Task, TypeInv, TypeOK
<1>3. runs[k] = 0
  <2>1. ASSUME NEW u \in Worker, pc[u] = "running", running[u] = k
        PROVE  FALSE
    <3>1. Hands(u) /\ Data(u).task = k /\ u # w
      BY <1>1, <2>1 DEF TaskInv, PointerInv, Hands, HandPC
    <3> QED
      BY <1>1, <1>2, <3>1 DEF TaskInv, ClaimInv
  <2> QED
    BY <1>2, <2>1 DEF TaskInv, RunsInv
<1>4. /\ runs'[k] = 1 /\ \A m \in Task : m # k => runs'[m] = runs[m]
  BY <1>2, <1>3 DEF Invoke, TypeInv, TypeOK
<1>5. \A u \in Worker : Data(u)' = Data(u)
  BY <1>1 DEF Data
<1>6. SlotsInv' /\ DoneRan'
  BY <1>1 DEF TaskInv, SlotsInv, DoneRan
<1>7. PointerInv' /\ ClaimInv'
  BY <1>1, <1>5 DEF TaskInv, PointerInv, ClaimInv
<1>8. PhaseInv'
  BY <1>1, <1>2, <1>5 DEF TaskInv, PhaseInv
<1>9. RunsInv'
  <2>1. \A m \in Task : executed'[m] => runs'[m] = 1
    BY <1>1, <1>2, <1>4 DEF TaskInv, RunsInv
  <2>2. \A u \in Worker : pc'[u] = "running" => runs'[running'[u]] = 1
    BY <1>1, <1>2, <1>4 DEF TaskInv, RunsInv, TypeInv, RunningInv
  <2>3. ASSUME NEW m \in Task, runs'[m] # 0
        PROVE  /\ runs'[m] = 1 /\ m < nextTask'
               /\ executed'[m] \/ \E u \in Worker : pc'[u] = "running" /\ running'[u] = m
    <3>1. CASE m = k
      BY <1>1, <1>2, <1>4, <3>1
    <3>2. CASE m # k
      BY <1>1, <1>4, <2>3, <3>2 DEF TaskInv, RunsInv
    <3> QED
      BY <3>1, <3>2
  <2> QED
    BY <2>1, <2>2, <2>3 DEF RunsInv
<1> QED
  BY <1>6, <1>7, <1>8, <1>9 DEF TaskInv

\* An invocation ends: only this worker has the task.
LEMMA TaskInvoked ==
  ASSUME TypeInv, TypeInv', TaskInv, NEW w \in Worker, Invoked(w)
  PROVE  TaskInv'
<1> DEFINE k == running[w]
<1>1. /\ UNCHANGED <<mem, size, nextTask, at, stale, runs>>
      /\ Hands(w) /\ Hands(w)' /\ pc[w] = "running" /\ pc'[w] = "shouldBeRemoved"
      /\ \A u \in Worker : u # w => /\ pc'[u] = pc[u] /\ Hands(u)' = Hands(u)
                                     /\ running'[u] = running[u]
  BY DEF Invoked, taskVars, threadVars, Goto, Hands, HandPC, TypeInv, TypeOK
<1>2. k \in Task /\ k = Data(w).task /\ ~executed[k]
  <2>1. k \in Task /\ k = Data(w).task
    BY <1>1, Zenon DEF TaskInv, PointerInv, TypeInv, RunningInv
  <2>2. ~executed[Data(w).task]
    BY <1>1 DEF TaskInv, PhaseInv
  <2> QED
    BY <2>1, <2>2
<1>3. executed'[k] /\ \A m \in Task : m # k => executed'[m] = executed[m]
  BY <1>2 DEF Invoked, TypeInv, TypeOK
<1>4. \A u \in Worker : Data(u)' = Data(u)
  BY <1>1 DEF Data
<1>5. \A u \in Worker : Hands(u) => Data(u).task \in Task
  BY GivenOut, Zenon DEF TaskInv, PointerInv
<1>6. \A u \in Worker : Hands(u) /\ u # w => Data(u).task # k
  BY <1>1, <1>2 DEF TaskInv, ClaimInv
<1>7. SlotsInv'
  BY <1>1 DEF TaskInv, SlotsInv
<1>8. DoneRan'
  <2>1. \A i \in 1..size : mem[i].task \in Task
    BY GivenOut, Zenon DEF TaskInv, SlotsInv
  <2>2. \A i \in 1..size : executed[mem[i].task] => executed'[mem[i].task]
    BY <1>3, <2>1
  <2> QED
    BY <1>1, <2>2 DEF TaskInv, DoneRan
<1>9. PointerInv'
  BY <1>1, <1>4 DEF TaskInv, PointerInv
<1>10. ClaimInv'
  BY <1>1, <1>2, <1>3, <1>4, <1>5 DEF TaskInv, ClaimInv
<1>11. PhaseInv'
  BY <1>1, <1>2, <1>3, <1>4, <1>5, <1>6 DEF TaskInv, PhaseInv, Hands, HandPC
<1>12. RunsInv'
  <2>1. runs[k] = 1
    BY <1>1 DEF TaskInv, RunsInv
  <2>2. \A m \in Task : executed'[m] => runs'[m] = 1
    BY <1>1, <1>3, <2>1 DEF TaskInv, RunsInv
  <2>3. \A u \in Worker : pc'[u] = "running" => runs'[running'[u]] = 1
    BY <1>1 DEF TaskInv, RunsInv
  <2>4. ASSUME NEW m \in Task, runs'[m] # 0
        PROVE  /\ runs'[m] = 1 /\ m < nextTask'
               /\ executed'[m] \/ \E u \in Worker : pc'[u] = "running" /\ running'[u] = m
    BY <1>1, <1>3, <2>4 DEF TaskInv, RunsInv
  <2> QED
    BY <2>2, <2>3, <2>4 DEF RunsInv
<1> QED
  BY <1>7, <1>8, <1>9, <1>10, <1>11, <1>12 DEF TaskInv

\* A task is put down: it has been executed.
LEMMA TaskPutDown ==
  ASSUME TypeInv, TypeInv', TaskInv, NEW w \in Worker, RemoveTask(w)
  PROVE  TaskInv'
<1> DEFINE k == Data(w).task
<1>1. /\ size' = size /\ nextTask' = nextTask /\ running' = running
      /\ executed' = executed /\ runs' = runs
      /\ Hands(w) /\ ~Hands(w)' /\ pc[w] = "removeTask" /\ pc'[w] = "loop"
      /\ \A u \in Worker : u # w => /\ pc'[u] = pc[u] /\ Hands(u)' = Hands(u)
                                     /\ at'[u] = at[u] /\ stale'[u] = stale[u]
  BY DEF RemoveTask, PutDown, objectVars, Goto, Hands, HandPC, TypeInv, TypeOK
<1>2. executed[k]
  BY <1>1 DEF TaskInv, PhaseInv
<1>3. \A j \in 1..size : \/ mem'[j] = mem[j]
                         \/ /\ j = at[w] /\ mem'[j].isDone /\ mem'[j].task = mem[j].task
                            /\ mem[j].task = k
  <2>1. CASE at[w] = 0
    BY <2>1 DEF RemoveTask
  <2>2. CASE at[w] # 0
    <3>1. at[w] \in 1..Len(mem) /\ mem[at[w]] \in TaskData /\ k = mem[at[w]].task
      BY <2>2, BufferType DEF TypeInv, TypeOK, Data
    <3>2. Finished(mem[at[w]]) \in TaskData
      BY <3>1, Zenon DEF Finished, TaskData
    <3>3. \A j \in 1..Len(mem) : mem'[j] = IF j = at[w] THEN Finished(mem[at[w]]) ELSE mem[j]
      BY <2>2, <3>1, <3>2, SlotStep DEF RemoveTask
    <3>4. \A j \in 1..size : j \in 1..Len(mem)
      BY BufferType DEF TypeInv, TypeOK
    <3> QED
      BY <3>1, <3>3, <3>4, Fields
  <2> QED
    BY <2>1, <2>2
<1>4. ASSUME NEW u \in Worker, u # w, Hands(u)
      PROVE  Data(u)'.task = Data(u).task
  <2>1. at[u] = 0 \/ at[u] \in 1..size
    BY <1>4 DEF TaskInv, PointerInv, TypeInv, TypeOK
  <2> QED
    BY <1>1, <1>3, <1>4, <2>1 DEF Data
<1>5. SlotsInv'
  BY <1>1, <1>3 DEF TaskInv, SlotsInv
<1>6. DoneRan'
  BY <1>1, <1>2, <1>3 DEF TaskInv, DoneRan
<1>7. PointerInv'
  BY <1>1, <1>4 DEF TaskInv, PointerInv
<1>8. ClaimInv'
  BY <1>1, <1>2, <1>3, <1>4 DEF TaskInv, ClaimInv
<1>9. PhaseInv'
  BY <1>1, <1>4 DEF TaskInv, PhaseInv, Hands, HandPC
<1>10. RunsInv'
  BY <1>1 DEF TaskInv, RunsInv
<1> QED
  BY <1>5, <1>6, <1>7, <1>8, <1>9, <1>10 DEF TaskInv

\* A new task, with or without a new buffer.
LEMMA TaskAdd ==
  ASSUME TypeInv, TypeInv', TaskInv, taskAdd
  PROVE  TaskInv'
<1>1. /\ size' = size + 1 /\ nextTask' = nextTask + 1 /\ nextTask \in Task
      /\ UNCHANGED <<pc, running, executed, runs>>
      /\ \A u \in Worker : Hands(u)' = Hands(u)
  BY NumberAssumption DEF taskAdd, objectVars, Hands, Task, TypeInv, TypeOK
<1>2. size \in Nat /\ nextTask \in Nat
  BY BufferType DEF TypeInv, TypeOK
<1>3. /\ \A j \in 1..size : mem'[j] = mem[j]
      /\ mem'[size + 1].task = nextTask /\ ~mem'[size + 1].isDone
      /\ \A u \in Worker : Hands(u) => Data(u)' = Data(u) /\ at'[u] <= size
  <2>1. CASE size < Len(mem) /\ mem' = [mem EXCEPT ![size + 1] = Added(@)] /\ UNCHANGED <<at, stale>>
    <3>1. size + 1 \in 1..Len(mem) /\ \A d \in TaskData : Added(d) \in TaskData
      BY <1>1, <1>2, <2>1, BufferType DEF Added, TaskData
    <3>2. \A j \in 1..Len(mem) : mem'[j] = IF j = size + 1 THEN Added(mem[j]) ELSE mem[j]
      BY <2>1, <3>1, BufferType, SlotStep
    <3>3. \A j \in 1..size : mem'[j] = mem[j]
      BY <1>2, <3>1, <3>2
    <3>4. mem'[size + 1].task = nextTask /\ ~mem'[size + 1].isDone
      BY <3>1, <3>2 DEF Added
    <3>5. \A u \in Worker : Hands(u) => at[u] = 0 \/ at[u] \in 1..size
      BY DEF TaskInv, PointerInv, TypeInv, TypeOK
    <3> QED
      BY <1>2, <2>1, <3>3, <3>4, <3>5 DEF Data
  <2>2. CASE /\ size = Len(mem)
             /\ mem' = [i \in 1..Grown |-> IF i <= size THEN mem[i]
                                            ELSE IF i = size + 1 THEN Added(Unused) ELSE Unused]
             /\ at' = Each(0) /\ stale' = [w \in Worker |-> Data(w)]
    <3>1. Grown \in Nat /\ Grown >= size + 1
      BY <1>2, <2>2 DEF Grown
    <3>2. \A j \in 1..size : mem'[j] = mem[j]
      BY <1>2, <2>2, <3>1
    <3>3. mem'[size + 1] = Added(Unused)
      BY <1>2, <2>2, <3>1
    <3>4. \A u \in Worker : at'[u] = 0 /\ stale'[u] = Data(u)
      BY <2>2 DEF Each
    <3>5. \A u \in Worker : Data(u)' = Data(u)
      BY <3>4 DEF Data
    <3> QED
      BY <1>2, <3>2, <3>3, <3>4, <3>5 DEF Added
  <2> QED
    BY <2>1, <2>2 DEF taskAdd
<1>4. \A j \in 1..size' : j \in 1..size \/ j = size + 1
  BY <1>1, <1>2
<1>5. SlotsInv'
  <2>1. \A j \in 1..size : mem[j].task # nextTask
    BY <1>2 DEF TaskInv, SlotsInv
  <2>2. \A j \in 1..size' : mem'[j].task \in 1..(nextTask' - 1)
    BY <1>1, <1>2, <1>3, <1>4, SMTT(30) DEF TaskInv, SlotsInv, Task
  <2>3. \A i, j \in 1..size' : mem'[i].task = mem'[j].task => i = j
    BY <1>3, <1>4, <2>1 DEF TaskInv, SlotsInv
  <2> QED
    BY <2>2, <2>3 DEF SlotsInv
<1>6. DoneRan'
  BY <1>1, <1>3, <1>4 DEF TaskInv, DoneRan
<1>7. PointerInv'
  <2> SUFFICES ASSUME NEW u \in Worker, Hands(u)'
               PROVE  /\ at'[u] <= size' /\ Data(u)'.task \in 1..(nextTask' - 1)
                      /\ pc'[u] = "running" => running'[u] = Data(u)'.task
    BY DEF PointerInv
  <2>1. Hands(u) /\ Data(u)' = Data(u) /\ at'[u] <= size
    BY <1>1, <1>3
  <2>2. Data(u).task \in 1..(nextTask - 1) /\ (pc[u] = "running" => running[u] = Data(u).task)
    BY <2>1, Zenon DEF TaskInv, PointerInv
  <2>3. at'[u] \in Int
    BY DEF TypeInv, TypeOK
  <2> QED
    BY <1>1, <1>2, <2>1, <2>2, <2>3
<1>8. ClaimInv'
  <2>1. \A u \in Worker : Hands(u) => Data(u).task # nextTask
    BY <1>2 DEF TaskInv, PointerInv
  <2> QED
    BY <1>1, <1>3, <1>4, <2>1 DEF TaskInv, ClaimInv
<1>9. PhaseInv'
  BY <1>1, <1>3 DEF TaskInv, PhaseInv, Hands, HandPC
<1>10. RunsInv'
  BY <1>1, <1>2 DEF TaskInv, RunsInv, Task
<1> QED
  BY <1>5, <1>6, <1>7, <1>8, <1>9, <1>10 DEF TaskInv

\* A task is removed while no worker has one.
LEMMA TaskRemove ==
  ASSUME TypeInv, TypeInv', TaskInv, RemoveQuiet, NEW k \in Task, taskRemove(k)
  PROVE  TaskInv'
<1>1. /\ size' = size - 1
      /\ UNCHANGED <<nextTask, pc, running, executed, runs>>
      /\ \A u \in Worker : ~Hands(u)'
  BY DEF taskRemove, handVars, objectVars, Hands
<1>2. PICK i \in 1..size : mem' = [mem EXCEPT ![i] = IF i = size THEN [@ EXCEPT !.task = NULL] ELSE mem[size]]
  BY DEF taskRemove
<1>3. size \in 1..Len(mem) /\ i \in 1..Len(mem)
  BY <1>2, BufferType DEF TypeInv, TypeOK
<1>4. \A j \in 1..(size - 1) : mem'[j] = IF j = i THEN mem[size] ELSE mem[j]
  <2>1. (IF i = size THEN [mem[i] EXCEPT !.task = NULL] ELSE mem[size]) \in TaskData
    BY <1>3, BufferType DEF TaskData
  <2>2. \A j \in 1..Len(mem) :
          mem'[j] = IF j = i THEN IF i = size THEN [mem[i] EXCEPT !.task = NULL] ELSE mem[size] ELSE mem[j]
    BY <1>2, <1>3, <2>1, SlotStep
  <2> QED
    BY <1>2, <1>3, <2>2, BufferType
\* Where the task that slot j holds afterwards was before.
<1> DEFINE From(j) == IF j = i THEN size ELSE j
<1>5. /\ size \in Nat /\ size' = size - 1
      /\ \A j \in 1..size' : j \in 1..(size - 1)
  BY <1>1 DEF TypeInv, TypeOK
<1>6. \A j \in 1..size' : From(j) \in 1..size /\ mem'[j] = mem[From(j)]
  BY <1>2, <1>4, <1>5
<1>7. \A j, l \in 1..size' : From(j) = From(l) => j = l
  BY <1>2, <1>5
<1> HIDE DEF From
<1>8. SlotsInv'
  <2>1. \A j \in 1..size' : mem'[j].task \in 1..(nextTask' - 1)
    BY <1>1, <1>6 DEF TaskInv, SlotsInv
  <2>2. ASSUME NEW j \in 1..size', NEW l \in 1..size', mem'[j].task = mem'[l].task
        PROVE  j = l
    <3>1. mem[From(j)].task = mem[From(l)].task
      BY <1>6, <2>2
    <3>2. From(j) = From(l)
      BY <1>6, <3>1 DEF TaskInv, SlotsInv
    <3> QED
      BY <1>7, <3>2
  <2> QED
    BY <2>1, <2>2 DEF SlotsInv
<1>9. DoneRan'
  BY <1>1, <1>6 DEF TaskInv, DoneRan
<1>10. PointerInv' /\ ClaimInv' /\ PhaseInv'
  BY <1>1 DEF PointerInv, ClaimInv, PhaseInv, Hands, HandPC
<1>11. RunsInv'
  BY <1>1 DEF TaskInv, RunsInv
<1> QED
  BY <1>8, <1>9, <1>10, <1>11 DEF TaskInv

\* Nothing was ever given out in the first state.
LEMMA TaskInit == Init => TaskInv
<1> SUFFICES ASSUME Init
             PROVE  TaskInv
  OBVIOUS
<1>1. \A w \in Worker : pc[w] \in {"none", "start", "moved"}
  BY DEF Init
<1>2. SlotsInv /\ DoneRan
  BY DEF Init, SlotsInv, DoneRan
<1>3. PointerInv /\ ClaimInv /\ PhaseInv
  BY <1>1 DEF PointerInv, ClaimInv, PhaseInv, Hands, HandPC
<1>4. RunsInv
  BY <1>1 DEF Init, RunsInv
<1> QED
  BY <1>2, <1>3, <1>4 DEF TaskInv

LEMMA TaskNext == RemoveQuiet /\ TypeInv /\ TaskInv /\ [Next]_vars => TaskInv'
<1> SUFFICES ASSUME RemoveQuiet, TypeInv, TaskInv, [Next]_vars
             PROVE  TaskInv'
  OBVIOUS
<1>0. TypeInv'
  BY TypeNext
<1>1. ASSUME NEW w \in Worker, Work(w)
      PROVE  TaskInv'
  <2>1. ASSUME AssignStatus(w) \/ Exit(w)
        PROVE  TaskInv'
    <3>1. /\ UNCHANGED <<taskVars, handVars, objectVars>>
          /\ \A u \in Worker : pc'[u] = pc[u] \/ (~Hands(u) /\ pc'[u] \notin HandPC)
      BY <2>1 DEF AssignStatus, Exit, Goto, Hands, HandPC, TypeInv, TypeOK
    <3> QED
      BY <1>0, <3>1, TaskQuiet
  <2>2. ASSUME ShouldBeRemoved(w)
        PROVE  ShouldBeRemoved(w) /\ Goto(w, "removeTask")
    BY <2>2 DEF ShouldBeRemoved, TaskInv, PhaseInv
  <2> QED
    BY <1>0, <1>1, <2>1, <2>2, TaskGet, TaskLook, TaskInvoke, TaskInvoked, TaskPutDown DEF Work
<1>2. ASSUME (\E w \in Worker : threadAdd(w)) \/ threadRemove \/ threadJoin \/ Destroy \/ Stop \/ UNCHANGED vars
      PROVE  TaskInv'
  <2>1. UNCHANGED <<taskVars, handVars, objectVars>>
    BY <1>2 DEF threadAdd, threadRemove, threadJoin, Destroy, Stop, StopRunning, JoinAll, vars
  <2>2. \A u \in Worker : pc'[u] = pc[u] \/ (~Hands(u) /\ pc'[u] \notin HandPC)
    BY <1>2 DEF threadAdd, threadRemove, threadJoin, Destroy, Stop, StopRunning, JoinAll, vars,
                Goto, Hands, HandPC, TypeInv, TypeOK
  <2> QED
    BY <1>0, <2>1, <2>2, TaskQuiet
<1> QED
  BY <1>0, <1>1, <1>2, TaskAdd, TaskRemove DEF Next

\* If no task is removed while a worker has one in hand, no task is invoked
\* twice, whatever slots, buffers and threads come and go around the workers'
\* pointers.
THEOREM RunsOnceCorrect ==
  ASSUME RemoveQuiet
  PROVE  Spec => []RunsOnce
<1>0. TypeInv /\ TaskInv /\ [Next]_vars => TaskInv'
  BY TaskNext
<1>1. TypeInv /\ TaskInv => RunsOnce
  BY SMT DEF TaskInv, RunsInv, RunsOnce
<1> QED
  BY TypeInit, TypeNext, TaskInit, <1>0, <1>1, PTL DEF Spec

\* Under the same assumption a task listed as done has been executed.
THEOREM DoneRanCorrect ==
  ASSUME RemoveQuiet
  PROVE  Spec => []DoneRan
<1>0. TypeInv /\ TaskInv /\ [Next]_vars => TaskInv'
  BY TaskNext
<1>1. TaskInv => DoneRan
  BY DEF TaskInv
<1> QED
  BY TypeInit, TypeNext, TaskInit, <1>0, <1>1, PTL DEF Spec

-----------------------------------------------------------------------------
(* The destructor.                                                         *)

StopInv == ThreadsInv /\ OverInv

LEMMA StopInit == Init => StopInv
<1> SUFFICES ASSUME Init
             PROVE  StopInv
  OBVIOUS
<1>1. OverInv
  BY DEF Init, OverInv
<1>2. ThreadsInv
  BY DEF Init, ThreadsInv
<1> QED
  BY <1>1, <1>2 DEF StopInv

\* Workers never take a task's flag back.
LEMMA DoneStays ==
  ASSUME TypeInv, NEW w \in Worker, Work(w)
  PROVE  /\ size' = size
         /\ \A j \in 1..size : mem[j].isDone => mem'[j].isDone
<1>1. CASE GetTask(w)
  <2>1. PICK i \in 1..size : mem' = [mem EXCEPT ![i].isProcessing = TRUE]
    BY <1>1 DEF GetTask
  <2>2. i \in 1..Len(mem) /\ mem[i] \in TaskData /\ \A j \in 1..size : j \in 1..Len(mem)
    BY BufferType DEF TypeInv, TypeOK
  <2>3. [mem[i] EXCEPT !.isProcessing = TRUE] \in TaskData
    BY <2>2, Zenon DEF TaskData
  <2>4. \A j \in 1..size : mem'[j] = IF j = i THEN [mem[i] EXCEPT !.isProcessing = TRUE] ELSE mem[j]
    BY <2>1, <2>2, <2>3, SlotStep
  <2> QED
    BY <1>1, <2>2, <2>4, Fields DEF GetTask
<1>2. CASE RemoveTask(w)
  <2>1. CASE at[w] = 0
    BY <1>2, <2>1 DEF RemoveTask, PutDown
  <2>2. CASE at[w] # 0
    <3>1. at[w] \in 1..Len(mem) /\ mem[at[w]] \in TaskData /\ \A j \in 1..size : j \in 1..Len(mem)
      BY <2>2, BufferType DEF TypeInv, TypeOK
    <3>2. Finished(mem[at[w]]) \in TaskData
      BY <3>1, Zenon DEF Finished, TaskData
    <3>3. \A j \in 1..Len(mem) : mem'[j] = IF j = at[w] THEN Finished(mem[at[w]]) ELSE mem[j]
      BY <1>2, <2>2, <3>1, <3>2, SlotStep DEF RemoveTask
    <3> QED
      BY <1>2, <3>1, <3>3, Fields DEF RemoveTask, PutDown
  <2> QED
    BY <2>1, <2>2
<1>3. CASE ShouldBeRemoved(w)
  BY <1>3 DEF ShouldBeRemoved, PutDown, taskVars
<1>4. CASE AssignStatus(w) \/ ShouldBeInvoked(w) \/ Invoke(w) \/ Invoked(w) \/ Exit(w)
  BY <1>4 DEF AssignStatus, ShouldBeInvoked, Invoke, Invoked, Exit, taskVars
<1> QED
  BY <1>1, <1>2, <1>3, <1>4 DEF Work

\* A worker's step leaves the threads as they are; one that exited stays so.
LEMMA WorkThreads ==
  ASSUME TypeInv, NEW w \in Worker, Work(w)
  PROVE  /\ UNCHANGED <<threads, destructor>>
         /\ pc[w] \notin {"none", "joined", "exited"} /\ pc'[w] \notin {"none", "joined"}
         /\ \A u \in Worker : u # w => pc'[u] = pc[u]
BY DEF Work, AssignStatus, GetTask, ShouldBeInvoked, Invoke, Invoked, ShouldBeRemoved, RemoveTask,
       PutDown, Exit, Goto, threadVars, HandPC, TypeInv, TypeOK

LEMMA StopNext == TypeInv /\ StopInv /\ [Next]_vars => StopInv'
<1> SUFFICES ASSUME TypeInv, StopInv, [Next]_vars
             PROVE  StopInv'
  OBVIOUS
<1> USE DEF StopInv, ThreadsInv, OverInv, AllDone
<1>0. /\ Len(threads) \in Nat /\ size \in Nat
      /\ \A i \in 1..Len(threads) : threads[i] \in Worker
      /\ pc \in [Worker -> HandPC \union {"none", "start", "moved", "loop", "exited", "joined"}]
  BY BufferType, LenProperties, ElementOfSeq DEF TypeInv, TypeOK
<1>1. ASSUME NEW w \in Worker, Work(w)
      PROVE  StopInv'
  <2>1. ThreadsInv'
    BY <1>1, WorkThreads
  <2>2. OverInv'
    BY <1>0, <1>1, WorkThreads, DoneStays
  <2> QED
    BY <2>1, <2>2
<1>2. ASSUME NEW w \in Worker, threadAdd(w)
      PROVE  StopInv'
  <2>1. /\ Len(threads') = Len(threads) + 1 /\ threads'[Len(threads) + 1] = w
        /\ \A i \in 1..Len(threads) : threads'[i] = threads[i]
        /\ destructor' = "none"
    BY <1>2, AppendProperties DEF threadAdd, TypeInv, TypeOK
  <2>2. \A u \in Worker : u # w => (pc'[u] \notin {"none", "joined"} => pc[u] \notin {"none", "joined"})
    BY <1>2 DEF threadAdd, TypeInv, TypeOK
  <2>3. ASSUME NEW u \in Worker, pc'[u] \notin {"none", "joined"}
        PROVE  \E i \in 1..Len(threads') : threads'[i] = u
    BY <1>0, <2>1, <2>2, <2>3
  <2> QED
    BY <2>1, <2>3
<1>3. ASSUME taskAdd \/ \E k \in Task : taskRemove(k)
      PROVE  StopInv'
  BY <1>3 DEF taskAdd, taskRemove, threadVars
<1>4. ASSUME threadRemove \/ Destroy
      PROVE  StopInv'
  BY <1>4 DEF threadRemove, Destroy, taskVars, threadVars
<1>5. ASSUME threadJoin
      PROVE  StopInv'
  <2>1. /\ removing = threads[Len(threads)] /\ Len(threads) > 1 /\ destructor = "none"
        /\ removing \in Worker
    BY <1>5 DEF threadJoin, TypeInv, LastInv, TypeOK
  <2>2. /\ Len(threads') = Len(threads) - 1
        /\ \A i \in 1..(Len(threads) - 1) : threads'[i] = threads[i]
    BY <1>0, <1>5, <2>1, SubSeqProperties DEF threadJoin
  <2>3. pc'[removing] = "joined" /\ \A u \in Worker : u # removing => pc'[u] = pc[u]
    BY <1>0, <1>5, <2>1 DEF threadJoin, Goto
  <2>4. ASSUME NEW u \in Worker, pc'[u] \notin {"none", "joined"}
        PROVE  \E i \in 1..Len(threads') : threads'[i] = u
    <3>1. u # removing /\ \E i \in 1..Len(threads) : threads[i] = u
      BY <2>3, <2>4
    <3> QED
      BY <1>0, <2>1, <2>2, <3>1
  <2>5. destructor' = "none"
    BY <1>5, <2>1 DEF threadJoin
  <2> QED
    BY <2>4, <2>5
<1>6. ASSUME Stop
      PROVE  StopInv'
  BY <1>6 DEF Stop, StopRunning, JoinAll, taskVars, threadVars
<1>7. ASSUME UNCHANGED vars
      PROVE  StopInv'
  BY <1>7 DEF vars, taskVars, threadVars
<1> QED
  BY <1>1, <1>2, <1>3, <1>4, <1>5, <1>6, <1>7 DEF Next

\* When the destructor has returned, every task that was not removed has run
\* to its end exactly once and every thread has exited.
THEOREM StoppedCorrect ==
  ASSUME RemoveQuiet
  PROVE  Spec => []StoppedClean
<1>0. TypeInv /\ TaskInv /\ [Next]_vars => TaskInv'
  BY TaskNext
<1>1. TypeInv /\ TaskInv /\ StopInv => StoppedClean
  <2> SUFFICES ASSUME TypeInv, TaskInv, StopInv, destructor = "over"
               PROVE  /\ \A i \in 1..size : runs[mem[i].task] = 1 /\ executed[mem[i].task]
                      /\ \A w \in Worker : pc[w] \in {"none", "exited", "joined"}
    BY DEF StoppedClean
  <2>1. \A i \in 1..size : mem[i].task \in Task /\ mem[i].isDone
    BY NumberAssumption DEF TaskInv, SlotsInv, StopInv, OverInv, AllDone, TypeInv, TypeOK, Task
  <2>2. \A i \in 1..size : runs[mem[i].task] = 1 /\ executed[mem[i].task]
    BY <2>1 DEF TaskInv, DoneRan, RunsInv
  <2>3. \A w \in Worker : pc[w] \in {"none", "exited", "joined"}
    BY DEF StopInv, ThreadsInv, OverInv
  <2> QED
    BY <2>2, <2>3
<1> QED
  BY TypeInit, TypeNext, TaskInit, <1>0, StopInit, StopNext, <1>1, PTL DEF Spec

=============================================================================
