------------------------ MODULE CooperativeSpinlock ------------------------
(***************************************************************************)
(* The readers-writer lock of datastructures/Spinlock, one atomic access   *)
(* at a time.  Each thread takes and releases it over and over, as         *)
(* a reader (cooperatively) or as a writer (exclusively).                  *)
(***************************************************************************)
EXTENDS Integers, FiniteSets

CONSTANT Thread

ASSUME ThreadAssumption == IsFiniteSet(Thread)

VARIABLES
  coopCount,       \* readers inside
  exclusiveCount,  \* writers inside or waiting
  unique,          \* flag of the spinlock that guards both increments
  exclusive,       \* flag of the spinlock the writers share
  pc               \* pc[t]: the access thread t makes next

vars == <<coopCount, exclusiveCount, unique, exclusive, pc>>

ReaderPC == {"coopSpin", "coopLock", "coopCount", "coopUnlock", "reading"}
WriterPC == {"exclusiveLock", "exclusiveCount", "exclusiveUnlock", "exclusiveSpin",
             "exclusiveEnter", "writing", "exclusiveLeave"}

Init ==
  /\ coopCount = 0
  /\ exclusiveCount = 0
  /\ unique = FALSE
  /\ exclusive = FALSE
  /\ pc = [t \in Thread |-> "idle"]

Step(t, from, to) == pc[t] = from /\ pc' = [pc EXCEPT ![t] = to]

Request(t) ==
  /\ Step(t, "idle", "coopSpin") \/ Step(t, "idle", "exclusiveLock")
  /\ UNCHANGED <<coopCount, exclusiveCount, unique, exclusive>>

-----------------------------------------------------------------------------
(* Readers.                                                                *)

CoopSpin_IgnoresWriters(t) ==
  /\ Step(t, "coopSpin", "coopLock")
  /\ UNCHANGED <<coopCount, exclusiveCount, unique, exclusive>>

\* Wait until no writer is inside or waiting ...
CoopSpin(t) ==
  /\ Step(t, "coopSpin", "coopLock")
  /\ exclusiveCount = 0
  /\ UNCHANGED <<coopCount, exclusiveCount, unique, exclusive>>

CoopLock(t) ==
  /\ Step(t, "coopLock", "coopCount")
  /\ ~unique /\ unique' = TRUE
  /\ UNCHANGED <<coopCount, exclusiveCount, exclusive>>

\* ... and come in, without another look at the writers.
CoopCount(t) ==
  /\ Step(t, "coopCount", "coopUnlock")
  /\ coopCount' = coopCount + 1
  /\ UNCHANGED <<exclusiveCount, unique, exclusive>>

CoopUnlock(t) ==
  /\ Step(t, "coopUnlock", "reading")
  /\ unique' = FALSE
  /\ UNCHANGED <<coopCount, exclusiveCount, exclusive>>

CoopRemove_NotCounted(t) ==
  /\ Step(t, "reading", "idle")
  /\ UNCHANGED <<coopCount, exclusiveCount, unique, exclusive>>

CoopRemove(t) ==
  /\ Step(t, "reading", "idle")
  /\ coopCount' = coopCount - 1
  /\ UNCHANGED <<exclusiveCount, unique, exclusive>>

-----------------------------------------------------------------------------
(* Writers.                                                                *)

ExclusiveLock(t) ==
  /\ Step(t, "exclusiveLock", "exclusiveCount")
  /\ ~unique /\ unique' = TRUE
  /\ UNCHANGED <<coopCount, exclusiveCount, exclusive>>

ExclusiveCount(t) ==
  /\ Step(t, "exclusiveCount", "exclusiveUnlock")
  /\ exclusiveCount' = exclusiveCount + 1
  /\ UNCHANGED <<coopCount, unique, exclusive>>

ExclusiveUnlock(t) ==
  /\ Step(t, "exclusiveUnlock", "exclusiveSpin")
  /\ unique' = FALSE
  /\ UNCHANGED <<coopCount, exclusiveCount, exclusive>>

\* Wait until no reader is inside, then for the other writers.
ExclusiveSpin(t) ==
  /\ Step(t, "exclusiveSpin", "exclusiveEnter")
  /\ coopCount = 0
  /\ UNCHANGED <<coopCount, exclusiveCount, unique, exclusive>>

ExclusiveEnter_Barging(t) ==
  /\ Step(t, "exclusiveEnter", "writing")
  /\ exclusive' = TRUE
  /\ UNCHANGED <<coopCount, exclusiveCount, unique>>

ExclusiveEnter(t) ==
  /\ Step(t, "exclusiveEnter", "writing")
  /\ ~exclusive /\ exclusive' = TRUE
  /\ UNCHANGED <<coopCount, exclusiveCount, unique>>

ExclusiveRemove(t) ==
  /\ Step(t, "writing", "exclusiveLeave")
  /\ exclusive' = FALSE
  /\ UNCHANGED <<coopCount, exclusiveCount, unique>>

ExclusiveLeave(t) ==
  /\ Step(t, "exclusiveLeave", "idle")
  /\ exclusiveCount' = exclusiveCount - 1
  /\ UNCHANGED <<coopCount, unique, exclusive>>

-----------------------------------------------------------------------------

Reader(t) == CoopSpin(t) \/ CoopLock(t) \/ CoopCount(t) \/ CoopUnlock(t) \/ CoopRemove(t)

Writer(t) ==
  \/ ExclusiveLock(t) \/ ExclusiveCount(t) \/ ExclusiveUnlock(t) \/ ExclusiveSpin(t)
  \/ ExclusiveEnter(t) \/ ExclusiveRemove(t) \/ ExclusiveLeave(t)

Next == \E t \in Thread : Request(t) \/ Reader(t) \/ Writer(t)

Spec == Init /\ [][Next]_vars

\* A thread that has begun goes on: it spins, but it is scheduled.
FairSpec == Spec /\ \A t \in Thread : WF_vars(Reader(t) \/ Writer(t))

-----------------------------------------------------------------------------
(* Properties.                                                             *)

Waiting(t) == pc[t] \in {"exclusiveUnlock", "exclusiveSpin", "exclusiveEnter"}

Inside(t)  == pc[t] \in {"coopUnlock", "reading"}
Counted(t) == Waiting(t) \/ pc[t] \in {"writing", "exclusiveLeave"}

TypeOK ==
  /\ coopCount \in Int /\ exclusiveCount \in Int
  /\ unique \in BOOLEAN /\ exclusive \in BOOLEAN
  /\ pc \in [Thread -> {"idle"} \union ReaderPC \union WriterPC]

\* Neither count is ever off: a reader or a writer that has left is not counted
\* and one that is inside is, so the lock ends up free after everybody left.
CountsExact ==
  /\ coopCount = Cardinality({t \in Thread : Inside(t)})
  /\ exclusiveCount = Cardinality({t \in Thread : Counted(t)})

\* Spinlock.h:42: "Allows multiple readers but only 1 writer".
WritersExclude ==
  \A t, u \in Thread : pc[t] = "writing" /\ pc[u] = "writing" => t = u

\* Spinlock.h:43: "If a writer is waiting don't allow new readers".  So readers
\* that come and go without end do not keep a counted writer out.
WriterGetsIn == (\E t \in Thread : Waiting(t)) ~> (\E t \in Thread : pc[t] = "writing")

=============================================================================
