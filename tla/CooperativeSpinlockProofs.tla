--------------------- MODULE CooperativeSpinlockProofs ---------------------
(***************************************************************************)
(* Proofs about CooperativeSpinlock, for every number of threads.          *)
(***************************************************************************)
EXTENDS CooperativeSpinlock, FiniteSetTheorems, TLAPS

\* Every variable starts with its type.
LEMMA TypeInit == Init => TypeOK
<1> SUFFICES ASSUME Init
             PROVE  TypeOK
  OBVIOUS
<1>1. coopCount \in Int /\ exclusiveCount \in Int
  BY SMT DEF Init
<1>2. unique \in BOOLEAN /\ exclusive \in BOOLEAN
  BY Zenon DEF Init
<1>3. pc \in [Thread -> {"idle"} \union ReaderPC \union WriterPC]
  BY SMT DEF Init
<1> QED
  BY <1>1, <1>2, <1>3, Zenon DEF TypeOK

\* Each step keeps every variable's type.
LEMMA TypeStep == TypeOK /\ [Next]_vars => TypeOK'
<1> SUFFICES ASSUME TypeOK, [Next]_vars
             PROVE  TypeOK'
  OBVIOUS
<1> USE DEF TypeOK, Step, ReaderPC, WriterPC, Request, Reader, Writer, CoopSpin, CoopLock,
            CoopCount, CoopUnlock, CoopRemove, ExclusiveLock, ExclusiveCount, ExclusiveUnlock,
            ExclusiveSpin, ExclusiveEnter, ExclusiveRemove, ExclusiveLeave
<1>1. ASSUME NEW t \in Thread, Request(t) \/ Reader(t) \/ Writer(t)
      PROVE  TypeOK'
  <2>1. coopCount' \in Int /\ exclusiveCount' \in Int
    BY <1>1, SMT
  <2>2. unique' \in BOOLEAN /\ exclusive' \in BOOLEAN
    BY <1>1, Zenon
  <2>3. pc' \in [Thread -> {"idle"} \union ReaderPC \union WriterPC]
    BY <1>1, SMT
  <2> QED
    BY <2>1, <2>2, <2>3, Zenon
<1>2. CASE UNCHANGED vars
  BY <1>2, Zenon DEF vars
<1> QED
  BY <1>1, <1>2 DEF Next

\* The lock's counts, flags and phases keep their types.
THEOREM TypeCorrect == Spec => []TypeOK
BY TypeInit, TypeStep, PTL DEF Spec

-----------------------------------------------------------------------------
(* Mutual exclusion of the writers.                                        *)

\* The flag `exclusive' is set exactly while one thread writes.
WriterInv ==
  /\ TypeOK
  /\ exclusive <=> \E t \in Thread : pc[t] = "writing"
  /\ WritersExclude

\* Each step keeps the flag and the writer in agreement.
LEMMA WriterStep == WriterInv /\ [Next]_vars => WriterInv'
<1> SUFFICES ASSUME WriterInv, [Next]_vars
             PROVE  WriterInv'
  OBVIOUS
<1> USE DEF WriterInv, WritersExclude
<1>0. TypeOK'
  BY TypeStep
<1>1. ASSUME NEW t \in Thread, ExclusiveEnter(t)
      PROVE  WriterInv'
  BY <1>0, <1>1 DEF ExclusiveEnter, Step, TypeOK
<1>2. ASSUME NEW t \in Thread, ExclusiveRemove(t)
      PROVE  WriterInv'
  BY <1>0, <1>2 DEF ExclusiveRemove, Step, TypeOK
<1>3. ASSUME NEW t \in Thread, NEW from, NEW to, Step(t, from, to), UNCHANGED exclusive,
             from # "writing", to # "writing"
      PROVE  WriterInv'
  BY <1>0, <1>3 DEF Step, TypeOK
<1>4. ASSUME NEW t \in Thread, Request(t) \/ Reader(t)
      PROVE  WriterInv'
  BY <1>3, <1>4
  DEF Request, Reader, CoopSpin, CoopLock, CoopCount, CoopUnlock, CoopRemove
<1>5. ASSUME NEW t \in Thread, Writer(t)
      PROVE  WriterInv'
  BY <1>1, <1>2, <1>3, <1>5
  DEF Writer, ExclusiveLock, ExclusiveCount, ExclusiveUnlock, ExclusiveSpin, ExclusiveLeave
<1>6. CASE UNCHANGED vars
  BY <1>0, <1>6 DEF vars
<1> QED
  BY <1>4, <1>5, <1>6 DEF Next

\* However many threads contend and however their accesses interleave, no two
\* of them hold the lock exclusively at one time.
THEOREM WritersCorrect == Spec => []WritersExclude
<1>1. Init => WriterInv
  <2>1. ASSUME Init PROVE ~exclusive /\ \A t \in Thread : pc[t] # "writing"
    BY <2>1 DEF Init
  <2> QED
    BY <2>1, TypeInit DEF WriterInv, WritersExclude
<1>2. WriterInv => WritersExclude
  BY DEF WriterInv
<1> QED
  BY <1>1, <1>2, WriterStep, PTL DEF Spec

-----------------------------------------------------------------------------
(* The counts.                                                             *)

InsideSet  == {t \in Thread : Inside(t)}
CountedSet == {t \in Thread : Counted(t)}

\* How the size of a set of threads changes when one joins or leaves it.
LEMMA Counting ==
  ASSUME NEW S \in SUBSET Thread, NEW t \in Thread
  PROVE  /\ Cardinality(S) \in Nat
         /\ t \notin S => Cardinality(S \union {t}) = Cardinality(S) + 1
         /\ t \in S => Cardinality(S \ {t}) = Cardinality(S) - 1
<1>1. IsFiniteSet(S)
  BY ThreadAssumption, FS_Subset
<1> QED
  BY <1>1, FS_CardinalityType, FS_AddElement, FS_RemoveElement

CountInv == TypeOK /\ CountsExact

\* Each step changes a count exactly when its thread joins or leaves the set.
LEMMA CountStep == CountInv /\ [Next]_vars => CountInv'
<1> SUFFICES ASSUME CountInv, [Next]_vars
             PROVE  CountInv'
  OBVIOUS
<1>0. TypeOK /\ TypeOK'
  BY TypeStep DEF CountInv
<1>c. coopCount = Cardinality(InsideSet) /\ exclusiveCount = Cardinality(CountedSet)
  BY DEF CountInv, CountsExact, InsideSet, CountedSet
<1>q. SUFFICES coopCount' = Cardinality(InsideSet') /\ exclusiveCount' = Cardinality(CountedSet')
  BY <1>0 DEF CountInv, CountsExact, InsideSet, CountedSet
<1>1. CASE UNCHANGED vars
  <2>1. InsideSet' = InsideSet /\ CountedSet' = CountedSet
    BY <1>1 DEF vars, InsideSet, CountedSet, Inside, Counted, Waiting
  <2> QED BY <1>1, <1>c, <2>1 DEF vars
<1>2. ASSUME NEW t \in Thread, Request(t) \/ Reader(t) \/ Writer(t)
      PROVE  coopCount' = Cardinality(InsideSet') /\ exclusiveCount' = Cardinality(CountedSet')
  <2> USE DEF Step, TypeOK, InsideSet, CountedSet, Inside, Counted, Waiting
  <2>1. CASE CoopCount(t)
    <3>1. InsideSet' = InsideSet \union {t} /\ t \notin InsideSet /\ CountedSet' = CountedSet
      BY <1>0, <2>1 DEF CoopCount
    <3> QED
      BY <1>c, <2>1, <3>1, Counting DEF CoopCount
  <2>2. CASE CoopRemove(t)
    <3>1. InsideSet' = InsideSet \ {t} /\ t \in InsideSet /\ CountedSet' = CountedSet
      BY <1>0, <2>2 DEF CoopRemove
    <3> QED
      BY <1>c, <2>2, <3>1, Counting DEF CoopRemove
  <2>3. CASE ExclusiveCount(t)
    <3>1. CountedSet' = CountedSet \union {t} /\ t \notin CountedSet /\ InsideSet' = InsideSet
      BY <1>0, <2>3 DEF ExclusiveCount
    <3> QED
      BY <1>c, <2>3, <3>1, Counting DEF ExclusiveCount
  <2>4. CASE ExclusiveLeave(t)
    <3>1. CountedSet' = CountedSet \ {t} /\ t \in CountedSet /\ InsideSet' = InsideSet
      BY <1>0, <2>4 DEF ExclusiveLeave
    <3> QED
      BY <1>c, <2>4, <3>1, Counting DEF ExclusiveLeave
  <2>5. CASE Request(t) \/ CoopSpin(t) \/ CoopLock(t) \/ CoopUnlock(t)
    <3>1. InsideSet' = InsideSet /\ CountedSet' = CountedSet
      BY <1>0, <2>5 DEF Request, CoopSpin, CoopLock, CoopUnlock
    <3>2. UNCHANGED <<coopCount, exclusiveCount>>
      BY <2>5 DEF Request, CoopSpin, CoopLock, CoopUnlock
    <3> QED
      BY <1>c, <3>1, <3>2
  <2>6. CASE \/ ExclusiveLock(t) \/ ExclusiveUnlock(t) \/ ExclusiveSpin(t)
             \/ ExclusiveEnter(t) \/ ExclusiveRemove(t)
    <3>1. InsideSet' = InsideSet /\ CountedSet' = CountedSet
      BY <1>0, <2>6
      DEF ExclusiveLock, ExclusiveUnlock, ExclusiveSpin, ExclusiveEnter, ExclusiveRemove
    <3>2. UNCHANGED <<coopCount, exclusiveCount>>
      BY <2>6
      DEF ExclusiveLock, ExclusiveUnlock, ExclusiveSpin, ExclusiveEnter, ExclusiveRemove
    <3> QED
      BY <1>c, <3>1, <3>2
  <2> QED
    BY <1>2, <2>1, <2>2, <2>3, <2>4, <2>5, <2>6 DEF Reader, Writer
<1> QED
  BY <1>1, <1>2 DEF Next

\* However many threads come and go, both counts are exact at every instant.
THEOREM CountsCorrect == Spec => []CountsExact
<1>1. Init => CountInv
  <2>1. Init => {t \in Thread : Inside(t)} = {} /\ {t \in Thread : Counted(t)} = {}
    BY DEF Init, Inside, Counted, Waiting
  <2> QED
    BY <2>1, TypeInit, FS_EmptySet DEF Init, CountInv, CountsExact
<1>2. CountInv => CountsExact
  BY DEF CountInv
<1> QED
  BY <1>1, <1>2, CountStep, PTL DEF Spec

=============================================================================
