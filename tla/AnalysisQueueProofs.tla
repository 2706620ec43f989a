------------------------ MODULE AnalysisQueueProofs ------------------------
(***************************************************************************)
(* For any number of task slots, any capacity and any number of permits:   *)
(* the counter of the queue is the number of jobs that exist, it never     *)
(* exceeds the capacity, and the permits are never exceeded.               *)
(***************************************************************************)
EXTENDS AnalysisQueue, FiniteSetTheorems, SequenceTheorems, TLAPS

(* PendingCountsLive and WithinLimits are not inductive alone: Submit and  *)
(* Acquire add one element to a set and to a sequence, and the counts move *)
(* together only if that element was in neither before (TasksDistinct).    *)
QueueInv ==
    /\ QueueTypeOK
    /\ TasksDistinct
    /\ PendingCountsLive
    /\ WithinLimits

-----------------------------------------------------------------------------
(* The permits in use are counted by a natural number. *)
LEMMA RunningIsFinite ==
    ASSUME QueueTypeOK
    PROVE  IsFiniteSet(running) /\ Cardinality(running) \in Nat
BY QueueAssumption, FS_Subset, FS_CardinalityType DEF QueueTypeOK

(* A slot is waiting exactly if it is at some position of the sequence. *)
LEMMA WaitingPositions ==
    ASSUME QueueTypeOK, NEW t
    PROVE  t \in Waiting <=> \E i \in 1..Len(waiting) : waiting[i] = t
BY LenProperties DEF QueueTypeOK, Waiting

(* A queue that is not full has a slot that no job holds, so a job that is  *)
(* let in always finds one.                                                *)
LEMMA SomeSlotIsFree ==
    ASSUME QueueInv, ~IsFull
    PROVE  \E t \in Tasks : t \notin Live
<1> USE DEF QueueInv
<1>1. Len(waiting) \in Nat /\ waiting \in [1..Len(waiting) -> Waiting]
    BY WaitingPositions, LenProperties DEF QueueTypeOK, Waiting
<1>2. waiting \in Surjection(1..Len(waiting), Waiting)
    BY <1>1, WaitingPositions DEF Surjection
<1>3. IsFiniteSet(Waiting) /\ Cardinality(Waiting) <= Len(waiting)
    <2>1. IsFiniteSet(1..Len(waiting)) /\ Cardinality(1..Len(waiting)) = Len(waiting)
        BY <1>1, FS_Interval
    <2> QED
        BY <1>2, <2>1, FS_Surjection
<1>4. Cardinality(Waiting) \in Nat
    BY <1>3, FS_CardinalityType
<1>5. IsFiniteSet(running) /\ Cardinality(running) \in Nat
    BY RunningIsFinite
<1>6. Cardinality(Waiting \cap running) = 0
    BY FS_EmptySet DEF TasksDistinct
<1>7. IsFiniteSet(Live) /\ Cardinality(Live) = Cardinality(Waiting) + Cardinality(running)
    <2>1. /\ IsFiniteSet(Live)
          /\ Cardinality(Live) = Cardinality(Waiting) + Cardinality(running)
                                    - Cardinality(Waiting \cap running)
        BY <1>3, <1>5, FS_Union DEF Live
    <2> QED
        BY <2>1, <1>4, <1>5, <1>6
<1>8. Cardinality(Live) < Capacity
    BY <1>1, <1>3, <1>4, <1>5, <1>7, QueueAssumption DEF PendingCountsLive, IsFull, QueueTypeOK
<1>9. SUFFICES ASSUME Tasks \subseteq Live PROVE FALSE
    OBVIOUS
<1>10. Cardinality(Tasks) <= Cardinality(Live)
    BY <1>7, <1>9, FS_Subset
<1>11. Cardinality(Tasks) \in Nat /\ Cardinality(Live) \in Nat
    BY <1>7, QueueAssumption, FS_CardinalityType
<1> QED
    BY <1>8, <1>10, <1>11, QueueAssumption

LEMMA QueueInitInv == QueueInit => QueueInv
<1> SUFFICES ASSUME QueueInit PROVE QueueInv
    OBVIOUS
<1>1. QueueTypeOK
    BY EmptySeq DEF QueueInit, QueueTypeOK
<1>2. Cardinality(running) = 0
    BY FS_EmptySet DEF QueueInit
<1>3. TasksDistinct
    BY DEF QueueInit, TasksDistinct, Waiting
<1>4. PendingCountsLive /\ WithinLimits
    BY <1>2, QueueAssumption DEF QueueInit, PendingCountsLive, WithinLimits
<1> QED
    BY <1>1, <1>3, <1>4 DEF QueueInv

LEMMA SubmitInv ==
    ASSUME QueueInv, NEW t \in Tasks, Submit(t)
    PROVE  QueueInv'
<1> USE DEF QueueInv, Submit
<1>1. QueueTypeOK'
    BY AppendProperties DEF QueueTypeOK
<1>2. /\ Len(waiting') = Len(waiting) + 1
      /\ \A i \in 1..Len(waiting) : waiting'[i] = waiting[i]
      /\ waiting'[Len(waiting) + 1] = t
    BY AppendProperties DEF QueueTypeOK
<1>3. Len(waiting) \in Nat /\ DOMAIN waiting = 1..Len(waiting)
    BY LenProperties DEF QueueTypeOK
<1>4. DOMAIN waiting' = 1..Len(waiting) + 1
    BY <1>1, <1>2, LenProperties DEF QueueTypeOK
<1>5. t \notin running /\ \A i \in 1..Len(waiting) : waiting[i] # t
    BY <1>3 DEF Live, Waiting
<1>6. TasksDistinct'
    BY <1>2, <1>3, <1>4, <1>5 DEF TasksDistinct, Waiting
<1>7. Cardinality(running) \in Nat
    BY RunningIsFinite
<1>8. PendingCountsLive'
    BY <1>2, <1>3, <1>7 DEF PendingCountsLive
<1>9. WithinLimits'
    BY QueueAssumption DEF WithinLimits, IsFull, QueueTypeOK
<1> QED
    BY <1>1, <1>6, <1>8, <1>9

LEMMA AcquireInv ==
    ASSUME QueueInv, NEW t \in Tasks, Acquire(t)
    PROVE  QueueInv'
<1> USE DEF QueueInv, Acquire
<1>1. /\ waiting' \in Seq(Tasks)
      /\ Len(waiting') = Len(waiting) - 1
      /\ \A i \in 1..Len(waiting') : waiting'[i] = waiting[i + 1]
    BY HeadTailProperties DEF QueueTypeOK
<1>2. Len(waiting) \in Nat \ {0} /\ DOMAIN waiting = 1..Len(waiting)
    BY LenProperties, EmptySeq DEF QueueTypeOK
<1>3. DOMAIN waiting' = 1..Len(waiting) - 1
    BY <1>1, LenProperties
<1>4. t = waiting[1]
    BY <1>2 DEF QueueTypeOK
<1>5. QueueTypeOK'
    BY <1>1 DEF QueueTypeOK
<1>6. t \notin running
    BY <1>2, <1>4 DEF TasksDistinct, Waiting
<1>7. \A i \in DOMAIN waiting' : i + 1 \in DOMAIN waiting /\ waiting'[i] = waiting[i + 1]
    BY <1>1, <1>2, <1>3
<1>8. TasksDistinct'
    <2>1. ASSUME NEW i \in DOMAIN waiting', NEW j \in DOMAIN waiting',
                 waiting'[i] = waiting'[j]
          PROVE  i = j
        <3>1. i + 1 = j + 1
            BY <1>7, <2>1 DEF TasksDistinct
        <3> QED
            BY <1>3, <3>1, <1>2
    <2>2. ASSUME NEW i \in DOMAIN waiting'
          PROVE  waiting'[i] # t /\ waiting'[i] \notin running
        <3>1. i + 1 # 1 /\ 1 \in DOMAIN waiting
            BY <1>2, <1>3
        <3> QED
            BY <1>4, <1>7, <3>1 DEF TasksDistinct, Waiting
    <2> QED
        BY <2>1, <2>2 DEF TasksDistinct, Waiting
<1>9. Cardinality(running') = Cardinality(running) + 1 /\ Cardinality(running) \in Nat
    BY <1>6, RunningIsFinite, FS_AddElement
<1>10. PendingCountsLive'
    BY <1>1, <1>2, <1>9 DEF PendingCountsLive
<1>11. WithinLimits'
    BY <1>9, QueueAssumption DEF WithinLimits
<1> QED
    BY <1>5, <1>8, <1>10, <1>11

LEMMA FinishInv ==
    ASSUME QueueInv, NEW t \in Tasks, Finish(t)
    PROVE  QueueInv'
<1> USE DEF QueueInv, Finish
<1>1. Cardinality(running') = Cardinality(running) - 1 /\ Cardinality(running) \in Nat
    BY RunningIsFinite, FS_RemoveElement
<1>2. Cardinality(running') \in Nat
    BY RunningIsFinite, FS_RemoveElement, FS_CardinalityType
<1>3. Len(waiting) \in Nat
    BY LenProperties DEF QueueTypeOK
<1>4. PendingCountsLive'
    BY <1>1, <1>3 DEF PendingCountsLive
<1>5. QueueTypeOK'
    BY <1>1, <1>2, <1>3, <1>4 DEF QueueTypeOK, PendingCountsLive
<1>6. TasksDistinct'
    BY DEF TasksDistinct, Waiting
<1>7. WithinLimits'
    BY <1>1, QueueAssumption DEF WithinLimits, QueueTypeOK
<1> QED
    BY <1>4, <1>5, <1>6, <1>7

LEMMA DiscardInv == ASSUME Discard PROVE QueueInv'
<1>1. QueueTypeOK'
    BY EmptySeq DEF Discard, QueueTypeOK
<1>2. Cardinality(running') = 0
    BY FS_EmptySet DEF Discard
<1>3. TasksDistinct'
    BY DEF Discard, TasksDistinct, Waiting
<1>4. PendingCountsLive' /\ WithinLimits'
    BY <1>2, QueueAssumption DEF Discard, PendingCountsLive, WithinLimits
<1> QED
    BY <1>1, <1>3, <1>4 DEF QueueInv

LEMMA QueueNextInv == QueueInv /\ [QueueNext]_queueVars => QueueInv'
<1> SUFFICES ASSUME QueueInv, [QueueNext]_queueVars PROVE QueueInv'
    OBVIOUS
<1>1. CASE \E t \in Tasks : Submit(t)
    BY <1>1, SubmitInv
<1>2. CASE \E t \in Tasks : Acquire(t)
    BY <1>2, AcquireInv
<1>3. CASE \E t \in Tasks : Finish(t)
    BY <1>3, FinishInv
<1>4. CASE Discard
    BY <1>4, DiscardInv
<1>5. CASE UNCHANGED queueVars
    BY <1>5 DEF QueueInv, QueueTypeOK, TasksDistinct, PendingCountsLive, WithinLimits,
                Waiting, queueVars
<1> QED
    BY <1>1, <1>2, <1>3, <1>4, <1>5 DEF QueueNext

(* The invariant of the queue, for its own specification and for every     *)
(* specification that implements it.                                       *)
THEOREM QueueInvariant == QueueSafety => []QueueInv
BY QueueInitInv, QueueNextInv, PTL DEF QueueSafety

(* Type correctness: the counter is a number, and the FIFO of the semaphore *)
(* and the set of permit holders contain tasks and nothing else.           *)
THEOREM QueueTyped == QueueSafety => []QueueTypeOK
<1>1. QueueInv => QueueTypeOK
    BY DEF QueueInv
<1> QED
    BY <1>1, QueueInvariant, PTL

(* _pending is the number of jobs that wait or run: no path out of _run    *)
(* leaves it too high or too low.                                          *)
THEOREM PendingIsExact == QueueSafety => []PendingCountsLive
<1>1. QueueInv => PendingCountsLive
    BY DEF QueueInv
<1> QED
    BY <1>1, QueueInvariant, PTL

(* Never more than Capacity jobs in the process, never more than           *)
(* Concurrency of them in the pipeline.                                    *)
THEOREM LimitsHold == QueueSafety => []WithinLimits
<1>1. QueueInv => WithinLimits
    BY DEF QueueInv
<1> QED
    BY <1>1, QueueInvariant, PTL
=============================================================================
