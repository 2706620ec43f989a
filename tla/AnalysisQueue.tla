--------------------------- MODULE AnalysisQueue ---------------------------
(***************************************************************************)
(* The in-process work queue, app/services/queue.py: the counter _pending  *)
(* of jobs waiting or running, the asyncio tasks that hold them, and the   *)
(* semaphore that lets Concurrency of them run at once.  submit() is a     *)
(* synchronous function on the event loop, so its check and its count are  *)
(* one step.                                                               *)
(*                                                                         *)
(* Tasks is a set of slots that stand for asyncio.Task objects.  A slot is *)
(* free again once its task has ended: nothing refers to an ended task.    *)
(***************************************************************************)
EXTENDS Naturals, Sequences, FiniteSets

CONSTANTS
    Tasks,
    Capacity,      \* MAX_QUEUE_SIZE: waiting and running jobs together
    Concurrency    \* MAX_CONCURRENT_ANALYSIS: permits of the semaphore

ASSUME QueueAssumption ==
    /\ Capacity \in Nat \ {0}
    /\ Concurrency \in Nat \ {0}
    /\ IsFiniteSet(Tasks)
    /\ Cardinality(Tasks) >= Capacity

VARIABLES
    pending,   \* _pending
    waiting,   \* tasks that wait for the semaphore, in the order they were created
    running    \* tasks inside `async with self._semaphore`

queueVars == <<pending, waiting, running>>

Waiting == {waiting[i] : i \in DOMAIN waiting}

Live == Waiting \cup running

QueueInit ==
    /\ pending = 0
    /\ waiting = <<>>
    /\ running = {}

-----------------------------------------------------------------------------
IsFull == pending >= Capacity

\* Mutant: the newest job is served first.
SubmitLifo(t) ==
    /\ ~IsFull
    /\ t \notin Live
    /\ pending' = pending + 1
    /\ waiting' = <<t>> \o waiting
    /\ UNCHANGED running

Submit(t) ==
    /\ ~IsFull
    /\ t \notin Live
    /\ pending' = pending + 1
    /\ waiting' = Append(waiting, t)
    /\ UNCHANGED running

\* Mutant: a task enters without looking at the permits.
AcquireWithoutPermit(t) ==
    /\ waiting # <<>>
    /\ t = Head(waiting)
    /\ waiting' = Tail(waiting)
    /\ running' = running \cup {t}
    /\ UNCHANGED pending

\* asyncio.Semaphore hands its permits out in arrival order.
Acquire(t) ==
    /\ waiting # <<>>
    /\ t = Head(waiting)
    /\ Cardinality(running) < Concurrency
    /\ waiting' = Tail(waiting)
    /\ running' = running \cup {t}
    /\ UNCHANGED pending

\* Mutant: _run forgets the finally, so a job that ended stays counted.
FinishUncounted(t) ==
    /\ t \in running
    /\ running' = running \ {t}
    /\ UNCHANGED <<pending, waiting>>

\* Mutant: the job counts down where its exception is logged and again in the finally.
FinishTwice(t) ==
    /\ t \in running
    /\ running' = running \ {t}
    /\ pending' = pending - 2
    /\ UNCHANGED waiting

\* _execute returned or raised: the permit is released, then the finally counts down.
\* No await lies between the two.
Finish(t) ==
    /\ t \in running
    /\ running' = running \ {t}
    /\ pending' = pending - 1
    /\ UNCHANGED waiting

\* The process ended.  The next one builds a new AnalysisQueue.
Discard ==
    /\ pending' = 0
    /\ waiting' = <<>>
    /\ running' = {}

-----------------------------------------------------------------------------
QueueNext ==
    \/ \E t \in Tasks : Submit(t) \/ Acquire(t) \/ Finish(t)
    \/ Discard

QueueSafety == QueueInit /\ [][QueueNext]_queueVars

(* The event loop runs every task that is ready, and a running job ends:   *)
(* wait_for cuts the pipeline off and the final save returns or raises.    *)
QueueSpec ==
    /\ QueueSafety
    /\ \A t \in Tasks : WF_queueVars(Acquire(t)) /\ WF_queueVars(Finish(t))

-----------------------------------------------------------------------------
QueueTypeOK ==
    /\ pending \in Nat
    /\ waiting \in Seq(Tasks)
    /\ running \in SUBSET Tasks

(* No task waits twice, and none waits and runs at once. *)
TasksDistinct ==
    /\ \A i, j \in DOMAIN waiting : waiting[i] = waiting[j] => i = j
    /\ Waiting \cap running = {}

(* The counter is exactly the number of jobs that still exist.  A job that *)
(* ended without counting down would shrink the queue for good, and ten of *)
(* them would make every later request fail with QUEUE_FULL.               *)
PendingCountsLive == pending = Len(waiting) + Cardinality(running)

(* submit() never lets more than Capacity jobs in, counting the ones that  *)
(* run, and never more than Concurrency of them run at once.               *)
WithinLimits ==
    /\ pending <= Capacity
    /\ Cardinality(running) <= Concurrency

(* A job that waits for the semaphore is not overtaken for ever: it runs,  *)
(* or the process ends.                                                    *)
NoStarvation == \A t \in Tasks : (t \in Waiting) ~> (t \notin Waiting)
=============================================================================
