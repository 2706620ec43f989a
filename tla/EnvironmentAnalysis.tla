------------------------ MODULE EnvironmentAnalysis ------------------------
(***************************************************************************)
(* Stage 12 (app/ai/environment_analysis.py) on the local model            *)
(* (app/ai/llm/qwen_mlx.py).                                               *)
(*                                                                         *)
(* Each call of the model is a job of the default thread pool.  The job    *)
(* reads the weights unless some job has, writes the images into a         *)
(* temporary directory, and generates under a lock.  The analysis that     *)
(* waits for it may be cancelled by the time limit: a job no thread has    *)
(* begun is then withdrawn, any other runs to its end for nobody, with its *)
(* place in the pool and its turn at the locks.                            *)
(*                                                                         *)
(* An answer is what validate (ResponseValidation) makes of the text:      *)
(* Valid or the reason why it is rejected.                                 *)
(***************************************************************************)
EXTENDS Naturals, Sequences, FiniteSets

CONSTANTS
    MaxRuns,           \* bound: calls of analyze
    MaxConcurrent,     \* analyses the queue lets run at once
    MaxRegenerations,  \* calls after the first
    PoolSize,          \* threads of the default pool
    Illustrated,       \* runs of which at least one frame can be read
    Rejections,        \* reasons for which an answer is rejected
    Valid, Error, None

ASSUME AnalyzerAssumption ==
    /\ MaxRuns \in Nat
    /\ MaxConcurrent \in Nat \ {0}
    /\ MaxRegenerations \in Nat
    /\ PoolSize \in Nat \ {0}
    /\ Illustrated \subseteq 1..MaxRuns
    /\ Valid # Error /\ Valid # None /\ Error # None
    /\ Rejections \cap {Valid, Error, None} = {}

Runs == 1..MaxRuns

\* The k-th call of run r.
Calls == Runs \X (1..(MaxRegenerations + 1))

ASSUME CallsAssumption == None \notin Calls

Answers == Rejections \cup {Valid, Error}

VARIABLES
    run,           \* each call of analyze
    job,           \* each call of the model
    pool,          \* jobs that wait for a thread, oldest first
    loaded,        \* _loaded is not None
    loadLock,      \* the job in _load_lock, or None
    generateLock,  \* the job in _generate_lock, or None
    directories    \* jobs whose temporary directory is on disk

lockVars == <<loaded, loadLock, generateLock>>
vars == <<run, job, pool, lockVars, directories>>

Run == [pc: {"idle", "asking", "reported", "failed", "cancelled"},
        attempts: UNION {[1..n -> Answers] : n \in 0..(MaxRegenerations + 1)},
        rejection: Rejections \cup {None}]

\* withdrawn: cancelled before a thread took it.
Job == [pc: {"none", "pooled", "awaitingLoad", "loading", "writing",
             "awaitingTurn", "generating", "cleaning", "done", "withdrawn"},
        retry: Rejections \cup {None}, answer: Answers \cup {None}]

Init ==
    /\ run = [r \in Runs |-> [pc |-> "idle", attempts |-> <<>>, rejection |-> None]]
    /\ job = [c \in Calls |-> [pc |-> "none", retry |-> None, answer |-> None]]
    /\ pool = <<>>
    /\ loaded = FALSE
    /\ loadLock = None
    /\ generateLock = None
    /\ directories = {}

Asking == {r \in Runs : run[r].pc = "asking"}

\* The call run r waits for.
Current(r) == <<r, Len(run[r].attempts) + 1>>

\* _load_images: frames that cannot be read are left out, all of them maybe.
Images(c) == c[1] \in Illustrated

\* build and complete: the prompt says why the last answer was rejected.
Submit(c, retry) ==
    /\ job' = [job EXCEPT ![c] = [pc |-> "pooled", retry |-> retry, answer |-> None]]
    /\ pool' = Append(pool, c)

\* Runs are numbered as they start.
Analyze(r) ==
    /\ run[r].pc = "idle"
    /\ \A q \in 1..(r - 1) : run[q].pc # "idle"
    /\ Cardinality(Asking) < MaxConcurrent
    /\ run' = [run EXCEPT ![r].pc = "asking"]
    /\ Submit(Current(r), None)
    /\ UNCHANGED <<lockVars, directories>>

\* Mutant: range(max_regenerations).
LastTooEarly(attempts) == Len(attempts) = MaxRegenerations

\* range(max_regenerations + 1) is used up.
Last(attempts) == Len(attempts) = MaxRegenerations + 1

\* Mutant: a call that fails leaves the reason of the call before it.
RejectionKept(r, answer) == IF answer \in Rejections THEN answer ELSE run[r].rejection

\* The reason that the next prompt names; a call that fails resets it.
RejectionAfter(r, answer) == IF answer \in Rejections THEN answer ELSE None

\* The coroutine has its answer: it reports it, asks again, or gives up.
Resume(r) ==
    LET answer == job[Current(r)].answer
        attempts == Append(run[r].attempts, answer)
        rejection == RejectionAfter(r, answer)
    IN /\ run[r].pc = "asking"
       /\ job[Current(r)].pc = "done"
       /\ run' = [run EXCEPT ![r].attempts = attempts,
                             ![r].rejection = IF answer = Valid THEN @ ELSE rejection,
                             ![r].pc = CASE answer = Valid -> "reported"
                                         [] answer # Valid /\ Last(attempts) -> "failed"
                                         [] OTHER -> @]
       /\ IF answer = Valid \/ Last(attempts)
          THEN UNCHANGED <<job, pool>>
          ELSE Submit(<<r, Len(attempts) + 1>>, run'[r].rejection)
       /\ UNCHANGED <<lockVars, directories>>

\* The pool without its k-th job.
Without(k) == [j \in 1..(Len(pool) - 1) |-> pool[IF j < k THEN j ELSE j + 1]]

\* Mutant: the job is withdrawn and stays in the pool.
CancelInPool(r) ==
    /\ run[r].pc = "asking"
    /\ run' = [run EXCEPT ![r].pc = "cancelled"]
    /\ job' = [job EXCEPT ![Current(r)].pc = IF @ = "pooled" THEN "withdrawn" ELSE @]
    /\ UNCHANGED <<pool, lockVars, directories>>

\* The time limit: CancelledError is no Exception, the loop does not catch it.  Only a job
\* that no thread has begun can be withdrawn.
Cancel(r) ==
    /\ run[r].pc = "asking"
    /\ run' = [run EXCEPT ![r].pc = "cancelled"]
    /\ \/ /\ job[Current(r)].pc = "pooled"
          /\ job' = [job EXCEPT ![Current(r)].pc = "withdrawn"]
          /\ \E k \in DOMAIN pool : pool[k] = Current(r) /\ pool' = Without(k)
       \/ job[Current(r)].pc # "pooled" /\ UNCHANGED <<job, pool>>
    /\ UNCHANGED <<lockVars, directories>>
-----------------------------------------------------------------------------
Live(c) == job[c].pc \notin {"none", "done", "withdrawn"}
InThread == {c \in Calls : Live(c) /\ job[c].pc # "pooled"}

Goto(c, pc) == job' = [job EXCEPT ![c].pc = pc]

\* The job raises, LLMError or another Exception: one failed attempt for the run.
Raise(c, pc) == job' = [job EXCEPT ![c].pc = pc, ![c].answer = Error]

\* A thread takes the oldest job, which looks at _loaded without the lock.
StartThread ==
    /\ pool # <<>>
    /\ Cardinality(InThread) < PoolSize
    /\ Goto(Head(pool), IF loaded THEN "writing" ELSE "awaitingLoad")
    /\ pool' = Tail(pool)
    /\ UNCHANGED <<run, lockVars, directories>>

\* Mutant: no second look.
TakeLoadLockUnchecked(c) ==
    /\ job[c].pc = "awaitingLoad"
    /\ loadLock = None
    /\ Goto(c, "loading")
    /\ loadLock' = c
    /\ UNCHANGED <<run, pool, loaded, generateLock, directories>>

\* The look at _loaded under the lock, which a job that finds the weights gives back.
TakeLoadLock(c) ==
    /\ job[c].pc = "awaitingLoad"
    /\ loadLock = None
    /\ IF loaded
       THEN Goto(c, "writing") /\ UNCHANGED loadLock
       ELSE Goto(c, "loading") /\ loadLock' = c
    /\ UNCHANGED <<run, pool, loaded, generateLock, directories>>

Load(c) ==
    /\ job[c].pc = "loading"
    /\ loaded' = TRUE
    /\ loadLock' = None
    /\ Goto(c, "writing")
    /\ UNCHANGED <<run, pool, generateLock, directories>>

\* Mutant: the lock is not given back.
LoadFailsHolding(c) ==
    /\ job[c].pc = "loading"
    /\ Raise(c, "done")
    /\ UNCHANGED <<run, pool, lockVars, directories>>

\* The package is missing or the weights cannot be read: the next call tries again.
LoadFails(c) ==
    /\ job[c].pc = "loading"
    /\ loadLock' = None
    /\ Raise(c, "done")
    /\ UNCHANGED <<run, pool, loaded, generateLock, directories>>

WriteImages(c) ==
    /\ job[c].pc = "writing"
    /\ directories' = IF Images(c) THEN directories \cup {c} ELSE directories
    /\ Goto(c, "awaitingTurn")
    /\ UNCHANGED <<run, pool, lockVars>>

\* __enter__ raises: nobody holds the directory any more and it is removed with its object.
WriteFails(c) ==
    /\ job[c].pc = "writing"
    /\ Images(c)
    /\ Raise(c, "done")
    /\ UNCHANGED <<run, pool, lockVars, directories>>

ImportFails(c) ==
    /\ job[c].pc = "awaitingTurn"
    /\ Raise(c, "cleaning")
    /\ UNCHANGED <<run, pool, lockVars, directories>>

\* Mutant: generate without the lock.
GenerateUnlocked(c) ==
    /\ job[c].pc = "awaitingTurn"
    /\ generateLock' = c
    /\ Goto(c, "generating")
    /\ UNCHANGED <<run, pool, loaded, loadLock, directories>>

TakeGenerateLock(c) ==
    /\ job[c].pc = "awaitingTurn"
    /\ generateLock = None
    /\ generateLock' = c
    /\ Goto(c, "generating")
    /\ UNCHANGED <<run, pool, loaded, loadLock, directories>>

\* The lock is given back on every way out, an exception included.
Generate(c) ==
    /\ job[c].pc = "generating"
    /\ generateLock' = None
    /\ \E answer \in Answers :
        job' = [job EXCEPT ![c].pc = "cleaning", ![c].answer = answer]
    /\ UNCHANGED <<run, pool, loaded, loadLock, directories>>

RemoveImages(c) ==
    /\ job[c].pc = "cleaning"
    /\ directories' = directories \ {c}
    /\ Goto(c, "done")
    /\ UNCHANGED <<run, pool, lockVars>>

ThreadStep(c) ==
    \/ TakeLoadLock(c) \/ Load(c) \/ LoadFails(c)
    \/ WriteImages(c) \/ WriteFails(c) \/ ImportFails(c)
    \/ TakeGenerateLock(c) \/ Generate(c) \/ RemoveImages(c)

Next ==
    \/ \E r \in Runs : Analyze(r) \/ Resume(r) \/ Cancel(r)
    \/ StartThread
    \/ \E c \in Calls : ThreadStep(c)

\* The event loop resumes a coroutine whose answer is there, the pool starts a job when it
\* has a thread, and a thread goes on: generate stops at max_tokens.  Nothing is assumed
\* of the time limit.
Spec ==
    /\ Init
    /\ [][Next]_vars
    /\ \A r \in Runs : WF_vars(Resume(r))
    /\ WF_vars(StartThread)
    /\ \A c \in Calls : WF_vars(ThreadStep(c))
-----------------------------------------------------------------------------
\* Type invariant; a job in the pool is one that waits there.
AnalyzerTypeOK ==
    /\ run \in [Runs -> Run]
    /\ job \in [Calls -> Job]
    /\ \A k \in DOMAIN pool : pool[k] \in Calls /\ job[pool[k]].pc = "pooled"
    /\ loaded \in BOOLEAN
    /\ loadLock \in Calls \cup {None}
    /\ generateLock \in Calls \cup {None}
    /\ directories \subseteq Calls

\* A job holds a lock, or has its images on disk, exactly while it needs them: no way out
\* of a job, also of one that nobody waits for any more, keeps anything; and the model is
\* there before it generates (qwen_mlx.py, _run, _ensure_loaded and _image_files).
HeldWhileNeeded ==
    \A c \in Calls :
        /\ loadLock = c <=> job[c].pc = "loading"
        /\ generateLock = c <=> job[c].pc = "generating"
        /\ c \in directories <=>
               Images(c) /\ job[c].pc \in {"awaitingTurn", "generating", "cleaning"}
        /\ job[c].pc \in {"writing", "awaitingTurn", "generating"} => loaded

\* The prompt of a call names the reason why the last answer of its run was rejected, and
\* no reason when there was no answer or the call failed (environment_analysis.py, analyze).
RetryNamesCause ==
    \A r \in Asking :
        LET attempts == run[r].attempts
            cause == IF attempts # <<>> /\ attempts[Len(attempts)] \in Rejections
                     THEN attempts[Len(attempts)] ELSE None
        IN job[Current(r)].retry = cause

\* Weights that are there are not read again, though several jobs may have missed them at
\* their first look (qwen_mlx.py, _ensure_loaded: twice the memory).
WeightsReadOnce ==
    [][\A c \in Calls : loaded => ~(job[c].pc # "loading" /\ job'[c].pc = "loading")]_vars

\* No job of a run is left for ever in the pool or in a thread, those nobody waits for
\* included: no way out of a job keeps a lock or a thread.
EveryCallEnds ==
    \A r \in Runs :
        (\E c \in Calls : c[1] = r /\ Live(c)) ~> (\A c \in Calls : c[1] = r => ~Live(c))

Loop == INSTANCE RegenerationLoop WITH
    Limit <- MaxRegenerations + 1,
    state <- [r \in Runs |-> run[r].pc],
    tries <- [r \in Runs |-> Len(run[r].attempts)]

\* Threads, locks, failed loads and late answers are invisible to the caller: analyze is
\* the loop of RegenerationLoop and ends.
ImplementsLoop == Loop!LoopSpec
=============================================================================
