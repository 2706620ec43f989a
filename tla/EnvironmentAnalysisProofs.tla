--------------------- MODULE EnvironmentAnalysisProofs ---------------------
(***************************************************************************)
(* For any number of analyses, calls, threads and reasons of rejection:    *)
(* locks and temporary images are held exactly while they are needed, each *)
(* prompt names the reason of the last rejection, the weights are not read *)
(* twice, and every step of the threads is a step of RegenerationLoop or   *)
(* invisible to the caller.                                                *)
(***************************************************************************)
EXTENDS EnvironmentAnalysis, SequenceTheorems, TLAPS

States == {"none", "pooled", "awaitingLoad", "loading", "writing",
           "awaitingTurn", "generating", "cleaning", "done", "withdrawn"}

(* The calls a run has made: a later one must be unused, or its submission *)
(* would restart a job that holds a lock.                                  *)
Submitted(r) == IF run[r].pc = "idle" THEN 0 ELSE Len(run[r].attempts) + 1

RunInv ==
    /\ run \in [Runs -> Run]
    /\ \A r \in Runs :
        /\ run[r].pc = "idle" => run[r].attempts = <<>>
        /\ run[r].pc = "asking" => Len(run[r].attempts) <= MaxRegenerations

JobInv ==
    /\ job \in [Calls -> Job]
    /\ \A c \in Calls :
        /\ job[c].pc # "none" => c[2] <= Submitted(c[1])
        /\ job[c].pc \in {"cleaning", "done"} => job[c].answer \in Answers

(* A job waits in the pool once, or the thread that takes it would leave   *)
(* another one behind.                                                     *)
PoolInv ==
    /\ pool \in Seq(Calls)
    /\ \A k \in DOMAIN pool : job[pool[k]].pc = "pooled"
    /\ \A j, k \in DOMAIN pool : pool[j] = pool[k] => j = k

LockTypes ==
    /\ loaded \in BOOLEAN
    /\ loadLock \in Calls \cup {None}
    /\ generateLock \in Calls \cup {None}
    /\ directories \subseteq Calls

LockInv == LockTypes /\ HeldWhileNeeded

AnalyzerInv == RunInv /\ JobInv /\ PoolInv /\ LockInv /\ RetryNamesCause

-----------------------------------------------------------------------------
(* The attempts of a run are a sequence of bounded length. *)
LEMMA AttemptsType ==
    ASSUME NEW s
    PROVE  s \in UNION {[1..n -> Answers] : n \in 0..(MaxRegenerations + 1)}
               <=> s \in Seq(Answers) /\ Len(s) <= MaxRegenerations + 1
<1>1. ASSUME NEW n \in 0..(MaxRegenerations + 1), s \in [1..n -> Answers]
      PROVE  s \in Seq(Answers) /\ Len(s) <= MaxRegenerations + 1
    <2>1. s \in Seq(Answers)
        BY <1>1, SeqDef, AnalyzerAssumption DEF AnalyzerAssumption
    <2>2. DOMAIN s = 1..Len(s) /\ Len(s) \in Nat /\ DOMAIN s = 1..n
        BY <1>1, <2>1, LenProperties
    <2>3. Len(s) = n
        <3>1. (n # 0 => n \in 1..Len(s)) /\ (Len(s) # 0 => Len(s) \in 1..n)
            BY <2>2, AnalyzerAssumption DEF AnalyzerAssumption
        <3>2. n \in Nat /\ Len(s) \in Nat
            BY <2>2, AnalyzerAssumption DEF AnalyzerAssumption
        <3> QED
            BY <3>1, <3>2
    <2> QED
        BY <2>1, <2>3, AnalyzerAssumption DEF AnalyzerAssumption
<1>2. ASSUME s \in Seq(Answers), Len(s) <= MaxRegenerations + 1
      PROVE  s \in UNION {[1..n -> Answers] : n \in 0..(MaxRegenerations + 1)}
    <2>1. Len(s) \in Nat /\ s \in [1..Len(s) -> Answers]
        BY <1>2, LenProperties
    <2>2. Len(s) \in 0..(MaxRegenerations + 1)
        BY <1>2, <2>1, AnalyzerAssumption DEF AnalyzerAssumption
    <2> QED
        BY <2>1, <2>2
<1> QED
    BY <1>1, <1>2

LEMMA RunFields ==
    ASSUME RunInv, NEW r \in Runs
    PROVE  /\ run[r].attempts \in Seq(Answers)
           /\ Len(run[r].attempts) \in Nat
           /\ Len(run[r].attempts) <= MaxRegenerations + 1
           /\ run[r].rejection \in Rejections \cup {None}
           /\ run[r].pc \in {"idle", "asking", "reported", "failed", "cancelled"}
<1>1. run[r] \in Run
    BY DEF RunInv
<1>2. run[r].attempts \in UNION {[1..n -> Answers] : n \in 0..(MaxRegenerations + 1)}
    BY <1>1 DEF Run
<1>3. run[r].attempts \in Seq(Answers) /\ Len(run[r].attempts) <= MaxRegenerations + 1
    BY <1>2, AttemptsType
<1> QED
    BY <1>1, <1>3, LenProperties DEF Run

(* The call a run waits for is one of its calls. *)
LEMMA CurrentIsCall ==
    ASSUME RunInv, NEW r \in Runs, run[r].pc = "asking"
    PROVE  /\ Current(r) \in Calls
           /\ Current(r)[1] = r /\ Current(r)[2] = Len(run[r].attempts) + 1
<1>1. Len(run[r].attempts) \in Nat /\ Len(run[r].attempts) <= MaxRegenerations
    BY RunFields DEF RunInv
<1> QED
    BY <1>1, AnalyzerAssumption DEF AnalyzerAssumption, Current, Calls

LEMMA CallParts ==
    ASSUME NEW c \in Calls
    PROVE  c[1] \in Runs /\ c[2] \in Nat /\ c = <<c[1], c[2]>>
BY AnalyzerAssumption DEF AnalyzerAssumption, Calls

LEMMA JobFields ==
    ASSUME JobInv, NEW c \in Calls
    PROVE  /\ job[c].pc \in States
           /\ job[c].retry \in Rejections \cup {None}
           /\ job[c].answer \in Answers \cup {None}
BY DEF JobInv, Job, States

LEMMA InitInv == Init => AnalyzerInv
<1> SUFFICES ASSUME Init PROVE AnalyzerInv
    OBVIOUS
<1> USE DEF Init
<1>1. \A r \in Runs : run[r] = [pc |-> "idle", attempts |-> <<>>, rejection |-> None]
    OBVIOUS
<1>2. \A c \in Calls : job[c] = [pc |-> "none", retry |-> None, answer |-> None]
    OBVIOUS
<1>3. RunInv
    <2>1. <<>> \in UNION {[1..n -> Answers] : n \in 0..(MaxRegenerations + 1)}
        <3> HIDE DEF Init
        <3>1. <<>> \in Seq(Answers) /\ Len(<<>>) = 0
            BY EmptySeq
        <3>2. Len(<<>>) <= MaxRegenerations + 1
            BY <3>1, AnalyzerAssumption DEF AnalyzerAssumption
        <3> QED
            BY <3>1, <3>2, AttemptsType
    <2>2. [pc |-> "idle", attempts |-> <<>>, rejection |-> None] \in Run
        BY <2>1 DEF Run
    <2> QED
        BY <1>1, <2>2 DEF RunInv
<1>4. JobInv
    BY <1>2 DEF JobInv, Job
<1>5. PoolInv
    BY EmptySeq DEF PoolInv
<1>6. LockInv
    BY <1>2, CallsAssumption DEF LockInv, LockTypes, HeldWhileNeeded
<1>7. RetryNamesCause
    BY <1>1 DEF RetryNamesCause, Asking
<1> QED
    BY <1>3, <1>4, <1>5, <1>6, <1>7 DEF AnalyzerInv

-----------------------------------------------------------------------------
(* What a step of a thread does to the jobs. *)
Moved(c, pc) ==
    /\ job' \in [Calls -> Job]
    /\ \A d \in Calls \ {c} : job'[d] = job[d]
    /\ job'[c].pc = pc /\ job'[c].retry = job[c].retry

LEMMA GotoMoves ==
    ASSUME JobInv, NEW c \in Calls, NEW pc \in States, Goto(c, pc)
    PROVE  Moved(c, pc) /\ job'[c].answer = job[c].answer
<1>1. [job[c] EXCEPT !.pc = pc] \in Job
    BY DEF JobInv, Job, States
<1>2. job' = [job EXCEPT ![c] = [job[c] EXCEPT !.pc = pc]]
    BY DEF Goto
<1>3. job'[c] = [job[c] EXCEPT !.pc = pc]
    BY <1>2 DEF JobInv
<1>4. job[c] \in Job
    BY DEF JobInv
<1>5. job'[c].pc = pc /\ job'[c].retry = job[c].retry /\ job'[c].answer = job[c].answer
    BY <1>3, <1>4 DEF Job
<1> QED
    BY <1>1, <1>2, <1>5 DEF Moved, JobInv

LEMMA AnswerMoves ==
    ASSUME JobInv, NEW c \in Calls, NEW pc \in States, NEW answer \in Answers,
           job' = [job EXCEPT ![c].pc = pc, ![c].answer = answer]
    PROVE  Moved(c, pc) /\ job'[c].answer = answer
<1>1. [job[c] EXCEPT !.pc = pc, !.answer = answer] \in Job
    BY DEF JobInv, Job, States
<1>2. job[c] \in Job
    BY DEF JobInv
<1>3. /\ job' \in [Calls -> Job]
      /\ job'[c] = [job[c] EXCEPT !.pc = pc, !.answer = answer]
      /\ \A d \in Calls \ {c} : job'[d] = job[d]
    BY <1>1 DEF JobInv
<1>4. job'[c].pc = pc /\ job'[c].retry = job[c].retry /\ job'[c].answer = answer
    BY <1>2, <1>3 DEF Job
<1> QED
    BY <1>3, <1>4 DEF Moved

LEMMA RaiseMoves ==
    ASSUME JobInv, NEW c \in Calls, NEW pc \in States, Raise(c, pc)
    PROVE  Moved(c, pc) /\ job'[c].answer = Error
BY AnswerMoves DEF Raise, Answers

(* A thread that goes on changes nothing for the pool and for the runs. *)
LEMMA ThreadFrame ==
    ASSUME AnalyzerInv, NEW c \in Calls, NEW pc \in States \ {"none", "pooled"},
           job[c].pc \notin {"none", "pooled"},
           Moved(c, pc), pc \in {"cleaning", "done"} => job'[c].answer \in Answers,
           UNCHANGED <<run, pool>>
    PROVE  RunInv' /\ JobInv' /\ PoolInv' /\ RetryNamesCause'
<1> USE DEF AnalyzerInv, Moved
<1>1. RunInv'
    BY DEF RunInv
<1>2. JobInv'
    BY DEF JobInv, Submitted
<1>3. PoolInv'
    <2>1. \A k \in DOMAIN pool : pool[k] \in Calls /\ pool[k] # c
        BY LenProperties DEF PoolInv
    <2> QED
        BY <2>1 DEF PoolInv
<1>4. RetryNamesCause'
    <2>1. \A r \in Asking : Current(r) \in Calls
        BY CurrentIsCall DEF Asking
    <2>2. Asking' = Asking /\ \A r \in Asking : Current(r)' = Current(r)
        BY DEF Asking, Current
    <2>3. \A r \in Asking : job'[Current(r)].retry = job[Current(r)].retry
        BY <2>1
    <2> QED
        BY <2>2, <2>3 DEF RetryNamesCause
<1> QED
    BY <1>1, <1>2, <1>3, <1>4

LEMMA TakeLoadLockInv ==
    ASSUME AnalyzerInv, NEW c \in Calls, TakeLoadLock(c)
    PROVE  AnalyzerInv'
<1> USE DEF AnalyzerInv, LockInv
<1>1. CASE loaded
    <2>1. Moved(c, "writing") /\ UNCHANGED <<run, pool, lockVars, directories>>
        BY <1>1, GotoMoves DEF TakeLoadLock, States, lockVars
    <2>2. RunInv' /\ JobInv' /\ PoolInv' /\ RetryNamesCause'
        BY <2>1, ThreadFrame DEF TakeLoadLock, States
    <2>3. LockInv'
        BY <1>1, <2>1 DEF LockTypes, HeldWhileNeeded, Moved, TakeLoadLock, lockVars, Images
    <2> QED
        BY <2>2, <2>3
<1>2. CASE ~loaded
    <2>1. Moved(c, "loading") /\ UNCHANGED <<run, pool, loaded, generateLock, directories>>
        BY <1>2, GotoMoves DEF TakeLoadLock, States
    <2>2. RunInv' /\ JobInv' /\ PoolInv' /\ RetryNamesCause'
        BY <2>1, ThreadFrame DEF TakeLoadLock, States
    <2>3. LockInv'
        BY <1>2, <2>1, CallsAssumption
           DEF LockTypes, HeldWhileNeeded, Moved, TakeLoadLock, Images
    <2> QED
        BY <2>2, <2>3
<1> QED
    BY <1>1, <1>2

LEMMA LoadInv ==
    ASSUME AnalyzerInv, NEW c \in Calls, Load(c)
    PROVE  AnalyzerInv'
<1> USE DEF AnalyzerInv, LockInv
<1>1. Moved(c, "writing") /\ UNCHANGED <<run, pool, generateLock, directories>>
    BY GotoMoves DEF Load, States
<1>2. RunInv' /\ JobInv' /\ PoolInv' /\ RetryNamesCause'
    BY <1>1, ThreadFrame DEF Load, States
<1>3. LockInv'
    BY <1>1, CallsAssumption DEF LockTypes, HeldWhileNeeded, Moved, Load, Images
<1> QED
    BY <1>2, <1>3

LEMMA LoadFailsInv ==
    ASSUME AnalyzerInv, NEW c \in Calls, LoadFails(c)
    PROVE  AnalyzerInv'
<1> USE DEF AnalyzerInv, LockInv
<1>1. /\ Moved(c, "done") /\ job'[c].answer = Error
      /\ UNCHANGED <<run, pool, loaded, generateLock, directories>>
    BY RaiseMoves DEF LoadFails, States
<1>2. RunInv' /\ JobInv' /\ PoolInv' /\ RetryNamesCause'
    BY <1>1, ThreadFrame DEF LoadFails, States, Answers
<1>3. LockInv'
    BY <1>1, CallsAssumption DEF LockTypes, HeldWhileNeeded, Moved, LoadFails, Images
<1> QED
    BY <1>2, <1>3

LEMMA WriteImagesInv ==
    ASSUME AnalyzerInv, NEW c \in Calls, WriteImages(c)
    PROVE  AnalyzerInv'
<1> USE DEF AnalyzerInv, LockInv
<1>1. Moved(c, "awaitingTurn") /\ UNCHANGED <<run, pool, lockVars>>
    BY GotoMoves DEF WriteImages, States
<1>2. RunInv' /\ JobInv' /\ PoolInv' /\ RetryNamesCause'
    BY <1>1, ThreadFrame DEF WriteImages, States
<1>3. LockInv'
    BY <1>1 DEF LockTypes, HeldWhileNeeded, Moved, WriteImages, lockVars, Images
<1> QED
    BY <1>2, <1>3

LEMMA WriteFailsInv ==
    ASSUME AnalyzerInv, NEW c \in Calls, WriteFails(c)
    PROVE  AnalyzerInv'
<1> USE DEF AnalyzerInv, LockInv
<1>1. /\ Moved(c, "done") /\ job'[c].answer = Error
      /\ UNCHANGED <<run, pool, lockVars, directories>>
    BY RaiseMoves DEF WriteFails, States
<1>2. RunInv' /\ JobInv' /\ PoolInv' /\ RetryNamesCause'
    BY <1>1, ThreadFrame DEF WriteFails, States, Answers
<1>3. LockInv'
    BY <1>1 DEF LockTypes, HeldWhileNeeded, Moved, WriteFails, lockVars, Images
<1> QED
    BY <1>2, <1>3

LEMMA ImportFailsInv ==
    ASSUME AnalyzerInv, NEW c \in Calls, ImportFails(c)
    PROVE  AnalyzerInv'
<1> USE DEF AnalyzerInv, LockInv
<1>1. /\ Moved(c, "cleaning") /\ job'[c].answer = Error
      /\ UNCHANGED <<run, pool, lockVars, directories>>
    BY RaiseMoves DEF ImportFails, States
<1>2. RunInv' /\ JobInv' /\ PoolInv' /\ RetryNamesCause'
    BY <1>1, ThreadFrame DEF ImportFails, States, Answers
<1>3. LockInv'
    BY <1>1 DEF LockTypes, HeldWhileNeeded, Moved, ImportFails, lockVars, Images
<1> QED
    BY <1>2, <1>3

LEMMA TakeGenerateLockInv ==
    ASSUME AnalyzerInv, NEW c \in Calls, TakeGenerateLock(c)
    PROVE  AnalyzerInv'
<1> USE DEF AnalyzerInv, LockInv
<1>1. Moved(c, "generating") /\ UNCHANGED <<run, pool, loaded, loadLock, directories>>
    BY GotoMoves DEF TakeGenerateLock, States
<1>2. RunInv' /\ JobInv' /\ PoolInv' /\ RetryNamesCause'
    BY <1>1, ThreadFrame DEF TakeGenerateLock, States
<1>3. LockInv'
    BY <1>1, CallsAssumption DEF LockTypes, HeldWhileNeeded, Moved, TakeGenerateLock, Images
<1> QED
    BY <1>2, <1>3

LEMMA GenerateInv ==
    ASSUME AnalyzerInv, NEW c \in Calls, Generate(c)
    PROVE  AnalyzerInv'
<1> USE DEF AnalyzerInv, LockInv
<1>1. PICK answer \in Answers :
            job' = [job EXCEPT ![c].pc = "cleaning", ![c].answer = answer]
    BY DEF Generate
<1>2. /\ Moved(c, "cleaning") /\ job'[c].answer = answer
      /\ UNCHANGED <<run, pool, loaded, loadLock, directories>>
    BY <1>1, AnswerMoves DEF Generate, States
<1>3. RunInv' /\ JobInv' /\ PoolInv' /\ RetryNamesCause'
    BY <1>2, ThreadFrame DEF Generate, States
<1>4. LockInv'
    BY <1>2, CallsAssumption DEF LockTypes, HeldWhileNeeded, Moved, Generate, Images
<1> QED
    BY <1>3, <1>4

LEMMA RemoveImagesInv ==
    ASSUME AnalyzerInv, NEW c \in Calls, RemoveImages(c)
    PROVE  AnalyzerInv'
<1> USE DEF AnalyzerInv, LockInv
<1>1. /\ Moved(c, "done") /\ job'[c].answer = job[c].answer
      /\ UNCHANGED <<run, pool, lockVars>>
    BY GotoMoves DEF RemoveImages, States
<1>2. job[c].answer \in Answers
    BY DEF RemoveImages, JobInv
<1>3. RunInv' /\ JobInv' /\ PoolInv' /\ RetryNamesCause'
    BY <1>1, <1>2, ThreadFrame DEF RemoveImages, States
<1>4. LockInv'
    BY <1>1 DEF LockTypes, HeldWhileNeeded, Moved, RemoveImages, lockVars, Images
<1> QED
    BY <1>3, <1>4

-----------------------------------------------------------------------------
(* The thread takes the job at the head; the others are still waiting. *)
LEMMA StartThreadInv ==
    ASSUME AnalyzerInv, StartThread
    PROVE  AnalyzerInv'
<1> USE DEF AnalyzerInv, LockInv
<1> DEFINE c == Head(pool)
           pc == IF loaded THEN "writing" ELSE "awaitingLoad"
<1>1. /\ c \in Calls /\ c = pool[1] /\ pool' \in Seq(Calls)
      /\ Len(pool') = Len(pool) - 1 /\ Len(pool) \in Nat \ {0}
      /\ \A k \in 1..Len(pool') : pool'[k] = pool[k + 1]
    BY HeadTailProperties, EmptySeq DEF PoolInv, StartThread
<1>2. DOMAIN pool = 1..Len(pool) /\ DOMAIN pool' = 1..Len(pool')
    BY <1>1, LenProperties DEF PoolInv
<1>3. job[c].pc = "pooled"
    BY <1>1, <1>2 DEF PoolInv
<1>4. Moved(c, pc) /\ pc \in {"writing", "awaitingLoad"} /\ (pc = "writing" => loaded)
    BY <1>1, GotoMoves DEF StartThread, States
<1>5. UNCHANGED <<run, loaded, loadLock, generateLock, directories>>
    BY DEF StartThread, lockVars
<1> HIDE DEF c, pc
<1>6. RunInv'
    BY <1>5 DEF RunInv
<1>7. JobInv'
    BY <1>1, <1>3, <1>4, <1>5 DEF JobInv, Moved, Submitted
<1>8. PoolInv'
    <2>1. \A k \in 1..Len(pool') : k + 1 \in DOMAIN pool /\ pool[k + 1] # pool[1]
        BY <1>1, <1>2 DEF PoolInv
    <2>2. \A k \in 1..Len(pool') : pool'[k] \in Calls /\ pool'[k] # c /\ job[pool'[k]].pc = "pooled"
        BY <1>1, <1>2, <2>1, LenProperties DEF PoolInv
    <2>3. \A k \in DOMAIN pool' : job'[pool'[k]].pc = "pooled"
        BY <1>2, <1>4, <2>2 DEF Moved
    <2>4. \A j, k \in DOMAIN pool' : pool'[j] = pool'[k] => j = k
        <3> TAKE j, k \in DOMAIN pool'
        <3> HAVE pool'[j] = pool'[k]
        <3>1. j + 1 \in DOMAIN pool /\ k + 1 \in DOMAIN pool /\ pool[j + 1] = pool[k + 1]
            BY <1>1, <1>2
        <3>2. j + 1 = k + 1
            BY <3>1 DEF PoolInv
        <3> QED
            BY <1>1, <1>2, <3>2
    <2> QED
        BY <1>1, <2>3, <2>4 DEF PoolInv
<1>9. LockInv'
    BY <1>1, <1>3, <1>4, <1>5 DEF LockTypes, HeldWhileNeeded, Moved, Images
<1>10. RetryNamesCause'
    <2>1. \A r \in Asking : Current(r) \in Calls
        BY CurrentIsCall DEF Asking
    <2>2. Asking' = Asking /\ \A r \in Asking : Current(r)' = Current(r)
        BY <1>5 DEF Asking, Current
    <2>3. \A r \in Asking : job'[Current(r)].retry = job[Current(r)].retry
        BY <1>1, <1>4, <2>1 DEF Moved
    <2> QED
        BY <1>5, <2>2, <2>3 DEF RetryNamesCause
<1> QED
    BY <1>6, <1>7, <1>8, <1>9, <1>10

(* A call that is submitted was unused, so that it is in no lock, in no    *)
(* directory and not in the pool.                                          *)
LEMMA SubmitEffect ==
    ASSUME AnalyzerInv, NEW c \in Calls, NEW retry \in Rejections \cup {None},
           job[c].pc = "none", Submit(c, retry), UNCHANGED <<lockVars, directories>>
    PROVE  /\ PoolInv' /\ LockInv'
           /\ job' \in [Calls -> Job]
           /\ job'[c] = [pc |-> "pooled", retry |-> retry, answer |-> None]
           /\ \A d \in Calls \ {c} : job'[d] = job[d]
<1> USE DEF AnalyzerInv, LockInv
<1>1. [pc |-> "pooled", retry |-> retry, answer |-> None] \in Job
    BY DEF Job
<1>2. /\ job' \in [Calls -> Job]
      /\ job'[c] = [pc |-> "pooled", retry |-> retry, answer |-> None]
      /\ \A d \in Calls \ {c} : job'[d] = job[d]
    BY <1>1 DEF Submit, JobInv
<1>3. job'[c].pc = "pooled"
    BY <1>2
<1>4. /\ pool' \in Seq(Calls) /\ Len(pool') = Len(pool) + 1 /\ Len(pool) \in Nat
      /\ \A k \in 1..Len(pool) : pool'[k] = pool[k]
      /\ pool'[Len(pool) + 1] = c
    BY AppendProperties, LenProperties DEF Submit, PoolInv
<1>5. DOMAIN pool = 1..Len(pool) /\ DOMAIN pool' = 1..(Len(pool) + 1)
    BY <1>4, LenProperties DEF PoolInv
<1>6. \A k \in 1..Len(pool) : pool[k] \in Calls /\ pool[k] # c
    BY <1>5, LenProperties DEF PoolInv
<1>7. PoolInv'
    <2>1. \A k \in DOMAIN pool' : job'[pool'[k]].pc = "pooled"
        <3> TAKE k \in DOMAIN pool'
        <3>1. CASE k = Len(pool) + 1
            BY <1>3, <1>4, <3>1
        <3>2. CASE k \in 1..Len(pool)
            BY <1>2, <1>4, <1>5, <1>6, <3>2 DEF PoolInv
        <3> QED
            BY <1>4, <1>5, <3>1, <3>2
    <2>2. \A j, k \in DOMAIN pool' : pool'[j] = pool'[k] => j = k
        <3>1. \A j, k \in 1..Len(pool) : pool'[j] = pool'[k] => j = k
            BY <1>4, <1>5 DEF PoolInv
        <3>2. \A j \in 1..Len(pool) : pool'[j] # c
            BY <1>4, <1>6
        <3>3. \A j \in DOMAIN pool' : j \in 1..Len(pool) \/ j = Len(pool) + 1
            BY <1>4, <1>5
        <3> QED
            BY <1>4, <3>1, <3>2, <3>3
    <2> QED
        BY <1>4, <2>1, <2>2 DEF PoolInv
<1>8. LockInv'
    BY <1>2, <1>3 DEF LockTypes, HeldWhileNeeded, lockVars, Images
<1> QED
    BY <1>2, <1>7, <1>8

LEMMA AnalyzeInv ==
    ASSUME AnalyzerInv, NEW r \in Runs, Analyze(r)
    PROVE  AnalyzerInv'
<1> USE DEF AnalyzerInv
<1>1. run[r].attempts = <<>> /\ Len(<<>>) = 0
    BY EmptySeq DEF RunInv, Analyze
<1>2. Current(r) = <<r, 1>> /\ <<r, 1>> \in Calls
    BY <1>1, AnalyzerAssumption DEF AnalyzerAssumption, Current, Calls
<1>3. job[<<r, 1>>].pc = "none"
    BY <1>2 DEF JobInv, Submitted, Analyze
<1>4. /\ PoolInv' /\ LockInv' /\ job' \in [Calls -> Job]
      /\ job'[<<r, 1>>] = [pc |-> "pooled", retry |-> None, answer |-> None]
      /\ \A d \in Calls \ {<<r, 1>>} : job'[d] = job[d]
    BY <1>2, <1>3, SubmitEffect DEF Analyze
<1>5. run[r] \in Run /\ [run[r] EXCEPT !.pc = "asking"] \in Run
    BY DEF RunInv, Run
<1>6. /\ run' \in [Runs -> Run]
      /\ run'[r] = [run[r] EXCEPT !.pc = "asking"]
      /\ \A q \in Runs \ {r} : run'[q] = run[q]
    BY <1>5 DEF RunInv, Analyze
<1>7. run'[r].pc = "asking" /\ run'[r].attempts = <<>>
    BY <1>1, <1>5, <1>6 DEF Run
<1>8. RunInv'
    <2>1. \A q \in Runs :
            /\ run'[q].pc = "idle" => run'[q].attempts = <<>>
            /\ run'[q].pc = "asking" => Len(run'[q].attempts) <= MaxRegenerations
        <3> TAKE q \in Runs
        <3>1. CASE q = r
            BY <1>1, <1>7, <3>1, AnalyzerAssumption DEF AnalyzerAssumption
        <3>2. CASE q # r
            BY <1>6, <3>2 DEF RunInv
        <3> QED
            BY <3>1, <3>2
    <2> QED
        BY <1>6, <2>1 DEF RunInv
<1>9. JobInv'
    <2>1. \A c \in Calls : c[1] = r => (job'[c].pc # "none" => c[2] <= 1)
        <3> TAKE c \in Calls
        <3> HAVE c[1] = r
        <3>1. c[2] \in Nat
            BY CallParts
        <3>2. CASE c = <<r, 1>>
            BY <3>2
        <3>3. CASE c # <<r, 1>>
            BY <1>4, <3>1, <3>3 DEF JobInv, Submitted, Analyze
        <3> QED
            BY <3>2, <3>3
    <2>2. \A c \in Calls : c[1] # r => job'[c] = job[c] /\ Submitted(c[1])' = Submitted(c[1])
        BY <1>4, <1>6, CallParts DEF Submitted
    <2>3. Submitted(r)' = 1
        BY <1>1, <1>7 DEF Submitted
    <2>4. \A c \in Calls : job'[c].pc \in {"cleaning", "done"} => job'[c].answer \in Answers
        BY <1>4 DEF JobInv
    <2> QED
        BY <1>4, <2>1, <2>2, <2>3, <2>4 DEF JobInv
<1>10. RetryNamesCause'
    <2>1. ASSUME NEW q \in Runs, q # r, q \in Asking
          PROVE  Current(q)' = Current(q) /\ job'[Current(q)] = job[Current(q)]
        <3>1. Current(q) \in Calls /\ Current(q)[1] = q
            BY <2>1, CurrentIsCall DEF Asking
        <3> QED
            BY <1>4, <1>6, <2>1, <3>1 DEF Current
    <2>2. Current(r)' = <<r, 1>> /\ job'[<<r, 1>>].retry = None
        BY <1>1, <1>4, <1>7 DEF Current
    <2>3. \A q \in Asking' \ {r} : q \in Asking /\ run'[q] = run[q]
        BY <1>6 DEF Asking
    <2> SUFFICES ASSUME NEW q \in Asking'
                 PROVE  LET attempts == run'[q].attempts
                            cause == IF attempts # <<>> /\ attempts[Len(attempts)] \in Rejections
                                     THEN attempts[Len(attempts)] ELSE None
                        IN job'[Current(q)'].retry = cause
        BY DEF RetryNamesCause
    <2>4. CASE q = r
        BY <1>7, <2>2, <2>4
    <2>5. CASE q # r
        <3>1. q \in Runs /\ q \in Asking /\ run'[q] = run[q]
            BY <2>3, <2>5 DEF Asking
        <3> QED
            BY <2>1, <2>5, <3>1 DEF RetryNamesCause
    <2> QED
        BY <2>4, <2>5
<1> QED
    BY <1>4, <1>8, <1>9, <1>10

LEMMA CancelInv ==
    ASSUME AnalyzerInv, NEW r \in Runs, Cancel(r)
    PROVE  AnalyzerInv'
<1> USE DEF AnalyzerInv, LockInv
<1>1. run[r] \in Run /\ [run[r] EXCEPT !.pc = "cancelled"] \in Run
    BY DEF RunInv, Run
<1>2. /\ run' \in [Runs -> Run]
      /\ run'[r] = [run[r] EXCEPT !.pc = "cancelled"]
      /\ \A q \in Runs \ {r} : run'[q] = run[q]
    BY <1>1 DEF RunInv, Cancel
<1>3. run'[r].pc = "cancelled" /\ run'[r].attempts = run[r].attempts
    BY <1>1, <1>2 DEF Run
<1>4. RunInv'
    <2>1. \A q \in Runs :
            /\ run'[q].pc = "idle" => run'[q].attempts = <<>>
            /\ run'[q].pc = "asking" => Len(run'[q].attempts) <= MaxRegenerations
        <3> TAKE q \in Runs
        <3>1. CASE q = r
            BY <1>3, <3>1
        <3>2. CASE q # r
            BY <1>2, <3>2 DEF RunInv
        <3> QED
            BY <3>1, <3>2
    <2> QED
        BY <1>2, <2>1 DEF RunInv
<1>5. Current(r) \in Calls /\ Current(r)[1] = r
    BY CurrentIsCall DEF Cancel
<1>6. \A q \in Runs : Submitted(q)' = Submitted(q)
    BY <1>2, <1>3 DEF Submitted, Cancel
<1>7. \A c \in Calls : c[1] \in Runs
    BY CallParts
<1>8. \A q \in Asking' : q \in Asking /\ q # r /\ Current(q)' = Current(q)
    BY <1>2, <1>3 DEF Asking, Current
<1>9. \A q \in Asking : Current(q) \in Calls /\ Current(q)[1] = q
    BY CurrentIsCall DEF Asking
<1>10. CASE UNCHANGED <<job, pool>>
    <2>1. JobInv' /\ PoolInv' /\ LockInv'
        BY <1>6, <1>7, <1>10
           DEF JobInv, PoolInv, LockTypes, HeldWhileNeeded, Cancel, lockVars, Images
    <2>2. \A q \in Asking' : run'[q] = run[q] /\ Current(q)' = Current(q) /\ q \in Asking
        BY <1>2, <1>8 DEF Asking
    <2>3. RetryNamesCause'
        BY <1>10, <2>2 DEF RetryNamesCause
    <2> QED
        BY <1>4, <2>1, <2>3
<1>11. CASE job[Current(r)].pc = "pooled"
    <2>1. PICK k \in DOMAIN pool : pool[k] = Current(r) /\ pool' = Without(k)
        BY <1>11 DEF Cancel
    <2>2. Goto(Current(r), "withdrawn")
        BY <1>11 DEF Cancel, Goto
    <2>3. Moved(Current(r), "withdrawn")
        BY <1>5, <2>2, GotoMoves DEF States
    <2>4. JobInv'
        BY <1>5, <1>6, <1>7, <1>11, <2>3 DEF JobInv, Moved
    <2>5. PoolInv'
        <3>1. /\ DOMAIN pool = 1..Len(pool) /\ Len(pool) \in Nat
              /\ \A j \in 1..Len(pool) : pool[j] \in Calls
            BY LenProperties DEF PoolInv
        <3>2. /\ Len(pool) - 1 \in Nat /\ k \in 1..Len(pool)
              /\ DOMAIN pool' = 1..(Len(pool) - 1)
              /\ \A j \in 1..(Len(pool) - 1) : pool'[j] = pool[IF j < k THEN j ELSE j + 1]
            BY <2>1, <3>1 DEF Without
        <3>3. \A j \in 1..(Len(pool) - 1) :
                (IF j < k THEN j ELSE j + 1) \in 1..Len(pool) \ {k}
            BY <3>1, <3>2
        <3>4. pool' \in Seq(Calls)
            <4>1. pool' \in [1..(Len(pool) - 1) -> Calls]
                BY <2>1, <3>1, <3>2, <3>3 DEF Without
            <4> QED
                BY <3>2, <4>1, SeqDef
        <3>5. \A j \in 1..Len(pool) \ {k} : pool[j] # Current(r)
            BY <2>1, <3>1, <3>2 DEF PoolInv
        <3>6. \A j \in DOMAIN pool' : job'[pool'[j]].pc = "pooled"
            <4>1. \A j \in 1..Len(pool) \ {k} : job'[pool[j]].pc = "pooled"
                BY <2>3, <3>1, <3>5 DEF PoolInv, Moved
            <4> QED
                BY <3>2, <3>3, <4>1
        <3>7. \A i, j \in DOMAIN pool' : pool'[i] = pool'[j] => i = j
            <4> TAKE i, j \in DOMAIN pool'
            <4> HAVE pool'[i] = pool'[j]
            <4>1. (IF i < k THEN i ELSE i + 1) = (IF j < k THEN j ELSE j + 1)
                BY <3>1, <3>2, <3>3 DEF PoolInv
            <4> QED
                BY <3>1, <3>2, <4>1
        <3> QED
            BY <3>4, <3>6, <3>7 DEF PoolInv
    <2>6. LockInv'
        BY <1>5, <1>11, <2>3 DEF LockTypes, HeldWhileNeeded, Moved, Cancel, lockVars, Images
    <2>7. RetryNamesCause'
        BY <1>2, <1>5, <1>8, <1>9, <2>3 DEF RetryNamesCause, Asking, Moved
    <2> QED
        BY <1>4, <2>4, <2>5, <2>6, <2>7
<1> QED
    BY <1>10, <1>11 DEF Cancel

(* What Resume reads and writes. *)
Answered(r) == job[Current(r)].answer
Cause(answer) == IF answer \in Rejections THEN answer ELSE None
NextPc(r) == CASE Answered(r) = Valid -> "reported"
               [] Answered(r) # Valid /\ Last(Append(run[r].attempts, Answered(r))) -> "failed"
               [] OTHER -> run[r].pc

LEMMA ResumeEffect ==
    ASSUME AnalyzerInv, NEW r \in Runs, Resume(r)
    PROVE  /\ Answered(r) \in Answers
           /\ Len(run[r].attempts) \in 0..MaxRegenerations
           /\ run' \in [Runs -> Run]
           /\ \A q \in Runs \ {r} : run'[q] = run[q]
           /\ run'[r].attempts = Append(run[r].attempts, Answered(r))
           /\ Len(run'[r].attempts) = Len(run[r].attempts) + 1
           /\ run'[r].attempts[Len(run[r].attempts) + 1] = Answered(r)
           /\ Answered(r) # Valid => run'[r].rejection = Cause(Answered(r))
           /\ run'[r].pc = IF Answered(r) = Valid THEN "reported"
                           ELSE IF Len(run[r].attempts) = MaxRegenerations THEN "failed"
                           ELSE "asking"
<1> USE DEF AnalyzerInv
<1> DEFINE attempts == Append(run[r].attempts, Answered(r))
           rejection == IF Answered(r) = Valid THEN run[r].rejection ELSE Cause(Answered(r))
           new == [run[r] EXCEPT !.attempts = attempts, !.rejection = rejection, !.pc = NextPc(r)]
<1>1. /\ run[r].attempts \in Seq(Answers) /\ Len(run[r].attempts) \in 0..MaxRegenerations
      /\ run[r].rejection \in Rejections \cup {None} /\ run[r].pc = "asking"
    BY RunFields, AnalyzerAssumption DEF AnalyzerAssumption, RunInv, Resume
<1>2. Answered(r) \in Answers
    BY CurrentIsCall DEF Resume, JobInv, Answered
<1>3. /\ attempts \in Seq(Answers) /\ Len(attempts) = Len(run[r].attempts) + 1
      /\ attempts[Len(run[r].attempts) + 1] = Answered(r)
    BY <1>1, <1>2, AppendProperties
<1>4. rejection \in Rejections \cup {None}
    BY <1>1 DEF Cause
<1>5. NextPc(r) = IF Answered(r) = Valid THEN "reported"
                  ELSE IF Len(run[r].attempts) = MaxRegenerations THEN "failed" ELSE "asking"
    <2>1. Last(attempts) <=> Len(run[r].attempts) = MaxRegenerations
        BY <1>1, <1>3, AnalyzerAssumption DEF AnalyzerAssumption, Last
    <2> HIDE DEF attempts
    <2>2. CASE Answered(r) = Valid
        BY <2>2 DEF NextPc
    <2>3. CASE Answered(r) # Valid /\ Last(attempts)
        BY <2>1, <2>3 DEF NextPc, attempts
    <2>4. CASE Answered(r) # Valid /\ ~Last(attempts)
        BY <1>1, <2>1, <2>4 DEF NextPc, attempts
    <2> QED
        BY <2>2, <2>3, <2>4
<1>6. attempts \in UNION {[1..n -> Answers] : n \in 0..(MaxRegenerations + 1)}
    <2>1. Len(attempts) <= MaxRegenerations + 1
        BY <1>1, <1>3, AnalyzerAssumption DEF AnalyzerAssumption
    <2> HIDE DEF attempts
    <2> QED
        BY <1>3, <2>1, AttemptsType
<1>7. run' = [run EXCEPT ![r] = new]
    BY DEF Resume, RejectionAfter, Answered, Cause, NextPc
<1>8. run[r] \in Run
    BY DEF RunInv
<1> HIDE DEF attempts, rejection
<1>9. new \in Run
    BY <1>4, <1>5, <1>6, <1>8 DEF Run
<1>10. new.attempts = attempts /\ new.rejection = rejection /\ new.pc = NextPc(r)
    BY <1>8 DEF Run
<1>11. run' \in [Runs -> Run] /\ run'[r] = new /\ \A q \in Runs \ {r} : run'[q] = run[q]
    BY <1>7, <1>9 DEF RunInv
<1> QED
    BY <1>1, <1>2, <1>3, <1>5, <1>10, <1>11 DEF attempts, rejection

LEMMA ResumeInv ==
    ASSUME AnalyzerInv, NEW r \in Runs, Resume(r)
    PROVE  AnalyzerInv'
<1> USE DEF AnalyzerInv
<1> DEFINE n == Len(run[r].attempts)
<1>1. /\ Answered(r) \in Answers /\ n \in 0..MaxRegenerations
      /\ run' \in [Runs -> Run]
      /\ \A q \in Runs \ {r} : run'[q] = run[q]
      /\ Len(run'[r].attempts) = n + 1
      /\ run'[r].attempts[n + 1] = Answered(r)
      /\ Answered(r) # Valid => run'[r].rejection = Cause(Answered(r))
      /\ run'[r].pc = IF Answered(r) = Valid THEN "reported"
                      ELSE IF n = MaxRegenerations THEN "failed" ELSE "asking"
    BY ResumeEffect
<1>2. run'[r].attempts = Append(run[r].attempts, Answered(r))
    BY ResumeEffect
<1>3. run[r].pc = "asking"
    BY DEF Resume
<1> HIDE DEF n
<1>4. n \in Nat /\ n <= MaxRegenerations /\ MaxRegenerations \in Nat
    BY <1>1, AnalyzerAssumption DEF AnalyzerAssumption
<1>5. RunInv'
    <2>1. \A q \in Runs :
            /\ run'[q].pc = "idle" => run'[q].attempts = <<>>
            /\ run'[q].pc = "asking" => Len(run'[q].attempts) <= MaxRegenerations
        <3> TAKE q \in Runs
        <3>1. CASE q = r
            BY <1>1, <1>4, <3>1
        <3>2. CASE q # r
            BY <1>1, <3>2 DEF RunInv
        <3> QED
            BY <3>1, <3>2
    <2> QED
        BY <1>1, <2>1 DEF RunInv
<1>6. Submitted(r) = n + 1 /\ Submitted(r)' = n + 2
    BY <1>1, <1>3, <1>4 DEF Submitted, n
<1>7. \A q \in Runs \ {r} : Submitted(q)' = Submitted(q)
    BY <1>1 DEF Submitted
<1>8. \A c \in Calls : c[1] \in Runs /\ c[2] \in Nat
    BY CallParts
<1>9. \A q \in Asking' \ {r} :
        /\ q \in Runs /\ q \in Asking /\ run'[q] = run[q] /\ Current(q)' = Current(q)
        /\ Current(q) \in Calls /\ Current(q)[1] = q
    BY <1>1, CurrentIsCall DEF Asking, Current
<1>10. CASE Answered(r) = Valid \/ n = MaxRegenerations
    <2>1. UNCHANGED <<job, pool, loaded, loadLock, generateLock, directories>>
        <3>1. Answered(r) = Valid \/ Last(Append(run[r].attempts, Answered(r)))
            BY <1>1, <1>2, <1>4, <1>10 DEF Last
        <3> QED
            BY <3>1 DEF Resume, Answered, lockVars
    <2>2. JobInv'
        BY <1>4, <1>6, <1>7, <1>8, <2>1 DEF JobInv
    <2>3. PoolInv' /\ LockInv'
        BY <2>1 DEF PoolInv, LockInv, LockTypes, HeldWhileNeeded, Images
    <2>4. r \notin Asking'
        BY <1>1, <1>10 DEF Asking
    <2>5. RetryNamesCause'
        BY <1>9, <2>1, <2>4 DEF RetryNamesCause
    <2> QED
        BY <1>5, <2>2, <2>3, <2>5
<1>11. CASE Answered(r) # Valid /\ n # MaxRegenerations
    <2> DEFINE c == <<r, n + 2>>
    <2>1. c \in Calls /\ c[1] = r /\ c[2] = n + 2
        BY <1>4, <1>11 DEF Calls
    <2>2. job[c].pc = "none"
        BY <1>4, <1>6, <2>1 DEF JobInv
    <2>3. /\ Submit(c, Cause(Answered(r)))
          /\ UNCHANGED <<lockVars, directories>>
        <3>1. ~(Answered(r) = Valid \/ Last(Append(run[r].attempts, Answered(r))))
            BY <1>1, <1>2, <1>4, <1>11 DEF Last
        <3>2. Len(Append(run[r].attempts, Answered(r))) + 1 = n + 2
            BY <1>1, <1>2, <1>4
        <3>3. /\ Submit(<<r, Len(Append(run[r].attempts, Answered(r))) + 1>>, run'[r].rejection)
              /\ UNCHANGED <<lockVars, directories>>
            BY <3>1 DEF Resume, Answered
        <3> QED
            BY <1>1, <1>11, <3>2, <3>3
    <2>4. Cause(Answered(r)) \in Rejections \cup {None}
        BY DEF Cause
    <2>5. /\ PoolInv' /\ LockInv' /\ job' \in [Calls -> Job]
          /\ job'[c] = [pc |-> "pooled", retry |-> Cause(Answered(r)), answer |-> None]
          /\ \A d \in Calls \ {c} : job'[d] = job[d]
        BY <2>1, <2>2, <2>3, <2>4, SubmitEffect
    <2> HIDE DEF c
    <2>6. job'[c].pc = "pooled" /\ job'[c].retry = Cause(Answered(r))
        BY <2>5
    <2>7. JobInv'
        <3>1. ASSUME NEW d \in Calls
              PROVE  /\ job'[d].pc # "none" => d[2] <= Submitted(d[1])'
                     /\ job'[d].pc \in {"cleaning", "done"} => job'[d].answer \in Answers
            <4>1. CASE d = c
                BY <1>4, <1>6, <2>1, <2>6, <4>1
            <4>2. CASE d # c
                <5>1. job'[d] = job[d]
                    BY <2>5, <4>2
                <5>2. d[2] <= Submitted(d[1]) => d[2] <= Submitted(d[1])'
                    BY <1>4, <1>6, <1>7, <1>8
                <5> QED
                    BY <5>1, <5>2 DEF JobInv
            <4> QED
                BY <4>1, <4>2
        <3> QED
            BY <2>5, <3>1 DEF JobInv
    <2>8. RetryNamesCause'
        <3> SUFFICES ASSUME NEW q \in Asking'
                     PROVE  LET attempts == run'[q].attempts
                                cause == IF attempts # <<>> /\ attempts[Len(attempts)] \in Rejections
                                         THEN attempts[Len(attempts)] ELSE None
                            IN job'[Current(q)'].retry = cause
            BY DEF RetryNamesCause
        <3>1. CASE q = r
            <4>1. Current(r)' = c
                BY <1>1, <1>4 DEF Current, c
            <4>2. run'[r].attempts # <<>>
                BY <1>1, <1>4, EmptySeq
            <4> QED
                BY <1>1, <2>6, <3>1, <4>1, <4>2 DEF Cause
        <3>2. CASE q # r
            <4>1. Current(q) # c /\ Current(q) \in Calls
                BY <1>9, <2>1, <3>2
            <4>2. job'[Current(q)] = job[Current(q)] /\ q \in Asking
                BY <1>9, <2>5, <3>2, <4>1
            <4> QED
                BY <1>9, <3>2, <4>2 DEF RetryNamesCause
        <3> QED
            BY <3>1, <3>2
    <2> QED
        BY <1>5, <2>5, <2>7, <2>8
<1> QED
    BY <1>10, <1>11

-----------------------------------------------------------------------------
LEMMA StutterInv ==
    ASSUME AnalyzerInv, UNCHANGED vars
    PROVE  AnalyzerInv'
BY DEF AnalyzerInv, RunInv, JobInv, PoolInv, LockInv, LockTypes, HeldWhileNeeded,
       RetryNamesCause, Asking, Current, Images, Submitted, vars, lockVars

LEMMA NextInv == AnalyzerInv /\ [Next]_vars => AnalyzerInv'
<1> SUFFICES ASSUME AnalyzerInv, [Next]_vars PROVE AnalyzerInv'
    OBVIOUS
<1>1. ASSUME NEW r \in Runs, Analyze(r) \/ Resume(r) \/ Cancel(r) PROVE AnalyzerInv'
    BY <1>1, AnalyzeInv, ResumeInv, CancelInv
<1>2. CASE StartThread
    BY <1>2, StartThreadInv
<1>3. ASSUME NEW c \in Calls, ThreadStep(c) PROVE AnalyzerInv'
    BY <1>3, TakeLoadLockInv, LoadInv, LoadFailsInv, WriteImagesInv, WriteFailsInv,
       ImportFailsInv, TakeGenerateLockInv, GenerateInv, RemoveImagesInv DEF ThreadStep
<1>4. CASE UNCHANGED vars
    BY <1>4, StutterInv
<1> QED
    BY <1>1, <1>2, <1>3, <1>4 DEF Next

(* The inductive invariant of the analyzer and of the local model.         *)
THEOREM AnalyzerInvariant == Spec => []AnalyzerInv
BY InitInv, NextInv, PTL DEF Spec

(* Types are kept, and a job in the pool is one that waits there           *)
(* (qwen_mlx.py, complete).                                                *)
THEOREM AnalyzerTyped == Spec => []AnalyzerTypeOK
<1>1. AnalyzerInv => AnalyzerTypeOK
    <2> SUFFICES ASSUME AnalyzerInv PROVE AnalyzerTypeOK
        OBVIOUS
    <2>1. \A k \in DOMAIN pool : pool[k] \in Calls /\ job[pool[k]].pc = "pooled"
        BY LenProperties DEF AnalyzerInv, PoolInv
    <2> QED
        BY <2>1 DEF AnalyzerInv, RunInv, JobInv, LockInv, LockTypes, AnalyzerTypeOK
<1> QED
    BY <1>1, AnalyzerInvariant, PTL

(* No way out of a call keeps a lock or a directory, and nothing is        *)
(* generated before the weights are there (qwen_mlx.py, _run).             *)
THEOREM NothingIsKept == Spec => []HeldWhileNeeded
<1>1. AnalyzerInv => HeldWhileNeeded
    BY DEF AnalyzerInv, LockInv
<1> QED
    BY <1>1, AnalyzerInvariant, PTL

(* A prompt blames the last answer, and only for what it was rejected for  *)
(* (environment_analysis.py, analyze).                                     *)
THEOREM PromptNamesCause == Spec => []RetryNamesCause
<1>1. AnalyzerInv => RetryNamesCause
    BY DEF AnalyzerInv
<1> QED
    BY <1>1, AnalyzerInvariant, PTL

-----------------------------------------------------------------------------
(* Only TakeLoadLock sends a job to read the weights, and only when they   *)
(* are not there.                                                          *)
LEMMA LoadedIsEnough ==
    ASSUME AnalyzerInv, [Next]_vars, loaded, NEW d \in Calls, job[d].pc # "loading"
    PROVE  job'[d].pc # "loading"
<1> USE DEF AnalyzerInv
<1>1. ASSUME NEW c \in Calls, NEW pc \in States \ {"loading"}, Moved(c, pc)
      PROVE  job'[d].pc # "loading"
    BY <1>1 DEF Moved
<1>2. ASSUME NEW c \in Calls, ThreadStep(c) PROVE job'[d].pc # "loading"
    <2>1. CASE TakeLoadLock(c)
        BY <1>1, <2>1, GotoMoves DEF TakeLoadLock, States
    <2>2. CASE Load(c)
        BY <1>1, <2>2, GotoMoves DEF Load, States
    <2>3. CASE LoadFails(c)
        BY <1>1, <2>3, RaiseMoves DEF LoadFails, States
    <2>4. CASE WriteImages(c)
        BY <1>1, <2>4, GotoMoves DEF WriteImages, States
    <2>5. CASE WriteFails(c)
        BY <1>1, <2>5, RaiseMoves DEF WriteFails, States
    <2>6. CASE ImportFails(c)
        BY <1>1, <2>6, RaiseMoves DEF ImportFails, States
    <2>7. CASE TakeGenerateLock(c)
        BY <1>1, <2>7, GotoMoves DEF TakeGenerateLock, States
    <2>8. CASE Generate(c)
        BY <1>1, <2>8, AnswerMoves DEF Generate, States
    <2>9. CASE RemoveImages(c)
        BY <1>1, <2>9, GotoMoves DEF RemoveImages, States
    <2> QED
        BY <1>2, <2>1, <2>2, <2>3, <2>4, <2>5, <2>6, <2>7, <2>8, <2>9 DEF ThreadStep
<1>3. CASE StartThread
    <2>1. Head(pool) \in Calls
        BY <1>3, HeadTailProperties DEF PoolInv, StartThread
    <2> QED
        BY <1>1, <1>3, <2>1, GotoMoves DEF StartThread, States
<1>4. ASSUME NEW c, NEW retry, Submit(c, retry) PROVE job'[d].pc # "loading"
    BY <1>4 DEF Submit, JobInv
<1>5. ASSUME NEW r \in Runs, Analyze(r) \/ Resume(r) \/ Cancel(r)
      PROVE  job'[d].pc # "loading"
    <2>1. CASE Analyze(r)
        BY <1>4, <2>1 DEF Analyze
    <2>2. CASE Resume(r)
        BY <1>4, <2>2 DEF Resume
    <2>3. CASE Cancel(r)
        <3>1. CASE UNCHANGED job
            BY <3>1
        <3>2. CASE Goto(Current(r), "withdrawn")
            BY <1>1, <2>3, <3>2, CurrentIsCall, GotoMoves DEF Cancel, States
        <3> QED
            BY <2>3, <3>1, <3>2 DEF Cancel, Goto
    <2> QED
        BY <1>5, <2>1, <2>2, <2>3
<1>6. CASE UNCHANGED vars
    BY <1>6 DEF vars
<1> QED
    BY <1>2, <1>3, <1>5, <1>6 DEF Next

(* Weights that are there are never read again, whatever the jobs saw at   *)
(* their first look (qwen_mlx.py, _ensure_loaded).                         *)
THEOREM WeightsOnce == Spec => WeightsReadOnce
<1>1. AnalyzerInv /\ [Next]_vars =>
        [\A c \in Calls : loaded => ~(job[c].pc # "loading" /\ job'[c].pc = "loading")]_vars
    BY LoadedIsEnough
<1> QED
    BY <1>1, AnalyzerInvariant, PTL DEF Spec, WeightsReadOnce

-----------------------------------------------------------------------------
(* The steps of the loop are those of Analyze, Resume and Cancel; all that *)
(* threads do leaves the runs alone.                                       *)
LEMMA LoopInitMaps == Init => Loop!LoopInit
<1> SUFFICES ASSUME Init PROVE Loop!LoopInit
    OBVIOUS
<1>1. \A r \in Runs : run[r].pc = "idle" /\ Len(run[r].attempts) = 0
    BY EmptySeq DEF Init
<1> QED
    BY <1>1 DEF Loop!LoopInit

LEMMA LoopStepMaps == AnalyzerInv /\ [Next]_vars => [Loop!LoopNext]_Loop!loopVars
<1> SUFFICES ASSUME AnalyzerInv, [Next]_vars PROVE [Loop!LoopNext]_Loop!loopVars
    OBVIOUS
<1> USE DEF AnalyzerInv
<1>1. CASE UNCHANGED run
    BY <1>1 DEF Loop!loopVars
<1>2. ASSUME NEW r \in Runs, Analyze(r) PROVE Loop!Ask(r)
    <2>1. run[r] \in Run /\ run[r].pc = "idle"
        BY <1>2 DEF RunInv, Analyze
    <2>2. /\ run'[r].pc = "asking" /\ run'[r].attempts = run[r].attempts
          /\ \A q \in Runs \ {r} : run'[q] = run[q]
        BY <1>2, <2>1 DEF RunInv, Run, Analyze
    <2> QED
        BY <2>1, <2>2 DEF Loop!Ask
<1>3. ASSUME NEW r \in Runs, Cancel(r) PROVE Loop!Stop(r)
    <2>1. run[r] \in Run /\ run[r].pc = "asking"
        BY <1>3 DEF RunInv, Cancel
    <2>2. /\ run'[r].pc = "cancelled" /\ run'[r].attempts = run[r].attempts
          /\ \A q \in Runs \ {r} : run'[q] = run[q]
        BY <1>3, <2>1 DEF RunInv, Run, Cancel
    <2> QED
        BY <2>1, <2>2 DEF Loop!Stop
<1>4. ASSUME NEW r \in Runs, Resume(r) PROVE Loop!Answer(r)
    <2> DEFINE n == Len(run[r].attempts)
    <2>1. /\ n \in 0..MaxRegenerations
          /\ \A q \in Runs \ {r} : run'[q] = run[q]
          /\ Len(run'[r].attempts) = n + 1
          /\ run'[r].pc = IF Answered(r) = Valid THEN "reported"
                          ELSE IF n = MaxRegenerations THEN "failed" ELSE "asking"
        BY <1>4, ResumeEffect
    <2>2. run[r].pc = "asking" /\ MaxRegenerations \in Nat
        BY <1>4, AnalyzerAssumption DEF AnalyzerAssumption, Resume
    <2> DEFINE state == [q \in Runs |-> run[q].pc]
               tries == [q \in Runs |-> Len(run[q].attempts)]
    <2>3. tries' = [tries EXCEPT ![r] = @ + 1] /\ tries'[r] = n + 1
        BY <2>1
    <2>4. state' = [state EXCEPT ![r] = run'[r].pc] /\ state[r] = "asking"
        BY <2>1, <2>2
    <2>5. \/ run'[r].pc = "reported"
          \/ run'[r].pc = "asking" /\ n + 1 < MaxRegenerations + 1
          \/ run'[r].pc = "failed" /\ n + 1 = MaxRegenerations + 1
        BY <2>1, <2>2
    <2>6. run'[r].pc = "asking" => state' = state
        BY <2>4
    <2> QED
        BY <2>3, <2>4, <2>5, <2>6 DEF Loop!Answer
<1>5. CASE \E r \in Runs : Analyze(r) \/ Resume(r) \/ Cancel(r)
    BY <1>2, <1>3, <1>4, <1>5 DEF Loop!LoopNext
<1>6. CASE StartThread \/ \E c \in Calls : ThreadStep(c)
    <2>1. UNCHANGED run
        BY <1>6 DEF StartThread, ThreadStep, TakeLoadLock, Load, LoadFails, WriteImages,
           WriteFails, ImportFails, TakeGenerateLock, Generate, RemoveImages
    <2> QED
        BY <1>1, <2>1
<1>7. CASE UNCHANGED vars
    BY <1>1, <1>7 DEF vars
<1> QED
    BY <1>5, <1>6, <1>7 DEF Next

(* analyze is the loop of RegenerationLoop, whatever the threads do.       *)
THEOREM AnalyzerIsLoop == Spec => Loop!LoopInit /\ [][Loop!LoopNext]_Loop!loopVars
BY LoopInitMaps, LoopStepMaps, AnalyzerInvariant, PTL DEF Spec
=============================================================================
