-------------------------- MODULE ImageFilesProofs --------------------------
(***************************************************************************)
(* For any number of analyses, builds, images, crashes and faults: an      *)
(* image that a worker holds or a row refers to is on disk, and only a     *)
(* request on that very row takes it away; and as long as nothing crashed  *)
(* or failed, every other file on disk is one that a build left whose      *)
(* pipeline never got its name.                                            *)
(***************************************************************************)
EXTENDS ImageFiles, TLAPS

-----------------------------------------------------------------------------
(* HeldImagesOnDisk is not inductive: three actions remove files, and each *)
(* must be shown to hit its own analysis only.  The paths in circulation   *)
(* come from builds that have delivered (PathsBelong), a build delivers to *)
(* the analysis it was started for (AwaitedBuild), a worker and its row    *)
(* never know paths at the same time (PathsOfWorker), and the cleanup runs *)
(* when no worker and no thread exists (NothingRunsWhenDown).              *)

\* What a thread has written is there until its result is taken.

BuiltOnDisk ==
    \A b \in Builds : build[b].pc \in {"writing", "returned"} =>
        \A k \in 1..build[b].n : <<b, k>> \in disk

HeldOnDisk == \A i \in Ids : \A f \in worker[i].images : f \in disk

PathsBelong ==
    \A i \in Ids : \A f \in worker[i].images \cup refs[i] :
        build[f[1]].pc = "taken" /\ build[f[1]].id = i

PathsOfWorker ==
    \A i \in Ids :
        /\ worker[i].pc \notin {"later", "saveResult"} => worker[i].images = {}
        /\ worker[i].pc # "none" => refs[i] = {}
        /\ status[i] = "unborn" => worker[i].pc = "none" /\ refs[i] = {}

AwaitedBuild ==
    \A i \in Ids : worker[i].pc = "marking" =>
        /\ worker[i].build \in Builds
        /\ build[worker[i].build].id = i
        /\ build[worker[i].build].pc # "unused"

NothingRunsWhenDown ==
    ~up => /\ \A i \in Ids : worker[i].pc = "none"
           /\ \A b \in Builds : build[b].pc \notin {"writing", "returned"}
           /\ requests = {}

\* The inductive invariant.
ImageInv ==
    /\ ImagesTypeOK
    /\ BuiltOnDisk
    /\ HeldOnDisk
    /\ PathsBelong
    /\ PathsOfWorker
    /\ AwaitedBuild
    /\ NothingRunsWhenDown

-----------------------------------------------------------------------------
LEMMA AtIsWorker ==
    \A pc \in {"none", "early", "marking", "later", "saveResult", "saveFailure"} :
        At(pc) \in Worker
BY DEF At, Worker

LEMMA EnqueueTyped ==
    ASSUME ImagesTypeOK, NEW i \in Ids, Enqueue(i)
    PROVE  status' \in [Ids -> Statuses] /\ worker' \in [Ids -> Worker]
<1>1. At("early") \in Worker
    BY AtIsWorker
<1>2. CASE /\ status' = [status EXCEPT ![i] = "active"]
           /\ worker' = [worker EXCEPT ![i] = At("early")]
    BY <1>1, <1>2 DEF ImagesTypeOK, Statuses
<1>3. CASE status' = [status EXCEPT ![i] = "FAILED"] /\ UNCHANGED worker
    BY <1>3 DEF ImagesTypeOK, Statuses
<1> QED
    BY <1>2, <1>3 DEF Enqueue

-----------------------------------------------------------------------------
(* Every action preserves the invariant. *)

LEMMA CreateInv ==
    ASSUME ImageInv, NEW i \in Ids, Create(i)
    PROVE  ImageInv'
<1> USE DEF ImageInv, Create, Enqueue, rowVars, boundVars
<1>1. ImagesTypeOK'
    <2> HIDE DEF Enqueue
    <2> QED
        BY EnqueueTyped DEF ImagesTypeOK
<1>2. HeldOnDisk'
    BY DEF At, HeldOnDisk, ImagesTypeOK
<1>3. PathsBelong'
    BY DEF At, PathsBelong, ImagesTypeOK
<1>4. PathsOfWorker'
    BY DEF At, PathsOfWorker, ImagesTypeOK
<1>5. AwaitedBuild'
    <2>1. \A j \in Ids : worker'[j].pc = "marking" => worker'[j] = worker[j]
        BY DEF At, ImagesTypeOK
    <2> QED
        BY <2>1 DEF AwaitedBuild
<1>6. BuiltOnDisk' /\ NothingRunsWhenDown'
    BY DEF BuiltOnDisk, NothingRunsWhenDown
<1> QED
    BY <1>1, <1>2, <1>3, <1>4, <1>5, <1>6

LEMMA EarlyFailsInv ==
    ASSUME ImageInv, NEW i \in Ids, EarlyFails(i)
    PROVE  ImageInv'
<1> USE DEF ImageInv, EarlyFails, Fails, rowVars, boundVars
<1>1. ImagesTypeOK'
    BY ImageAssumption, AtIsWorker DEF ImagesTypeOK
<1>2. /\ BuiltOnDisk' /\ HeldOnDisk' /\ PathsBelong'
      /\ PathsOfWorker' /\ AwaitedBuild' /\ NothingRunsWhenDown'
    BY DEF At, BuiltOnDisk, HeldOnDisk, PathsBelong, PathsOfWorker,
        AwaitedBuild, NothingRunsWhenDown
<1> QED
    BY <1>1, <1>2

LEMMA StartBuildInv ==
    ASSUME ImageInv, NEW i \in Ids, NEW b \in Builds, StartBuild(i, b)
    PROVE  ImageInv'
<1> USE DEF ImageInv, StartBuild, rowVars, boundVars
<1>1. ImagesTypeOK'
    <2>1. [pc |-> "writing", id |-> i, n |-> 0] \in Build
        BY ImageAssumption DEF Build
    <2>2. [worker[i] EXCEPT !.pc = "marking", !.build = b] \in Worker
        BY DEF ImagesTypeOK, Worker
    <2>3. /\ build' = [build EXCEPT ![b] = [pc |-> "writing", id |-> i, n |-> 0]]
          /\ worker' = [worker EXCEPT ![i] = [worker[i] EXCEPT !.pc = "marking", !.build = b]]
        BY DEF ImagesTypeOK
    <2> QED
        BY <2>1, <2>2, <2>3 DEF ImagesTypeOK
<1>2. HeldOnDisk'
    BY DEF HeldOnDisk, ImagesTypeOK
<1>3. PathsBelong'
    BY DEF PathsBelong, ImagesTypeOK
<1>4. PathsOfWorker'
    BY DEF PathsOfWorker, ImagesTypeOK
<1>5. AwaitedBuild'
    BY DEF AwaitedBuild, ImagesTypeOK
<1>6. BuiltOnDisk' /\ NothingRunsWhenDown'
    BY DEF BuiltOnDisk, NothingRunsWhenDown
<1> QED
    BY <1>1, <1>2, <1>3, <1>4, <1>5, <1>6

LEMMA TakeVisualsInv ==
    ASSUME ImageInv, NEW i \in Ids, TakeVisuals(i)
    PROVE  ImageInv'
<1> USE DEF ImageInv, TakeVisuals, Images, rowVars, boundVars
<1> DEFINE a == worker[i].build
<1>0. a \in Builds /\ build[a].id = i
    BY DEF AwaitedBuild
<1> USE <1>0
<1>1. ImagesTypeOK'
    <2>1. build[a] \in Build /\ [build[a] EXCEPT !.pc = "taken"] \in Build
        BY DEF ImagesTypeOK, Build
    <2>2. Images(a, build[a].n) \in SUBSET Files
        BY ImageAssumption DEF ImagesTypeOK, Build, Images, Files
    <2>3. [pc |-> "later", build |-> NoBuild, images |-> Images(a, build[a].n)] \in Worker
        BY <2>2 DEF Worker
    <2>4. build' = [build EXCEPT ![a] = [build[a] EXCEPT !.pc = "taken"]]
        BY DEF ImagesTypeOK
    <2> QED
        BY <2>1, <2>3, <2>4 DEF ImagesTypeOK
<1>2. HeldOnDisk'
    <2>1. \A f \in worker'[i].images : f \in disk
        BY DEF BuiltOnDisk, Images, ImagesTypeOK
    <2> QED
        BY <2>1 DEF HeldOnDisk, ImagesTypeOK
<1>3. PathsBelong'
    BY DEF PathsBelong, ImagesTypeOK
<1>4. BuiltOnDisk' /\ PathsOfWorker' /\ AwaitedBuild' /\ NothingRunsWhenDown'
    BY DEF BuiltOnDisk, PathsOfWorker, AwaitedBuild, NothingRunsWhenDown
<1> QED
    BY <1>1, <1>2, <1>3, <1>4

LEMMA MarkingFailsInv ==
    ASSUME ImageInv, NEW i \in Ids, MarkingFails(i)
    PROVE  ImageInv'
<1> USE DEF ImageInv, MarkingFails, Fails, rowVars, boundVars
<1>1. ImagesTypeOK'
    BY ImageAssumption, AtIsWorker DEF ImagesTypeOK
<1>2. /\ BuiltOnDisk' /\ HeldOnDisk' /\ PathsBelong'
      /\ PathsOfWorker' /\ AwaitedBuild' /\ NothingRunsWhenDown'
    BY DEF At, BuiltOnDisk, HeldOnDisk, PathsBelong, PathsOfWorker,
        AwaitedBuild, NothingRunsWhenDown
<1> QED
    BY <1>1, <1>2

LEMMA LaterFailsInv ==
    ASSUME ImageInv, NEW i \in Ids, LaterFails(i)
    PROVE  ImageInv'
<1> USE DEF ImageInv, LaterFails, Fails, rowVars, boundVars
<1>1. ImagesTypeOK'
    BY ImageAssumption, AtIsWorker DEF ImagesTypeOK
<1>2. BuiltOnDisk'
    BY DEF BuiltOnDisk, PathsBelong
<1>3. HeldOnDisk'
    BY DEF At, HeldOnDisk, PathsBelong, ImagesTypeOK
<1>4. PathsBelong' /\ PathsOfWorker' /\ AwaitedBuild' /\ NothingRunsWhenDown'
    BY DEF At, PathsBelong, PathsOfWorker, AwaitedBuild, NothingRunsWhenDown
<1> QED
    BY <1>1, <1>2, <1>3, <1>4

LEMMA PipelineReturnsInv ==
    ASSUME ImageInv, NEW i \in Ids, PipelineReturns(i)
    PROVE  ImageInv'
<1> USE DEF ImageInv, PipelineReturns, rowVars, boundVars
<1>1. ImagesTypeOK'
    BY ImageAssumption DEF ImagesTypeOK, Worker
<1>2. /\ BuiltOnDisk' /\ HeldOnDisk' /\ PathsBelong'
      /\ PathsOfWorker' /\ AwaitedBuild' /\ NothingRunsWhenDown'
    BY DEF BuiltOnDisk, HeldOnDisk, PathsBelong, PathsOfWorker,
        AwaitedBuild, NothingRunsWhenDown
<1> QED
    BY <1>1, <1>2

LEMMA SaveResultInv ==
    ASSUME ImageInv, NEW i \in Ids, SaveResult(i)
    PROVE  ImageInv'
<1> USE DEF ImageInv, SaveResult, Ends, rowVars, boundVars
<1>1. ImagesTypeOK'
    BY ImageAssumption, AtIsWorker DEF ImagesTypeOK, Worker, Statuses
<1>2. PathsBelong'
    BY DEF At, PathsBelong, ImagesTypeOK
<1>3. PathsOfWorker'
    BY DEF At, PathsOfWorker, ImagesTypeOK
<1>4. BuiltOnDisk' /\ HeldOnDisk' /\ AwaitedBuild' /\ NothingRunsWhenDown'
    BY DEF At, BuiltOnDisk, HeldOnDisk, AwaitedBuild, NothingRunsWhenDown
<1> QED
    BY <1>1, <1>2, <1>3, <1>4

LEMMA SaveFailureInv ==
    ASSUME ImageInv, NEW i \in Ids, SaveFailure(i)
    PROVE  ImageInv'
<1> USE DEF ImageInv, SaveFailure, Ends, rowVars, boundVars
<1>1. ImagesTypeOK'
    BY ImageAssumption, AtIsWorker DEF ImagesTypeOK, Statuses
<1>2. /\ BuiltOnDisk' /\ HeldOnDisk' /\ PathsBelong'
      /\ PathsOfWorker' /\ AwaitedBuild' /\ NothingRunsWhenDown'
    BY DEF At, BuiltOnDisk, HeldOnDisk, PathsBelong, PathsOfWorker,
        AwaitedBuild, NothingRunsWhenDown
<1> QED
    BY <1>1, <1>2

LEMMA SaveFaultInv ==
    ASSUME ImageInv, NEW i \in Ids, SaveFault(i)
    PROVE  ImageInv'
<1> USE DEF ImageInv, SaveFault, Ends, CountFault, rowVars, boundVars
<1>1. ImagesTypeOK'
    BY ImageAssumption, AtIsWorker DEF ImagesTypeOK
<1>2. /\ BuiltOnDisk' /\ HeldOnDisk' /\ PathsBelong'
      /\ PathsOfWorker' /\ AwaitedBuild' /\ NothingRunsWhenDown'
    BY DEF At, BuiltOnDisk, HeldOnDisk, PathsBelong, PathsOfWorker,
        AwaitedBuild, NothingRunsWhenDown
<1> QED
    BY <1>1, <1>2

LEMMA BeginRetryInv ==
    ASSUME ImageInv, NEW i \in Ids, BeginRetry(i)
    PROVE  ImageInv'
<1> USE DEF ImageInv, BeginRetry, Begin, rowVars, boundVars
<1>1. ImagesTypeOK'
    BY ImageAssumption DEF ImagesTypeOK, Requests
<1>2. BuiltOnDisk'
    BY DEF BuiltOnDisk, PathsBelong
<1>3. HeldOnDisk'
    BY DEF HeldOnDisk, PathsBelong, PathsOfWorker
<1>4. PathsBelong' /\ PathsOfWorker' /\ AwaitedBuild' /\ NothingRunsWhenDown'
    BY DEF PathsBelong, PathsOfWorker, AwaitedBuild, NothingRunsWhenDown
<1> QED
    BY <1>1, <1>2, <1>3, <1>4

LEMMA CommitRetryInv ==
    ASSUME ImageInv, NEW i \in Ids, CommitRetry(i)
    PROVE  ImageInv'
<1> USE DEF ImageInv, CommitRetry, Enqueue, rowVars, boundVars
<1>1. ImagesTypeOK'
    <2>1. status' \in [Ids -> Statuses] /\ worker' \in [Ids -> Worker]
        <3> HIDE DEF Enqueue
        <3> QED
            BY EnqueueTyped DEF ImagesTypeOK
    <2> QED
        BY <2>1 DEF ImagesTypeOK
<1>2. HeldOnDisk'
    BY DEF At, HeldOnDisk, ImagesTypeOK
<1>3. PathsBelong'
    BY DEF At, PathsBelong, ImagesTypeOK
<1>4. PathsOfWorker'
    BY DEF At, PathsOfWorker, ImagesTypeOK, Worker
<1>5. AwaitedBuild'
    BY DEF At, AwaitedBuild, ImagesTypeOK
<1>6. BuiltOnDisk' /\ NothingRunsWhenDown'
    BY DEF BuiltOnDisk, NothingRunsWhenDown
<1> QED
    BY <1>1, <1>2, <1>3, <1>4, <1>5, <1>6

LEMMA BeginDeleteInv ==
    ASSUME ImageInv, NEW i \in Ids, BeginDelete(i)
    PROVE  ImageInv'
<1> USE DEF ImageInv, BeginDelete, Begin, rowVars, boundVars
<1>1. ImagesTypeOK'
    BY ImageAssumption DEF ImagesTypeOK, Requests
<1>2. BuiltOnDisk'
    BY DEF BuiltOnDisk, PathsBelong
<1>3. HeldOnDisk'
    BY DEF HeldOnDisk, PathsBelong, PathsOfWorker
<1>4. PathsBelong' /\ PathsOfWorker' /\ AwaitedBuild' /\ NothingRunsWhenDown'
    BY DEF PathsBelong, PathsOfWorker, AwaitedBuild, NothingRunsWhenDown
<1> QED
    BY <1>1, <1>2, <1>3, <1>4

LEMMA CommitDeleteInv ==
    ASSUME ImageInv, NEW i \in Ids, CommitDelete(i)
    PROVE  ImageInv'
<1> USE DEF ImageInv, CommitDelete, rowVars, boundVars
<1>1. ImagesTypeOK'
    BY ImageAssumption DEF ImagesTypeOK, Statuses
<1>2. /\ BuiltOnDisk' /\ HeldOnDisk' /\ PathsBelong'
      /\ PathsOfWorker' /\ AwaitedBuild' /\ NothingRunsWhenDown'
    BY DEF BuiltOnDisk, HeldOnDisk, PathsBelong, PathsOfWorker,
        AwaitedBuild, NothingRunsWhenDown
<1> QED
    BY <1>1, <1>2

LEMMA WriteImageInv ==
    ASSUME ImageInv, NEW b \in Builds, WriteImage(b)
    PROVE  ImageInv'
<1> USE DEF ImageInv, WriteImage, rowVars, boundVars
<1>1. ImagesTypeOK'
    BY ImageAssumption DEF ImagesTypeOK, Build, Files
<1>2. BuiltOnDisk'
    <2>1. build[b].n \in Nat /\ build'[b].n = build[b].n + 1
        BY ImageAssumption DEF ImagesTypeOK, Build
    <2>2. \A k \in 1..build'[b].n : k \in 1..build[b].n \/ k = build[b].n + 1
        BY <2>1
    <2>3. \A k \in 1..build'[b].n : <<b, k>> \in disk'
        BY <2>2 DEF BuiltOnDisk
    <2> QED
        BY <2>3 DEF BuiltOnDisk, ImagesTypeOK
<1>3. /\ HeldOnDisk' /\ PathsBelong' /\ PathsOfWorker'
      /\ AwaitedBuild' /\ NothingRunsWhenDown'
    BY DEF HeldOnDisk, PathsBelong, PathsOfWorker, AwaitedBuild, NothingRunsWhenDown
<1> QED
    BY <1>1, <1>2, <1>3

LEMMA BuildReturnsInv ==
    ASSUME ImageInv, NEW b \in Builds, BuildReturns(b)
    PROVE  ImageInv'
<1> USE DEF ImageInv, BuildReturns, rowVars, boundVars
<1>1. ImagesTypeOK'
    BY ImageAssumption DEF ImagesTypeOK, Build
<1>2. /\ BuiltOnDisk' /\ HeldOnDisk' /\ PathsBelong'
      /\ PathsOfWorker' /\ AwaitedBuild' /\ NothingRunsWhenDown'
    BY DEF BuiltOnDisk, HeldOnDisk, PathsBelong, PathsOfWorker,
        AwaitedBuild, NothingRunsWhenDown
<1> QED
    BY <1>1, <1>2

LEMMA BuildRaisesInv ==
    ASSUME ImageInv, NEW b \in Builds, BuildRaises(b)
    PROVE  ImageInv'
<1> USE DEF ImageInv, BuildRaises, rowVars, boundVars
<1>1. ImagesTypeOK'
    BY ImageAssumption DEF ImagesTypeOK, Build
<1>2. /\ BuiltOnDisk' /\ HeldOnDisk' /\ PathsBelong'
      /\ PathsOfWorker' /\ AwaitedBuild' /\ NothingRunsWhenDown'
    BY DEF BuiltOnDisk, HeldOnDisk, PathsBelong, PathsOfWorker,
        AwaitedBuild, NothingRunsWhenDown
<1> QED
    BY <1>1, <1>2

LEMMA RequestFaultInv ==
    ASSUME ImageInv, NEW r \in Requests, RequestFault(r)
    PROVE  ImageInv'
<1> USE DEF ImageInv, RequestFault, CountFault, rowVars, boundVars
<1>1. ImagesTypeOK'
    BY ImageAssumption DEF ImagesTypeOK
<1>2. /\ BuiltOnDisk' /\ HeldOnDisk' /\ PathsBelong'
      /\ PathsOfWorker' /\ AwaitedBuild' /\ NothingRunsWhenDown'
    BY DEF BuiltOnDisk, HeldOnDisk, PathsBelong, PathsOfWorker,
        AwaitedBuild, NothingRunsWhenDown
<1> QED
    BY <1>1, <1>2

LEMMA CrashInv ==
    ASSUME ImageInv, Crash
    PROVE  ImageInv'
<1> USE DEF ImageInv, Crash, rowVars, boundVars
<1>1. ImagesTypeOK'
    <2>1. \A b \in Builds : build[b] \in Build /\ [build[b] EXCEPT !.pc = "killed"] \in Build
        BY DEF ImagesTypeOK, Build
    <2>2. build' \in [Builds -> Build]
        BY <2>1
    <2>3. worker' \in [Ids -> Worker]
        BY AtIsWorker
    <2>4. crashes' \in 0..MaxCrashes
        BY ImageAssumption DEF ImagesTypeOK
    <2> QED
        BY <2>2, <2>3, <2>4 DEF ImagesTypeOK
<1>2. PathsBelong'
    <2>1. \A b \in Builds : build[b].pc = "taken" => build'[b] = build[b]
        OBVIOUS
    <2>2. \A i \in Ids : \A f \in refs[i] : f[1] \in Builds
        BY DEF ImagesTypeOK, Files
    <2>3. \A i \in Ids : worker'[i].images = {} /\ refs'[i] = refs[i]
        BY DEF At
    <2> QED
        BY <2>1, <2>2, <2>3 DEF PathsBelong
<1>3. /\ BuiltOnDisk' /\ HeldOnDisk' /\ PathsOfWorker'
      /\ AwaitedBuild' /\ NothingRunsWhenDown'
    BY DEF At, BuiltOnDisk, HeldOnDisk, PathsOfWorker, AwaitedBuild, NothingRunsWhenDown
<1> QED
    BY <1>1, <1>2, <1>3

LEMMA StartupInv ==
    ASSUME ImageInv, Startup
    PROVE  ImageInv'
<1> USE DEF ImageInv, Startup, Orphans, Referenced, rowVars, boundVars
<1>1. ImagesTypeOK'
    BY ImageAssumption DEF ImagesTypeOK, Statuses
<1>2. BuiltOnDisk'
    BY DEF BuiltOnDisk, NothingRunsWhenDown
<1>3. HeldOnDisk'
    BY DEF HeldOnDisk, PathsOfWorker, NothingRunsWhenDown
<1>4. PathsBelong' /\ PathsOfWorker' /\ AwaitedBuild' /\ NothingRunsWhenDown'
    BY DEF PathsBelong, PathsOfWorker, AwaitedBuild, NothingRunsWhenDown
<1> QED
    BY <1>1, <1>2, <1>3, <1>4

LEMMA StartupFaultInv ==
    ASSUME ImageInv, StartupFault
    PROVE  ImageInv'
<1> USE DEF ImageInv, StartupFault, CountFault, Orphans, Referenced, rowVars, boundVars
<1>1. ImagesTypeOK'
    BY ImageAssumption DEF ImagesTypeOK
<1>2. BuiltOnDisk'
    BY DEF BuiltOnDisk, NothingRunsWhenDown
<1>3. HeldOnDisk'
    BY DEF HeldOnDisk, PathsOfWorker, NothingRunsWhenDown
<1>4. PathsBelong' /\ PathsOfWorker' /\ AwaitedBuild' /\ NothingRunsWhenDown'
    BY DEF PathsBelong, PathsOfWorker, AwaitedBuild, NothingRunsWhenDown
<1> QED
    BY <1>1, <1>2, <1>3, <1>4

-----------------------------------------------------------------------------
LEMMA InitInv == Init => ImageInv
<1> SUFFICES ASSUME Init PROVE ImageInv
    OBVIOUS
<1>1. Unused \in Build /\ At("none") \in Worker
    BY ImageAssumption, AtIsWorker DEF Unused, Build
<1>2. ImagesTypeOK
    BY <1>1, ImageAssumption DEF Init, ImagesTypeOK, Statuses
<1>3. BuiltOnDisk /\ AwaitedBuild /\ NothingRunsWhenDown
    BY DEF Init, Unused, At, BuiltOnDisk, AwaitedBuild, NothingRunsWhenDown
<1>4. HeldOnDisk /\ PathsBelong /\ PathsOfWorker
    BY DEF Init, At, HeldOnDisk, PathsBelong, PathsOfWorker
<1> QED
    BY <1>2, <1>3, <1>4 DEF ImageInv

LEMMA StutterInv == ImageInv /\ UNCHANGED vars => ImageInv'
BY DEF vars, rowVars, boundVars, ImageInv, ImagesTypeOK, BuiltOnDisk, HeldOnDisk,
    PathsBelong, PathsOfWorker, AwaitedBuild, NothingRunsWhenDown

LEMMA NextInv == ImageInv /\ [Next]_vars => ImageInv'
BY StutterInv, CreateInv, EarlyFailsInv, StartBuildInv, TakeVisualsInv, MarkingFailsInv,
    LaterFailsInv, PipelineReturnsInv, SaveResultInv, SaveFailureInv, SaveFaultInv,
    BeginRetryInv, CommitRetryInv, BeginDeleteInv, CommitDeleteInv, WriteImageInv,
    BuildReturnsInv, BuildRaisesInv, RequestFaultInv, CrashInv, StartupInv,
    StartupFaultInv
    DEF Next

(* The invariant of the image files and of those who know their paths, in *)
(* every reachable state.                                                *)
THEOREM ImageInvariant == Spec => []ImageInv
BY InitInv, NextInv, PTL DEF Spec

(* Type correctness for every value of the constants. *)
THEOREM ImagesTyped == Spec => []ImagesTypeOK
<1>1. ImageInv => ImagesTypeOK
    BY DEF ImageInv
<1> QED
    BY <1>1, ImageInvariant, PTL

(* No cleanup, request or other analysis takes an image between the thread *)
(* that wrote it and the save of AnalysisQueue._execute.                   *)
THEOREM HeldImagesStay == Spec => []HeldImagesOnDisk
<1>1. ImageInv => HeldImagesOnDisk
    BY DEF ImageInv, HeldOnDisk, HeldImagesOnDisk, Held
<1> QED
    BY <1>1, ImageInvariant, PTL

-----------------------------------------------------------------------------
(* What ReferencedImagesKept says of one row in one step. *)
Kept(i) ==
    \A f \in refs'[i] :
        /\ f \notin refs[i] => f \in disk'
        /\ f \in disk \ disk' => \E kind \in {"retry", "delete"} :
                                    <<i, kind>> \in requests' \ requests

LEMMA KeptByLaterFails ==
    ASSUME ImageInv, NEW j \in Ids, LaterFails(j), NEW i \in Ids
    PROVE  Kept(i)
BY DEF LaterFails, Fails, rowVars, ImageInv, PathsBelong, PathsOfWorker, Kept

LEMMA KeptBySaveResult ==
    ASSUME ImageInv, NEW j \in Ids, SaveResult(j), NEW i \in Ids
    PROVE  Kept(i)
BY DEF SaveResult, rowVars, ImageInv, ImagesTypeOK, HeldOnDisk, Kept

LEMMA KeptByBegin ==
    ASSUME ImageInv, NEW j \in Ids, NEW kind \in {"retry", "delete"}, Begin(j, kind),
           NEW i \in Ids
    PROVE  Kept(i)
<1>1. \A f \in refs[i] : f \in refs[j] => i = j
    BY DEF ImageInv, PathsBelong
<1>2. <<j, kind>> \in requests' \ requests
    BY DEF Begin
<1> QED
    BY <1>1, <1>2 DEF Begin, rowVars, Kept

LEMMA KeptByCleanup ==
    ASSUME ImageInv, NEW old \in SUBSET disk, disk' = disk \ Orphans(old), refs' = refs,
           NEW i \in Ids
    PROVE  Kept(i)
BY DEF Orphans, Referenced, Kept

LEMMA KeptWithoutRemoval ==
    ASSUME disk \subseteq disk', NEW i \in Ids, refs'[i] \subseteq refs[i]
    PROVE  Kept(i)
BY DEF Kept

(* A reference is committed to files that are there, and neither _discard, *)
(* nor a retry or deletion of another analysis, nor the cleanup at startup *)
(* removes a file a row refers to.                                         *)
THEOREM ReferencedImagesStay == Spec => ReferencedImagesKept
<1>1. ASSUME ImageInv, [Next]_vars, NEW i \in Ids
      PROVE  Kept(i)
    <2>1. CASE UNCHANGED vars
        BY <2>1, KeptWithoutRemoval DEF vars
    <2>2. CASE \E j \in Ids : LaterFails(j)
        BY <1>1, <2>2, KeptByLaterFails
    <2>3. CASE \E j \in Ids : SaveResult(j)
        BY <1>1, <2>3, KeptBySaveResult
    <2>4. CASE \E j \in Ids : BeginRetry(j) \/ BeginDelete(j)
        BY <1>1, <2>4, KeptByBegin DEF BeginRetry, BeginDelete
    <2>5. CASE Startup \/ StartupFault
        BY <1>1, <2>5, KeptByCleanup DEF Startup, StartupFault, rowVars
    <2>6. CASE \E j \in Ids : CommitRetry(j) \/ CommitDelete(j)
        <3>1. disk \subseteq disk' /\ refs'[i] \subseteq refs[i]
            BY <1>1, <2>6 DEF CommitRetry, CommitDelete, rowVars, ImageInv, ImagesTypeOK
        <3> QED
            BY <3>1, KeptWithoutRemoval
    <2>7. CASE \/ \E j \in Ids :
                    \/ Create(j) \/ EarlyFails(j) \/ TakeVisuals(j) \/ MarkingFails(j)
                    \/ PipelineReturns(j) \/ SaveFailure(j) \/ SaveFault(j)
                    \/ \E b \in Builds : StartBuild(j, b)
               \/ \E b \in Builds : WriteImage(b) \/ BuildReturns(b) \/ BuildRaises(b)
               \/ \E r \in Requests : RequestFault(r)
               \/ Crash
        <3>1. disk \subseteq disk' /\ refs'[i] \subseteq refs[i]
            BY <2>7 DEF Create, EarlyFails, TakeVisuals, MarkingFails, PipelineReturns,
                SaveFailure, SaveFault, StartBuild, WriteImage, BuildReturns, BuildRaises,
                RequestFault, Crash, rowVars
        <3> QED
            BY <3>1, KeptWithoutRemoval
    <2> QED
        BY <1>1, <2>1, <2>2, <2>3, <2>4, <2>5, <2>6, <2>7 DEF Next
<1>2. ImageInv /\ [Next]_vars =>
        [\A i \in Ids : \A f \in refs'[i] :
            /\ f \notin refs[i] => f \in disk'
            /\ f \in disk \ disk' => \E kind \in {"retry", "delete"} :
                                        <<i, kind>> \in requests' \ requests]_vars
    BY <1>1 DEF Kept
<1> QED
    BY <1>2, ImageInvariant, PTL DEF Spec, ReferencedImagesKept

-----------------------------------------------------------------------------
(* Who accounts for the files.  What OnlyMarkingLeaks says of the files    *)
(* that no row and no worker knows needs the history of each path: a build *)
(* that delivered gave its paths to a worker, the worker discards them or  *)
(* gives them to the row, and a row forgets them only after the request    *)
(* that makes it forget them has removed the files.                        *)

\* A file was written by the build it is named after.
WrittenByBuild ==
    /\ \A f \in disk : f[2] <= build[f[1]].n
    /\ \A b \in Builds :
        IF build[b].pc = "unused" THEN build[b].n = 0 ELSE build[b].id \in Ids

\* Nothing is killed before the first crash.
OneCrashBefore ==
    crashes = 0 => up /\ \A b \in Builds : build[b].pc # "killed"

\* A row that has an outcome has no worker.
OutcomeIsIdle ==
    \A i \in Ids : status[i] \in {"FAILED", "COMPLETED"} => worker[i].pc = "none"

\* A retry has removed the files of its row, and nobody gives the row others before it ends.
RetryIsIdle ==
    \A i \in Ids : <<i, "retry">> \in requests =>
        /\ status[i] \in {"FAILED", "gone"}
        /\ worker[i].pc = "none"
        /\ refs[i] \cap disk = {}

\* A file whose path was delivered is known to the worker or to the row.
Accounted ==
    crashes = 0 /\ faults = 0 =>
        \A f \in disk :
            LET b == build[f[1]]
            IN b.pc = "taken" /\ status[b.id] # "gone" =>
                    f \in worker[b.id].images \cup refs[b.id]

LeakInv ==
    /\ WrittenByBuild
    /\ OneCrashBefore
    /\ OutcomeIsIdle
    /\ RetryIsIdle
    /\ Accounted

-----------------------------------------------------------------------------
(* Every action preserves it. *)

LEMMA FileOfBuild ==
    ASSUME ImageInv, LeakInv, NEW f \in disk
    PROVE  /\ f = <<f[1], f[2]>>
           /\ f[1] \in Builds /\ f[2] \in 1..build[f[1]].n
           /\ build[f[1]].pc # "unused" /\ build[f[1]].id \in Ids
<1>1. f = <<f[1], f[2]>> /\ f[1] \in Builds /\ f[2] \in 1..MaxImages
    BY DEF ImageInv, ImagesTypeOK, Files
<1>2. build[f[1]].n \in Nat
    BY <1>1 DEF ImageInv, ImagesTypeOK, Build
<1>3. f[2] \in Nat \ {0} /\ f[2] <= build[f[1]].n
    BY <1>1 DEF LeakInv, WrittenByBuild
<1> QED
    BY <1>1 DEF LeakInv, WrittenByBuild

LEMMA CreateLeak ==
    ASSUME ImageInv, LeakInv, NEW i \in Ids, Create(i)
    PROVE  LeakInv'
<1> USE DEF ImageInv, LeakInv, Create, Enqueue, At, rowVars, boundVars
<1>1. OutcomeIsIdle'
    BY DEF OutcomeIsIdle, ImagesTypeOK, PathsOfWorker
<1>2. RetryIsIdle'
    BY DEF RetryIsIdle, ImagesTypeOK
<1>3. Accounted'
    BY FileOfBuild DEF Accounted, ImagesTypeOK, PathsOfWorker
<1>4. WrittenByBuild' /\ OneCrashBefore'
    BY DEF WrittenByBuild, OneCrashBefore
<1> QED
    BY <1>1, <1>2, <1>3, <1>4

LEMMA EarlyFailsLeak ==
    ASSUME ImageInv, LeakInv, NEW i \in Ids, EarlyFails(i)
    PROVE  LeakInv'
<1> USE DEF ImageInv, LeakInv, EarlyFails, Fails, At, rowVars, boundVars
<1>1. Accounted'
    BY DEF Accounted, PathsOfWorker
<1>2. WrittenByBuild' /\ OneCrashBefore' /\ OutcomeIsIdle' /\ RetryIsIdle'
    BY DEF WrittenByBuild, OneCrashBefore, OutcomeIsIdle, RetryIsIdle
<1> QED
    BY <1>1, <1>2

LEMMA StartBuildLeak ==
    ASSUME ImageInv, LeakInv, NEW i \in Ids, NEW b \in Builds, StartBuild(i, b)
    PROVE  LeakInv'
<1> USE DEF ImageInv, LeakInv, StartBuild, rowVars, boundVars
<1>1. OutcomeIsIdle'
    BY DEF OutcomeIsIdle, ImagesTypeOK
<1>2. RetryIsIdle'
    BY DEF RetryIsIdle, ImagesTypeOK
<1>3. Accounted'
    BY FileOfBuild DEF Accounted, ImagesTypeOK
<1>4. WrittenByBuild' /\ OneCrashBefore'
    BY DEF WrittenByBuild, OneCrashBefore
<1> QED
    BY <1>1, <1>2, <1>3, <1>4

LEMMA TakeVisualsLeak ==
    ASSUME ImageInv, LeakInv, NEW i \in Ids, TakeVisuals(i)
    PROVE  LeakInv'
<1> USE DEF ImageInv, LeakInv, TakeVisuals, Images, AwaitedBuild, rowVars, boundVars
<1>1. Accounted'
    BY FileOfBuild DEF Accounted, ImagesTypeOK, PathsOfWorker
<1>2. WrittenByBuild' /\ OneCrashBefore' /\ OutcomeIsIdle' /\ RetryIsIdle'
    BY DEF WrittenByBuild, OneCrashBefore, OutcomeIsIdle, RetryIsIdle
<1> QED
    BY <1>1, <1>2

LEMMA MarkingFailsLeak ==
    ASSUME ImageInv, LeakInv, NEW i \in Ids, MarkingFails(i)
    PROVE  LeakInv'
<1> USE DEF ImageInv, LeakInv, MarkingFails, Fails, At, rowVars, boundVars
<1>1. Accounted'
    BY DEF Accounted, PathsOfWorker
<1>2. WrittenByBuild' /\ OneCrashBefore' /\ OutcomeIsIdle' /\ RetryIsIdle'
    BY DEF WrittenByBuild, OneCrashBefore, OutcomeIsIdle, RetryIsIdle
<1> QED
    BY <1>1, <1>2

LEMMA LaterFailsLeak ==
    ASSUME ImageInv, LeakInv, NEW i \in Ids, LaterFails(i)
    PROVE  LeakInv'
BY DEF LeakInv, LaterFails, Fails, At, rowVars, boundVars,
    WrittenByBuild, OneCrashBefore, OutcomeIsIdle, RetryIsIdle, Accounted

LEMMA PipelineReturnsLeak ==
    ASSUME ImageInv, LeakInv, NEW i \in Ids, PipelineReturns(i)
    PROVE  LeakInv'
BY DEF LeakInv, PipelineReturns, rowVars, boundVars,
    WrittenByBuild, OneCrashBefore, OutcomeIsIdle, RetryIsIdle, Accounted

LEMMA SaveResultLeak ==
    ASSUME ImageInv, LeakInv, NEW i \in Ids, SaveResult(i)
    PROVE  LeakInv'
<1> USE DEF ImageInv, LeakInv, SaveResult, Ends, At, rowVars, boundVars
<1>1. OutcomeIsIdle'
    BY DEF OutcomeIsIdle, ImagesTypeOK
<1>2. RetryIsIdle'
    BY DEF RetryIsIdle, ImagesTypeOK
<1>3. Accounted'
    BY FileOfBuild DEF Accounted, ImagesTypeOK, PathsOfWorker
<1>4. WrittenByBuild' /\ OneCrashBefore'
    BY DEF WrittenByBuild, OneCrashBefore
<1> QED
    BY <1>1, <1>2, <1>3, <1>4

LEMMA SaveFailureLeak ==
    ASSUME ImageInv, LeakInv, NEW i \in Ids, SaveFailure(i)
    PROVE  LeakInv'
<1> USE DEF ImageInv, LeakInv, SaveFailure, Ends, At, rowVars, boundVars
<1>1. OutcomeIsIdle'
    BY DEF OutcomeIsIdle, ImagesTypeOK
<1>2. Accounted'
    BY DEF Accounted, PathsOfWorker
<1>3. WrittenByBuild' /\ OneCrashBefore' /\ RetryIsIdle'
    BY DEF WrittenByBuild, OneCrashBefore, RetryIsIdle
<1> QED
    BY <1>1, <1>2, <1>3

LEMMA SaveFaultLeak ==
    ASSUME ImageInv, LeakInv, NEW i \in Ids, SaveFault(i)
    PROVE  LeakInv'
<1> USE DEF ImageInv, LeakInv, SaveFault, CountFault, Ends, At, rowVars, boundVars
<1>1. Accounted'
    BY DEF Accounted, ImagesTypeOK
<1>2. WrittenByBuild' /\ OneCrashBefore' /\ OutcomeIsIdle' /\ RetryIsIdle'
    BY DEF WrittenByBuild, OneCrashBefore, OutcomeIsIdle, RetryIsIdle
<1> QED
    BY <1>1, <1>2

LEMMA BeginRetryLeak ==
    ASSUME ImageInv, LeakInv, NEW i \in Ids, BeginRetry(i)
    PROVE  LeakInv'
<1> USE DEF ImageInv, LeakInv, BeginRetry, Begin, rowVars, boundVars
<1>1. RetryIsIdle'
    BY DEF RetryIsIdle, OutcomeIsIdle
<1>2. WrittenByBuild' /\ OneCrashBefore' /\ OutcomeIsIdle' /\ Accounted'
    BY DEF WrittenByBuild, OneCrashBefore, OutcomeIsIdle, Accounted
<1> QED
    BY <1>1, <1>2

LEMMA CommitRetryLeak ==
    ASSUME ImageInv, LeakInv, NEW i \in Ids, CommitRetry(i)
    PROVE  LeakInv'
<1> USE DEF ImageInv, LeakInv, CommitRetry, Enqueue, At, rowVars, boundVars
<1>1. OutcomeIsIdle'
    BY DEF OutcomeIsIdle, RetryIsIdle, ImagesTypeOK
<1>2. RetryIsIdle'
    BY DEF RetryIsIdle, ImagesTypeOK
<1>3. Accounted'
    BY FileOfBuild DEF Accounted, ImagesTypeOK, PathsOfWorker, RetryIsIdle
<1>4. WrittenByBuild' /\ OneCrashBefore'
    BY DEF WrittenByBuild, OneCrashBefore
<1> QED
    BY <1>1, <1>2, <1>3, <1>4

LEMMA BeginDeleteLeak ==
    ASSUME ImageInv, LeakInv, NEW i \in Ids, BeginDelete(i)
    PROVE  LeakInv'
BY DEF LeakInv, BeginDelete, Begin, rowVars, boundVars,
    WrittenByBuild, OneCrashBefore, OutcomeIsIdle, RetryIsIdle, Accounted

LEMMA CommitDeleteLeak ==
    ASSUME ImageInv, LeakInv, NEW i \in Ids, CommitDelete(i)
    PROVE  LeakInv'
<1> USE DEF ImageInv, LeakInv, CommitDelete, rowVars, boundVars
<1>1. Accounted'
    BY DEF Accounted, ImagesTypeOK
<1>2. WrittenByBuild' /\ OneCrashBefore' /\ OutcomeIsIdle' /\ RetryIsIdle'
    BY DEF WrittenByBuild, OneCrashBefore, OutcomeIsIdle, RetryIsIdle
<1> QED
    BY <1>1, <1>2

LEMMA WriteImageLeak ==
    ASSUME ImageInv, LeakInv, NEW b \in Builds, WriteImage(b)
    PROVE  LeakInv'
<1> USE DEF ImageInv, LeakInv, WriteImage, rowVars, boundVars
<1>1. WrittenByBuild'
    <2>1. build[b].n \in Nat /\ build' = [build EXCEPT ![b] = [build[b] EXCEPT !.n = @ + 1]]
        BY DEF ImagesTypeOK, Build
    <2>2. /\ build'[b].n = build[b].n + 1
          /\ \A a \in Builds : build'[a].id = build[a].id /\ build'[a].pc = build[a].pc
          /\ \A a \in Builds : a # b => build'[a].n = build[a].n
        BY DEF ImagesTypeOK
    <2>3. \A f \in disk : f[2] <= build'[f[1]].n
        BY <2>1, FileOfBuild
    <2> QED
        BY <2>1, <2>2, <2>3 DEF WrittenByBuild
<1>2. RetryIsIdle'
    BY DEF RetryIsIdle, PathsBelong
<1>3. OneCrashBefore' /\ OutcomeIsIdle' /\ Accounted'
    BY DEF OneCrashBefore, OutcomeIsIdle, Accounted
<1> QED
    BY <1>1, <1>2, <1>3

LEMMA BuildReturnsLeak ==
    ASSUME ImageInv, LeakInv, NEW b \in Builds, BuildReturns(b)
    PROVE  LeakInv'
BY DEF LeakInv, BuildReturns, rowVars, boundVars,
    WrittenByBuild, OneCrashBefore, OutcomeIsIdle, RetryIsIdle, Accounted

LEMMA BuildRaisesLeak ==
    ASSUME ImageInv, LeakInv, NEW b \in Builds, BuildRaises(b)
    PROVE  LeakInv'
BY DEF LeakInv, BuildRaises, rowVars, boundVars,
    WrittenByBuild, OneCrashBefore, OutcomeIsIdle, RetryIsIdle, Accounted

LEMMA RequestFaultLeak ==
    ASSUME ImageInv, LeakInv, NEW r \in Requests, RequestFault(r)
    PROVE  LeakInv'
<1> USE DEF ImageInv, LeakInv, RequestFault, CountFault, rowVars, boundVars
<1>1. Accounted'
    BY DEF Accounted, ImagesTypeOK
<1>2. WrittenByBuild' /\ OneCrashBefore' /\ OutcomeIsIdle' /\ RetryIsIdle'
    BY DEF WrittenByBuild, OneCrashBefore, OutcomeIsIdle, RetryIsIdle
<1> QED
    BY <1>1, <1>2

LEMMA CrashLeak ==
    ASSUME ImageInv, LeakInv, Crash
    PROVE  LeakInv'
<1> USE DEF ImageInv, LeakInv, Crash, At, rowVars, boundVars
<1>1. WrittenByBuild'
    BY FileOfBuild DEF WrittenByBuild
<1>2. OneCrashBefore'
    BY DEF OneCrashBefore, ImagesTypeOK
<1>3. Accounted'
    BY DEF Accounted, ImagesTypeOK
<1>4. OutcomeIsIdle' /\ RetryIsIdle'
    BY DEF OutcomeIsIdle, RetryIsIdle
<1> QED
    BY <1>1, <1>2, <1>3, <1>4

LEMMA StartupLeak ==
    ASSUME ImageInv, LeakInv, Startup
    PROVE  LeakInv'
<1> USE DEF ImageInv, LeakInv, Startup, NothingRunsWhenDown, rowVars, boundVars
<1>1. Accounted'
    BY FileOfBuild DEF Accounted
<1>2. WrittenByBuild' /\ OneCrashBefore' /\ OutcomeIsIdle' /\ RetryIsIdle'
    BY DEF WrittenByBuild, OneCrashBefore, OutcomeIsIdle, RetryIsIdle
<1> QED
    BY <1>1, <1>2

LEMMA StartupFaultLeak ==
    ASSUME ImageInv, LeakInv, StartupFault
    PROVE  LeakInv'
<1> USE DEF ImageInv, LeakInv, StartupFault, CountFault, NothingRunsWhenDown,
    rowVars, boundVars
<1>1. Accounted'
    BY DEF Accounted, ImagesTypeOK
<1>2. WrittenByBuild' /\ OneCrashBefore' /\ OutcomeIsIdle' /\ RetryIsIdle'
    BY DEF WrittenByBuild, OneCrashBefore, OutcomeIsIdle, RetryIsIdle
<1> QED
    BY <1>1, <1>2

LEMMA StutterLeak == LeakInv /\ UNCHANGED vars => LeakInv'
BY DEF vars, rowVars, boundVars, LeakInv, WrittenByBuild, OneCrashBefore, OutcomeIsIdle,
    RetryIsIdle, Accounted

LEMMA InitLeak == Init => LeakInv
BY ImageAssumption DEF Init, Unused, At, LeakInv, WrittenByBuild, OneCrashBefore,
    OutcomeIsIdle, RetryIsIdle, Accounted

LEMMA NextLeak == ImageInv /\ LeakInv /\ [Next]_vars => LeakInv'
BY CreateLeak, EarlyFailsLeak, StartBuildLeak, TakeVisualsLeak, MarkingFailsLeak,
    LaterFailsLeak, PipelineReturnsLeak, SaveResultLeak, SaveFailureLeak, SaveFaultLeak,
    BeginRetryLeak, CommitRetryLeak, BeginDeleteLeak, CommitDeleteLeak, WriteImageLeak,
    BuildReturnsLeak, BuildRaisesLeak, RequestFaultLeak, CrashLeak, StartupLeak,
    StartupFaultLeak, StutterLeak
    DEF Next

(* Who knows of each file, in every reachable state. *)
THEOREM EveryFileAccounted == Spec => []LeakInv
BY InitLeak, NextLeak, ImageInvariant, PTL DEF Spec

(* As long as nothing crashed or failed, the only images without a row, of *)
(* an analysis that still exists, are those of a build whose pipeline      *)
(* failed or was cancelled in RISK_MARKING (VisionPipeline._guard).        *)
THEOREM OnlyMarkingLeaves == Spec => []OnlyMarkingLeaks
<1>1. ImageInv /\ LeakInv => OnlyMarkingLeaks
    <2> SUFFICES ASSUME ImageInv, LeakInv, crashes = 0, faults = 0,
                        NEW f \in disk \ (Referenced \cup Held),
                        status[build[f[1]].id] # "gone"
                 PROVE  build[f[1]].pc \in {"writing", "returned", "raised"}
        BY DEF OnlyMarkingLeaks
    <2>1. f[1] \in Builds /\ f[2] \in 1..MaxImages
        BY DEF ImageInv, ImagesTypeOK, Files
    <2>2. build[f[1]].pc \notin {"unused", "killed"}
        BY <2>1 DEF LeakInv, WrittenByBuild, OneCrashBefore
    <2>3. build[f[1]].id \in Ids
        BY <2>1 DEF LeakInv, WrittenByBuild
    <2>4. build[f[1]].pc # "taken"
        BY <2>3 DEF LeakInv, Accounted, Referenced, Held
    <2> QED
        BY <2>1, <2>2, <2>4 DEF ImageInv, ImagesTypeOK, Build
<1> QED
    BY <1>1, ImageInvariant, EveryFileAccounted, PTL

=============================================================================
