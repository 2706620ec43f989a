----------------------------- MODULE ImageFiles -----------------------------
(***************************************************************************)
(* The image files of the analyses: the thumbnail and the marked images    *)
(* that imaging.build writes in a thread, the pipeline that hands them     *)
(* over or discards them (app/ai/analysis_pipeline.py), the row that       *)
(* refers to them in the end, the requests that delete them, and the       *)
(* cleanup of orphans at startup (AnalysisService.cleanup_orphan_images).  *)
(*                                                                         *)
(* A file is on disk before any row refers to it and no transaction        *)
(* covers it.  A thread cannot be stopped: when the time limit cancels the *)
(* coroutine that waits for it, it goes on writing.                        *)
(*                                                                         *)
(* The queue is left out (PetFitBackend has it): here an analysis that is  *)
(* under way has a worker, and nobody races with it but a delete request.  *)
(***************************************************************************)
EXTENDS Integers, FiniteSets

CONSTANTS
    MaxAnalyses,  \* bound: rows ever inserted
    MaxBuilds,    \* bound: calls of imaging.build
    MaxImages,    \* the thumbnail and the marked images of one analysis
    MaxCrashes,   \* bound: process crashes
    MaxFaults     \* bound: database sessions that fail

ASSUME ImageAssumption ==
    /\ MaxAnalyses \in Nat
    /\ MaxBuilds \in Nat
    /\ MaxImages \in Nat \ {0}
    /\ MaxCrashes \in Nat
    /\ MaxFaults \in Nat

Ids == 1..MaxAnalyses
Builds == 1..MaxBuilds
NoBuild == 0

\* The k-th image of a build.  Its name is a fresh UUID: no two builds share a file.
Files == Builds \X (1..MaxImages)
Images(b, n) == {b} \X (1..n)

VARIABLES
    disk,      \* files in images/
    build,     \* each thread that runs imaging.build, and what became of its result
    worker,    \* the pipeline and the final save of each analysis
    status,    \* of each row
    refs,      \* the files each row refers to: thumbnail_path and marked_image_path
    requests,  \* retry and delete requests that have removed files and not committed
    up, crashes, faults

rowVars == <<status, refs>>
boundVars == <<up, crashes, faults>>
vars == <<disk, build, worker, status, refs, requests, up, crashes, faults>>

\* returned: the thread is done and the event loop has not resumed the coroutine yet;
\* taken: the coroutine got the paths; killed: the process died.
Build == [pc: {"unused", "writing", "returned", "raised", "taken", "killed"},
          id: Ids \cup {0}, n: 0..MaxImages]

Unused == [pc |-> "unused", id |-> 0, n |-> 0]

\* early: stages 1 to 9; later: stages 11 and 12, with the images known by name.
Worker == [pc: {"none", "early", "marking", "later", "saveResult", "saveFailure"},
           build: Builds \cup {NoBuild}, images: SUBSET Files]

At(pc) == [pc |-> pc, build |-> NoBuild, images |-> {}]

Statuses == {"unborn", "active", "COMPLETED", "FAILED", "gone"}

Requests == Ids \X {"retry", "delete"}

Init ==
    /\ disk = {}
    /\ build = [b \in Builds |-> Unused]
    /\ worker = [i \in Ids |-> At("none")]
    /\ status = [i \in Ids |-> "unborn"]
    /\ refs = [i \in Ids |-> {}]
    /\ requests = {}
    /\ up = TRUE
    /\ crashes = 0
    /\ faults = 0

-----------------------------------------------------------------------------
\* A job for the analysis, or a row that keeps the refusal of a full queue.
Enqueue(i) ==
    \/ /\ status' = [status EXCEPT ![i] = "active"]
       /\ worker' = [worker EXCEPT ![i] = At("early")]
    \/ /\ status' = [status EXCEPT ![i] = "FAILED"]
       /\ UNCHANGED worker

\* POST /analyses
Create(i) ==
    /\ up
    /\ status[i] = "unborn"
    /\ Enqueue(i)
    /\ UNCHANGED <<disk, build, refs, requests, boundVars>>

-----------------------------------------------------------------------------
(* VisionPipeline.run *)

Fails(i) == worker' = [worker EXCEPT ![i] = At("saveFailure")]

\* A stage before RISK_MARKING fails or the time limit strikes in it: no image exists.
EarlyFails(i) ==
    /\ worker[i].pc = "early"
    /\ Fails(i)
    /\ UNCHANGED <<disk, build, rowVars, requests, boundVars>>

\* await asyncio.to_thread(imaging.build, ...)
StartBuild(i, b) ==
    /\ worker[i].pc = "early"
    /\ build[b].pc = "unused"
    /\ \A a \in 1..(b - 1) : build[a].pc # "unused"
    /\ build' = [build EXCEPT ![b] = [pc |-> "writing", id |-> i, n |-> 0]]
    /\ worker' = [worker EXCEPT ![i].pc = "marking", ![i].build = b]
    /\ UNCHANGED <<disk, rowVars, requests, boundVars>>

\* Mutant: the loop runs once more.
WriteImageTooMany(b) ==
    /\ build[b].pc = "writing"
    /\ build[b].n < MaxImages + 1
    /\ build' = [build EXCEPT ![b].n = @ + 1]
    /\ disk' = disk \cup {<<b, build[b].n + 1>>}
    /\ UNCHANGED <<worker, rowVars, requests, boundVars>>

\* In the thread: save_image, for the thumbnail first and then for each object at risk.
WriteImage(b) ==
    /\ build[b].pc = "writing"
    /\ build[b].n < MaxImages
    /\ build' = [build EXCEPT ![b].n = @ + 1]
    /\ disk' = disk \cup {<<b, build[b].n + 1>>}
    /\ UNCHANGED <<worker, rowVars, requests, boundVars>>

BuildReturns(b) ==
    /\ build[b].pc = "writing"
    /\ build[b].n > 0
    /\ build' = [build EXCEPT ![b].pc = "returned"]
    /\ UNCHANGED <<disk, worker, rowVars, requests, boundVars>>

\* An image cannot be drawn or written.  Those before it stay.
BuildRaises(b) ==
    /\ build[b].pc = "writing"
    /\ build[b].n < MaxImages
    /\ build' = [build EXCEPT ![b].pc = "raised"]
    /\ UNCHANGED <<disk, worker, rowVars, requests, boundVars>>

\* The coroutine resumes with the paths.
TakeVisuals(i) ==
    LET b == worker[i].build
    IN  /\ worker[i].pc = "marking"
        /\ build[b].pc = "returned"
        /\ build' = [build EXCEPT ![b].pc = "taken"]
        /\ worker' = [worker EXCEPT ![i] =
                [pc |-> "later", build |-> NoBuild, images |-> Images(b, build[b].n)]]
        /\ UNCHANGED <<disk, rowVars, requests, boundVars>>

\* The thread raised (_guard), or the time limit cancels the coroutine that waits for
\* it, whatever the thread has reached by then.  Nobody knows the paths.
MarkingFails(i) ==
    /\ worker[i].pc = "marking"
    /\ Fails(i)
    /\ UNCHANGED <<disk, build, rowVars, requests, boundVars>>

-----------------------------------------------------------------------------
(* AnalysisPipeline.run, after the vision part *)

\* Mutant: `except Exception`, which a cancellation is not.
LaterFailsKeeping(i) ==
    /\ worker[i].pc = "later"
    /\ Fails(i)
    /\ UNCHANGED <<disk, build, rowVars, requests, boundVars>>

\* Scoring or the environment analysis fails, or is cancelled: _discard.
LaterFails(i) ==
    /\ worker[i].pc = "later"
    /\ Fails(i)
    /\ disk' = disk \ worker[i].images
    /\ UNCHANGED <<build, rowVars, requests, boundVars>>

\* Mutant: `finally` in place of `except BaseException`.
PipelineReturnsDiscarding(i) ==
    /\ worker[i].pc = "later"
    /\ worker' = [worker EXCEPT ![i].pc = "saveResult"]
    /\ disk' = disk \ worker[i].images
    /\ UNCHANGED <<build, rowVars, requests, boundVars>>

\* The result carries the paths, and the images stay.
PipelineReturns(i) ==
    /\ worker[i].pc = "later"
    /\ worker' = [worker EXCEPT ![i].pc = "saveResult"]
    /\ UNCHANGED <<disk, build, rowVars, requests, boundVars>>

-----------------------------------------------------------------------------
(* The final save of AnalysisQueue._execute *)

Ends(i) == worker' = [worker EXCEPT ![i] = At("none")]

\* mark_completed; without a row the result is dropped, and its files stay.
SaveResult(i) ==
    /\ worker[i].pc = "saveResult"
    /\ \/ /\ status[i] # "gone"
          /\ status' = [status EXCEPT ![i] = "COMPLETED"]
          /\ refs' = [refs EXCEPT ![i] = worker[i].images]
       \/ /\ status[i] = "gone"
          /\ UNCHANGED rowVars
    /\ Ends(i)
    /\ UNCHANGED <<disk, build, requests, boundVars>>

\* mark_failed
SaveFailure(i) ==
    /\ worker[i].pc = "saveFailure"
    /\ status' = [status EXCEPT ![i] = IF @ = "gone" THEN @ ELSE "FAILED"]
    /\ Ends(i)
    /\ UNCHANGED <<disk, build, refs, requests, boundVars>>

CountFault == faults < MaxFaults /\ faults' = faults + 1

\* The session fails: the outcome is lost, the images of a result stay.
SaveFault(i) ==
    /\ CountFault
    /\ worker[i].pc \in {"saveResult", "saveFailure"}
    /\ Ends(i)
    /\ UNCHANGED <<disk, build, rowVars, requests, up, crashes>>

-----------------------------------------------------------------------------
(* Retry and delete: the files go before the commit. *)

Begin(i, kind) ==
    /\ up
    /\ <<i, kind>> \notin requests
    /\ requests' = requests \cup {<<i, kind>>}
    /\ disk' = disk \ refs[i]
    /\ UNCHANGED <<build, worker, rowVars, boundVars>>

BeginRetry(i) == status[i] = "FAILED" /\ Begin(i, "retry")

\* The row is PENDING again, with no thumbnail and no children, and the job submitted.
\* A row that is gone refuses the UPDATE.
CommitRetry(i) ==
    /\ <<i, "retry">> \in requests
    /\ requests' = requests \ {<<i, "retry">>}
    /\ \/ /\ status[i] # "gone"
          /\ refs' = [refs EXCEPT ![i] = {}]
          /\ Enqueue(i)
       \/ /\ status[i] = "gone"
          /\ UNCHANGED <<worker, rowVars>>
    /\ UNCHANGED <<disk, build, boundVars>>

BeginDelete(i) == status[i] \in {"FAILED", "COMPLETED"} /\ Begin(i, "delete")

\* The row goes, its children by cascade.
CommitDelete(i) ==
    /\ <<i, "delete">> \in requests
    /\ requests' = requests \ {<<i, "delete">>}
    /\ status' = [status EXCEPT ![i] = "gone"]
    /\ refs' = [refs EXCEPT ![i] = {}]
    /\ UNCHANGED <<disk, build, worker, boundVars>>

\* The commit fails and is rolled back; the files are gone all the same.
RequestFault(r) ==
    /\ CountFault
    /\ r \in requests
    /\ requests' = requests \ {r}
    /\ UNCHANGED <<disk, build, worker, rowVars, up, crashes>>

-----------------------------------------------------------------------------
\* The process and its threads die; rows and files stay.
Crash ==
    /\ up
    /\ crashes < MaxCrashes
    /\ crashes' = crashes + 1
    /\ up' = FALSE
    /\ worker' = [i \in Ids |-> At("none")]
    /\ build' = [b \in Builds |->
            IF build[b].pc \in {"writing", "returned"} THEN [build[b] EXCEPT !.pc = "killed"]
            ELSE build[b]]
    /\ requests' = {}
    /\ UNCHANGED <<disk, rowVars, faults>>

\* referenced_image_paths: rows in every state, thumbnails and marked images.
Referenced == UNION {refs[i] : i \in Ids}

\* Mutant: the thumbnails of the analyses are forgotten.
OrphansAndThumbnails(old) == old \ {f \in Referenced : f[2] > 1}

\* list_images(min_age_seconds) gives the files that are old enough; those that no row
\* refers to are deleted.
Orphans(old) == old \ Referenced

\* lifespan: interrupted analyses are failed and orphans removed before requests come.
Startup ==
    /\ ~up
    /\ up' = TRUE
    /\ status' = [i \in Ids |-> IF status[i] = "active" THEN "FAILED" ELSE status[i]]
    /\ \E old \in SUBSET disk : disk' = disk \ Orphans(old)
    /\ UNCHANGED <<build, worker, refs, requests, crashes, faults>>

\* The cleanup transaction is rolled back, before or after files were removed.
StartupFault ==
    /\ CountFault
    /\ ~up
    /\ up' = TRUE
    /\ \E old \in SUBSET disk : disk' = disk \ Orphans(old)
    /\ UNCHANGED <<build, worker, rowVars, requests, crashes>>

-----------------------------------------------------------------------------
Next ==
    \/ \E i \in Ids :
        \/ Create(i)
        \/ EarlyFails(i)
        \/ \E b \in Builds : StartBuild(i, b)
        \/ TakeVisuals(i)
        \/ MarkingFails(i)
        \/ LaterFails(i)
        \/ PipelineReturns(i)
        \/ SaveResult(i)
        \/ SaveFailure(i)
        \/ SaveFault(i)
        \/ BeginRetry(i)
        \/ CommitRetry(i)
        \/ BeginDelete(i)
        \/ CommitDelete(i)
    \/ \E b \in Builds : WriteImage(b) \/ BuildReturns(b) \/ BuildRaises(b)
    \/ \E r \in Requests : RequestFault(r)
    \/ Crash \/ Startup \/ StartupFault

Spec == Init /\ [][Next]_vars

-----------------------------------------------------------------------------
ImagesTypeOK ==
    /\ disk \in SUBSET Files
    /\ build \in [Builds -> Build]
    /\ worker \in [Ids -> Worker]
    /\ status \in [Ids -> Statuses]
    /\ refs \in [Ids -> SUBSET Files]
    /\ requests \in SUBSET Requests
    /\ up \in BOOLEAN
    /\ crashes \in 0..MaxCrashes
    /\ faults \in 0..MaxFaults

Held == UNION {worker[i].images : i \in Ids}

(* What a worker is going to store is on disk until it has stored it: no   *)
(* cleanup, request or other analysis takes an image between the thread    *)
(* that wrote it and the row that will refer to it.                        *)
HeldImagesOnDisk == Held \subseteq disk

(* The only images that are left without a row, as long as nothing crashed *)
(* or failed, are those of a build whose pipeline never got their names.   *)
(* Every other failure discards what it made.  (Of an analysis that was    *)
(* deleted with a request on it in flight more may be left.)               *)
OnlyMarkingLeaks ==
    crashes = 0 /\ faults = 0 =>
        \A f \in disk \ (Referenced \cup Held) :
            LET b == build[f[1]]
            IN  status[b.id] # "gone" => b.pc \in {"writing", "returned", "raised"}

(* An image is on disk when the reference to it is committed, and as long  *)
(* as its row refers to it only a request on that row removes it.          *)
ReferencedImagesKept ==
    [][\A i \in Ids : \A f \in refs'[i] :
        /\ f \notin refs[i] => f \in disk'
        /\ f \in disk \ disk' => \E kind \in {"retry", "delete"} :
                                    <<i, kind>> \in requests' \ requests]_vars

(* The documents' answer to a deletion that fails after the files are      *)
(* gone: the analysis becomes FAILED so that its result is not shown       *)
(* without its images.                                                     *)
ShownResultsHaveImages ==
    \A i \in Ids : status[i] = "COMPLETED" /\ <<i, "delete">> \notin requests =>
        refs[i] \subseteq disk

=============================================================================
