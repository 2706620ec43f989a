--------------------------- MODULE PetFitBackend ---------------------------
(***************************************************************************)
(* The backend process and its database: the request handlers that create, *)
(* retry and delete an analysis (app/api/v1/analysis.py with               *)
(* AnalysisService and the repository), the worker coroutines of the queue *)
(* (app/services/queue.py), and the crash, restart and startup cleanup     *)
(* (app/main.py).                                                          *)
(*                                                                         *)
(* Granularity.  Handlers and workers are coroutines of one event loop, so *)
(* code between two awaits is atomic.  A transaction is two steps: the     *)
(* first takes its snapshot (InnoDB, REPEATABLE READ) and evaluates the    *)
(* checks the code makes on it, the second flushes and commits.  The flush *)
(* merges the changed columns into the row the table holds by then         *)
(* (AnalysisRow!Merged) and the database refuses it when a constraint      *)
(* fails or the row is gone.                                               *)
(*                                                                         *)
(* Image files are not modelled here, uploaded videos are.                 *)
(***************************************************************************)
EXTENDS AnalysisRow, AnalysisQueue

CONSTANTS
    Clients,         \* sources of requests: each has one outstanding at a time
    DeviceOf,        \* the device a client acts for
    PipelineStages,  \* the stages the pipeline reports, in order
    MaxAnalyses,     \* bound: rows ever inserted
    MaxCrashes,      \* bound: process crashes
    MaxFaults        \* bound: database sessions that fail

Ids == 1..MaxAnalyses
NoId == 0

ASSUME BackendAssumption ==
    /\ DeviceOf \in [Clients -> Devices]
    /\ PipelineStages \in Seq(Stages)
    /\ PipelineStages # <<>>
    /\ MaxAnalyses \in Nat
    /\ MaxCrashes \in Nat
    /\ MaxFaults \in Nat
    /\ Clients \cap Ids = {}

VARIABLES
    db,        \* table analysis: the row of each id, or NoRow
    children,  \* ids that have rows in detected_object and recommendation
    videos,    \* uploaded videos on disk, by the row that refers to them, or by the
               \* client whose request has not inserted its row yet
    lastId,    \* AUTO_INCREMENT
    req,       \* each client's request
    task,      \* each worker
    up,        \* the process serves requests
    crashes, faults

requestVars == <<req, videos>>
storeVars == <<db, children, lastId>>
boundVars == <<up, crashes, faults>>
vars == <<queueVars, db, children, videos, lastId, req, task, up, crashes, faults>>

-----------------------------------------------------------------------------
(* Requests.  pc names what the handler does next; snap is the row object  *)
(* its session holds.                                                      *)
RequestPc == {"idle", "upload", "insert", "retry", "submit", "full", "delete"}

Request == [pc: RequestPc, id: Ids \cup {NoId}, snap: Row \cup {NoRow}]

NoRequest == [pc |-> "idle", id |-> NoId, snap |-> NoRow]

(* Workers.  k counts the stages entered.  outcome is what _execute stores *)
(* at the end: error is NoError for a result.                              *)
Outcome == [error: Errors \cup {NoError}, stage: Stages \cup {NoStage}]

Success == [error |-> NoError, stage |-> NoStage]

WorkerPc == {"run", "stage", "save", "saving"}

Worker == [pc: WorkerPc, id: Ids \cup {NoId}, k: 0..Len(PipelineStages),
           snap: Row \cup {NoRow}, outcome: Outcome]

NewWorker(i) == [pc |-> "run", id |-> i, k |-> 0, snap |-> NoRow, outcome |-> Success]

NoWorker == NewWorker(NoId)

Init ==
    /\ QueueInit
    /\ db = [i \in Ids |-> NoRow]
    /\ children = {}
    /\ videos = {}
    /\ lastId = 0
    /\ req = [c \in Clients |-> NoRequest]
    /\ task = [t \in Tasks |-> NoWorker]
    /\ up = TRUE
    /\ crashes = 0
    /\ faults = 0

-----------------------------------------------------------------------------
Exists(i) == db[i] # NoRow

\* has_active(device_id, exclude_id)
HasActive(d, exclude) ==
    \E i \in Ids \ {exclude} : Exists(i) /\ db[i].device = d /\ IsActive(db[i])

\* get_owned: a row of another device is as good as missing.
Owns(c, i) == Exists(i) /\ db[i].device = DeviceOf[c]

(* A flush of the object `new` that was loaded as `snap`.  Without a       *)
(* changed column no UPDATE is sent.                                       *)
Accepts(i, snap, new) ==
    \/ new = snap
    \/ Exists(i) /\ RowChecks(Merged(db[i], snap, new))

Updated(i, snap, new) ==
    [db EXCEPT ![i] = IF @ = NoRow THEN NoRow ELSE Merged(@, snap, new)]

\* The handler returns or raises: its session is closed.
EndRequest(c) == req' = [req EXCEPT ![c] = NoRequest]

-----------------------------------------------------------------------------
(* POST /analyses *)

\* The queue has room: the handler starts to write the upload to disk.  The bound on
\* rows counts the requests under way, so that none of them is cut off by it.
BeginUpload(c) ==
    /\ up
    /\ req[c].pc = "idle"
    /\ ~IsFull
    /\ lastId + Cardinality({d \in Clients : req[d].pc \in {"upload", "insert"}})
            < MaxAnalyses
    /\ req' = [req EXCEPT ![c].pc = "upload"]
    /\ videos' = videos \cup {c}
    /\ UNCHANGED <<queueVars, storeVars, task, boundVars>>

\* save_video finds the file too large, empty or of the wrong format, and unlinks it.
RejectUpload(c) ==
    /\ req[c].pc = "upload"
    /\ EndRequest(c)
    /\ videos' = videos \ {c}
    /\ UNCHANGED <<queueVars, storeVars, task, boundVars>>

\* Mutant: the service trusts the client to wait for its analysis.
CheckDeviceNever(c) ==
    /\ req[c].pc = "upload"
    /\ req' = [req EXCEPT ![c].pc = "insert"]
    /\ UNCHANGED <<queueVars, storeVars, videos, task, boundVars>>

\* Mutant: 409 without removing the video that was just saved.
CheckDeviceKeepsVideo(c) ==
    /\ req[c].pc = "upload"
    /\ \/ /\ HasActive(DeviceOf[c], NoId)
          /\ EndRequest(c)
       \/ /\ ~HasActive(DeviceOf[c], NoId)
          /\ req' = [req EXCEPT ![c].pc = "insert"]
    /\ UNCHANGED <<queueVars, storeVars, videos, task, boundVars>>

\* The video is saved; AnalysisService.create looks for an active analysis (409).
CheckDevice(c) ==
    /\ req[c].pc = "upload"
    /\ \/ /\ HasActive(DeviceOf[c], NoId)
          /\ EndRequest(c)
          /\ videos' = videos \ {c}
       \/ /\ ~HasActive(DeviceOf[c], NoId)
          /\ req' = [req EXCEPT ![c].pc = "insert"]
          /\ UNCHANGED videos
    /\ UNCHANGED <<queueVars, storeVars, task, boundVars>>

\* INSERT and commit.  The worker looks the row up in a session of its own, so it is
\* committed before the job is submitted.
InsertRow(c) ==
    LET i == lastId + 1
        row == NewRow(DeviceOf[c])
    IN  /\ req[c].pc = "insert"
        /\ lastId < MaxAnalyses
        /\ lastId' = i
        /\ db' = [db EXCEPT ![i] = row]
        /\ videos' = (videos \ {c}) \cup {i}
        /\ req' = [req EXCEPT ![c] = [pc |-> "submit", id |-> i, snap |-> row]]
        /\ UNCHANGED <<queueVars, children, task, boundVars>>

-----------------------------------------------------------------------------
(* POST /analyses and POST /analyses/{id}/retry, after their commit *)

\* A slot to stand for the new asyncio.Task: which one has no meaning.
FreeSlot == CHOOSE t \in Tasks : t \notin Live

\* Mutant: when the queue filled up meanwhile the handler just raises.
SubmitOrRaise(c) ==
    /\ req[c].pc = "submit"
    /\ \/ /\ Submit(FreeSlot)
          /\ task' = [task EXCEPT ![FreeSlot] = NewWorker(req[c].id)]
       \/ /\ IsFull
          /\ UNCHANGED <<queueVars, task>>
    /\ EndRequest(c)
    /\ UNCHANGED <<storeVars, videos, boundVars>>

\* queue.submit: 202, or QUEUE_FULL when the queue filled up since the first check.
SubmitAnalysis(c) ==
    /\ req[c].pc = "submit"
    /\ \/ /\ Submit(FreeSlot)
          /\ task' = [task EXCEPT ![FreeSlot] = NewWorker(req[c].id)]
          /\ EndRequest(c)
       \/ /\ IsFull
          /\ req' = [req EXCEPT ![c].pc = "full"]
          /\ UNCHANGED <<queueVars, task>>
    /\ UNCHANGED <<storeVars, videos, boundVars>>

\* The refused row is kept as FAILED so that the user can retry without an upload.
RecordQueueFull(c) ==
    LET r == req[c]
        new == MarkFailed(r.snap, "queue full", NoStage)
    IN  /\ r.pc = "full"
        /\ db' = IF Accepts(r.id, r.snap, new) THEN Updated(r.id, r.snap, new) ELSE db
        /\ EndRequest(c)
        /\ UNCHANGED <<queueVars, children, lastId, videos, task, boundVars>>

-----------------------------------------------------------------------------
(* POST /analyses/{id}/retry *)

\* prepare_retry up to its last check.  A request it refuses changes nothing.
BeginRetry(c, i) ==
    /\ up
    /\ req[c].pc = "idle"
    /\ ~IsFull
    /\ Owns(c, i)
    /\ CanRetry(db[i], HasActive(DeviceOf[c], i))
    /\ req' = [req EXCEPT ![c] = [pc |-> "retry", id |-> i, snap |-> db[i]]]
    /\ UNCHANGED <<queueVars, storeVars, videos, task, boundVars>>

\* clear_children, the reset of the row and the commit; refused, the transaction is
\* rolled back and the request ends in a 500.
CommitRetry(c) ==
    LET r == req[c]
        new == PrepareRetry(r.snap)
    IN  /\ r.pc = "retry"
        /\ \/ /\ Accepts(r.id, r.snap, new)
              /\ db' = Updated(r.id, r.snap, new)
              /\ children' = children \ {r.id}
              /\ req' = [req EXCEPT ![c].pc = "submit", ![c].snap = new]
           \/ /\ ~Accepts(r.id, r.snap, new)
              /\ EndRequest(c)
              /\ UNCHANGED <<db, children>>
        /\ UNCHANGED <<queueVars, lastId, videos, task, boundVars>>

-----------------------------------------------------------------------------
(* DELETE /analyses/{id} *)

\* Mutant: a running analysis can be deleted.
BeginDeleteAny(c, i) ==
    /\ up
    /\ req[c].pc = "idle"
    /\ Owns(c, i)
    /\ videos' = videos \ {i}
    /\ req' = [req EXCEPT ![c] = [pc |-> "delete", id |-> i, snap |-> db[i]]]
    /\ UNCHANGED <<queueVars, storeVars, task, boundVars>>

\* AnalysisService.delete: the files go first, the row after them.
BeginDelete(c, i) ==
    /\ up
    /\ req[c].pc = "idle"
    /\ Owns(c, i)
    /\ ~IsActive(db[i])
    /\ videos' = videos \ {i}
    /\ req' = [req EXCEPT ![c] = [pc |-> "delete", id |-> i, snap |-> db[i]]]
    /\ UNCHANGED <<queueVars, storeVars, task, boundVars>>

\* Mutant: the children do not go with the row.
CommitDeleteNoCascade(c) ==
    /\ req[c].pc = "delete"
    /\ db' = [db EXCEPT ![req[c].id] = NoRow]
    /\ EndRequest(c)
    /\ UNCHANGED <<queueVars, children, lastId, videos, task, boundVars>>

\* DELETE by primary key, children by ON DELETE CASCADE; a row that is gone already is
\* not an error.
CommitDelete(c) ==
    LET i == req[c].id
    IN  /\ req[c].pc = "delete"
        /\ db' = [db EXCEPT ![i] = NoRow]
        /\ children' = children \ {i}
        /\ EndRequest(c)
        /\ UNCHANGED <<queueVars, lastId, videos, task, boundVars>>

-----------------------------------------------------------------------------
(* AnalysisQueue._run and _execute *)

StartTask(t) ==
    /\ Acquire(t)
    /\ UNCHANGED <<storeVars, videos, req, task, boundVars>>

InPipeline(t) == t \in running /\ task[t].pc \in {"run", "stage"}

\* The pipeline is over: what is left is to store its outcome.
Settle(t, error, stage) ==
    task' = [task EXCEPT ![t].pc = "save",
                         ![t].snap = NoRow,
                         ![t].outcome = [error |-> error, stage |-> stage]]

\* _execute returned or raised; _run swallows what it raised.
EndTask(t) ==
    /\ Finish(t)
    /\ task' = [task EXCEPT ![t] = NoWorker]

\* The pipeline enters its next stage and on_stage reads the row in a session of its
\* own.  Without a row it reports nothing and the pipeline goes on.
ReadStage(t) ==
    LET w == task[t]
    IN  /\ t \in running
        /\ w.pc = "run"
        /\ w.k < Len(PipelineStages)
        /\ task' = [task EXCEPT ![t] =
                IF Exists(w.id) THEN [w EXCEPT !.pc = "stage", !.snap = db[w.id]]
                ELSE [w EXCEPT !.k = @ + 1]]
        /\ UNCHANGED <<queueVars, storeVars, videos, req, boundVars>>

\* mark_stage.  A refused write is an exception inside the pipeline.
WriteStage(t) ==
    LET w == task[t]
        new == MarkStage(w.snap, PipelineStages[w.k + 1])
    IN  /\ t \in running
        /\ w.pc = "stage"
        /\ \/ /\ Accepts(w.id, w.snap, new)
              /\ db' = Updated(w.id, w.snap, new)
              /\ task' = [task EXCEPT ![t].pc = "run", ![t].k = @ + 1, ![t].snap = NoRow]
           \/ /\ ~Accepts(w.id, w.snap, new)
              /\ Settle(t, "internal", NoStage)
              /\ UNCHANGED db
        /\ UNCHANGED <<queueVars, children, lastId, videos, req, boundVars>>

PipelineReturns(t) ==
    /\ t \in running
    /\ task[t].pc = "run"
    /\ task[t].k = Len(PipelineStages)
    /\ Settle(t, NoError, NoStage)
    /\ UNCHANGED <<queueVars, storeVars, videos, req, boundVars>>

\* A stage fails: a PipelineError names it, any other exception does not.
PipelineRaises(t) ==
    /\ t \in running
    /\ task[t].pc = "run"
    /\ task[t].k > 0
    /\ \/ Settle(t, "pipeline", PipelineStages[task[t].k])
       \/ Settle(t, "internal", NoStage)
    /\ UNCHANGED <<queueVars, storeVars, videos, req, boundVars>>

\* Mutant: the pipeline is awaited without a limit.
TimeOutNever(t) ==
    /\ FALSE
    /\ UNCHANGED vars

\* wait_for cancels the pipeline at an await; a session that on_stage holds is rolled
\* back.
TimeOut(t) ==
    /\ InPipeline(t)
    /\ Settle(t, "timeout", NoStage)
    /\ UNCHANGED <<queueVars, storeVars, videos, req, boundVars>>

\* The last session of _execute.  Without a row the outcome is dropped.
ReadForSave(t) ==
    LET w == task[t]
    IN  /\ t \in running
        /\ w.pc = "save"
        /\ \/ /\ Exists(w.id)
              /\ task' = [task EXCEPT ![t].pc = "saving", ![t].snap = db[w.id]]
              /\ UNCHANGED queueVars
           \/ /\ ~Exists(w.id)
              /\ EndTask(t)
        /\ UNCHANGED <<storeVars, videos, req, boundVars>>

\* mark_failed.  A refused write leaves the row as it is, with no task behind it.
SaveFailure(t) ==
    LET w == task[t]
        new == MarkFailed(w.snap, w.outcome.error, w.outcome.stage)
    IN  /\ t \in running
        /\ w.pc = "saving"
        /\ w.outcome.error # NoError
        /\ db' = IF Accepts(w.id, w.snap, new) THEN Updated(w.id, w.snap, new) ELSE db
        /\ EndTask(t)
        /\ UNCHANGED <<children, lastId, videos, req, boundVars>>

\* mark_completed: the row, and its children, which are refused when the analysis has
\* children already: (analysis_id, priority) is unique.
StorableResult(w) ==
    /\ Exists(w.id)
    /\ w.id \notin children
    /\ RowChecks(MergedCompletion(db[w.id], w.snap))

\* Mutant: the save does not care whether the row is still there.
SaveResultBlindly(t) ==
    LET w == task[t]
    IN  /\ t \in running
        /\ w.pc = "saving"
        /\ w.outcome.error = NoError
        /\ db' = [db EXCEPT ![w.id] = MarkCompleted(w.snap)]
        /\ children' = children \cup {w.id}
        /\ EndTask(t)
        /\ UNCHANGED <<lastId, videos, req, boundVars>>

SaveResult(t) ==
    LET w == task[t]
    IN  /\ t \in running
        /\ w.pc = "saving"
        /\ w.outcome.error = NoError
        /\ \/ /\ StorableResult(w)
              /\ db' = [db EXCEPT ![w.id] = MergedCompletion(@, w.snap)]
              /\ children' = children \cup {w.id}
           \/ /\ ~StorableResult(w)
              /\ UNCHANGED <<db, children>>
        /\ EndTask(t)
        /\ UNCHANGED <<lastId, videos, req, boundVars>>

-----------------------------------------------------------------------------
(* A session that fails: the database is away, or it refuses a value of a  *)
(* pipeline's result (a box whose rounded edges leave the frame, say).     *)

CountFault == faults < MaxFaults /\ faults' = faults + 1

\* Mutant: create rolls back and keeps the video.
RequestFaultKeepsVideo(c) ==
    /\ CountFault
    /\ req[c].pc \in {"upload", "insert", "retry", "full", "delete"}
    /\ EndRequest(c)
    /\ UNCHANGED <<queueVars, storeVars, videos, task, up, crashes>>

\* create deletes the saved video; the other handlers just roll back.
RequestFault(c) ==
    /\ CountFault
    /\ req[c].pc \in {"upload", "insert", "retry", "full", "delete"}
    /\ videos' = videos \ {c}
    /\ EndRequest(c)
    /\ UNCHANGED <<queueVars, storeVars, task, up, crashes>>

\* In on_stage: an exception of the pipeline.
StageFault(t) ==
    /\ CountFault
    /\ InPipeline(t)
    /\ task[t].pc = "run" => task[t].k < Len(PipelineStages)
    /\ Settle(t, "internal", NoStage)
    /\ UNCHANGED <<queueVars, storeVars, videos, req, up, crashes>>

\* In the last session: _run logs it and the outcome is lost.
SaveFault(t) ==
    /\ CountFault
    /\ t \in running
    /\ task[t].pc \in {"save", "saving"}
    /\ EndTask(t)
    /\ UNCHANGED <<storeVars, videos, req, up, crashes>>

-----------------------------------------------------------------------------
(* The process dies at any point, drain() or not; the tables and the files *)
(* stay.                                                                   *)
Crash ==
    /\ up
    /\ crashes < MaxCrashes
    /\ crashes' = crashes + 1
    /\ up' = FALSE
    /\ Discard
    /\ req' = [c \in Clients |-> NoRequest]
    /\ task' = [t \in Tasks |-> NoWorker]
    /\ UNCHANGED <<storeVars, videos, faults>>

\* Mutant: only the analyses that were running are cleaned up, not the waiting ones.
StartupCleansProcessing ==
    /\ ~up
    /\ up' = TRUE
    /\ db' = [i \in Ids |-> IF Exists(i) /\ db[i].status = "PROCESSING"
                            THEN FailInterrupted(db[i]) ELSE db[i]]
    /\ UNCHANGED <<queueVars, children, lastId, requestVars, task, crashes, faults>>

\* lifespan: every active row is failed before the first request is served.
Startup ==
    /\ ~up
    /\ up' = TRUE
    /\ db' = [i \in Ids |-> IF Exists(i) /\ IsActive(db[i])
                            THEN FailInterrupted(db[i]) ELSE db[i]]
    /\ UNCHANGED <<queueVars, children, lastId, requestVars, task, crashes, faults>>

\* The cleanup transaction fails, in cleanup_orphan_images after it, say: lifespan logs
\* it and serves requests.
StartupFault ==
    /\ CountFault
    /\ ~up
    /\ up' = TRUE
    /\ UNCHANGED <<queueVars, storeVars, requestVars, task, crashes>>

-----------------------------------------------------------------------------
\* What a request does once it was received.
RequestStep(c) ==
    \/ RejectUpload(c) \/ CheckDevice(c) \/ InsertRow(c)
    \/ CommitRetry(c) \/ SubmitAnalysis(c) \/ RecordQueueFull(c)
    \/ CommitDelete(c)

\* What a worker does apart from the pipeline's own work.
SaveStep(t) == ReadForSave(t) \/ SaveFailure(t) \/ SaveResult(t)

PipelineStep(t) ==
    \/ ReadStage(t) \/ WriteStage(t) \/ PipelineReturns(t) \/ PipelineRaises(t)

Next ==
    \/ \E c \in Clients :
        \/ BeginUpload(c)
        \/ RequestStep(c)
        \/ \E i \in Ids : BeginRetry(c, i) \/ BeginDelete(c, i)
        \/ RequestFault(c)
    \/ \E t \in Tasks :
        \/ StartTask(t)
        \/ PipelineStep(t)
        \/ TimeOut(t)
        \/ SaveStep(t)
        \/ StageFault(t)
        \/ SaveFault(t)
    \/ Crash \/ Startup \/ StartupFault

Safety == Init /\ [][Next]_vars

(* The event loop runs a coroutine that is ready, a database session       *)
(* answers, a pipeline that does not return is cut off by wait_for, and a  *)
(* stopped process is started again.  Nobody has to send a request, and    *)
(* the pipeline by itself need not move.                                   *)
Fairness ==
    /\ \A c \in Clients : WF_vars(RequestStep(c))
    /\ \A t \in Tasks :
        /\ WF_vars(StartTask(t))
        /\ WF_vars(TimeOut(t))
        /\ WF_vars(SaveStep(t))
    /\ WF_vars(Startup)

Spec == Safety /\ Fairness

-----------------------------------------------------------------------------
TypeOK ==
    /\ QueueTypeOK
    /\ db \in [Ids -> Row \cup {NoRow}]
    /\ children \in SUBSET Ids
    /\ videos \in SUBSET (Ids \cup Clients)
    /\ lastId \in 0..MaxAnalyses
    /\ req \in [Clients -> Request]
    /\ task \in [Tasks -> Worker]
    /\ up \in BOOLEAN
    /\ crashes \in 0..MaxCrashes
    /\ faults \in 0..MaxFaults

(* The promise of the API to a device: one analysis under way at a time.   *)
(* The code keeps it with a look at the table before the INSERT; nothing   *)
(* in the table enforces it.                                               *)
OneActivePerDevice ==
    \A i, j \in Ids :
        /\ Exists(i) /\ IsActive(db[i])
        /\ Exists(j) /\ IsActive(db[j])
        /\ db[i].device = db[j].device
        => i = j

WorkersOf(i) == {t \in Live : task[t].id = i}

SubmittersOf(i) == {c \in Clients : req[c].pc \in {"submit", "full"} /\ req[c].id = i}

(* While the process serves, an analysis is under way exactly if somebody  *)
(* is going to end it, and that is one worker or one handler that has yet  *)
(* to submit it: no row locks its device with nobody behind it, no two     *)
(* workers share a row, and no worker runs for a row that is settled or    *)
(* deleted.                                                                *)
ActiveIffOwned ==
    up => \A i \in Ids :
        Cardinality(WorkersOf(i)) + Cardinality(SubmittersOf(i))
            = IF Exists(i) /\ IsActive(db[i]) THEN 1 ELSE 0

(* No write the code is about to make is refused by the database: each     *)
(* object a session holds can still be merged into the row of that moment  *)
(* without failing a CHECK, and no result finds children in its way.  A    *)
(* refused final write is an analysis that never ends.                     *)
WritesAccepted ==
    /\ \A t \in running :
        LET w == task[t]
        IN  /\ w.pc = "stage" =>
                    Accepts(w.id, w.snap, MarkStage(w.snap, PipelineStages[w.k + 1]))
            /\ w.pc = "saving" =>
                    IF w.outcome.error = NoError THEN StorableResult(w)
                    ELSE Accepts(w.id, w.snap,
                                 MarkFailed(w.snap, w.outcome.error, w.outcome.stage))
    /\ \A c \in Clients :
        LET r == req[c]
        IN  /\ r.pc = "retry" => Accepts(r.id, r.snap, PrepareRetry(r.snap))
            /\ r.pc = "full" => Accepts(r.id, r.snap, MarkFailed(r.snap, "queue full", NoStage))

(* Every row satisfies the constraints over several columns, and has       *)
(* children and result columns exactly if it is completed: no failed or    *)
(* waiting analysis shows results of an earlier attempt, none is completed *)
(* without its recommendations, and a deleted one leaves no children.      *)
ResultsIffCompleted ==
    \A i \in Ids :
        LET completed == Exists(i) /\ db[i].status = "COMPLETED"
        IN  /\ (i \in children) <=> completed
            /\ Exists(i) => RowChecks(db[i]) /\ (db[i].results <=> completed)

Deleting(i) == \E c \in Clients : req[c].pc = "delete" /\ req[c].id = i

Uploading(c) == req[c].pc \in {"upload", "insert"}

(* A deleted analysis leaves no video, whatever crashes or fails, and only *)
(* a crash leaves an upload that no row refers to: a refused one, and one  *)
(* whose INSERT fails, is removed.  As long as nothing crashes or fails,   *)
(* no video is lost either, and no retry finds its own gone.               *)
VideosMatchRows ==
    /\ \A i \in Ids : i \in videos => Exists(i) /\ ~Deleting(i)
    /\ crashes = 0 => \A c \in Clients : c \in videos => Uploading(c)
    /\ crashes = 0 /\ faults = 0 =>
            /\ \A i \in Ids : Exists(i) => i \in videos \/ Deleting(i)
            /\ \A c \in Clients : Uploading(c) => c \in videos

-----------------------------------------------------------------------------
(* A completed analysis never changes again, short of being deleted: no    *)
(* late stage report, timeout, retry or cleanup reaches it.                *)
CompletedIsFinal ==
    [][\A i \in Ids : Exists(i) /\ db[i].status = "COMPLETED" =>
            db'[i] = db[i] \/ db'[i] = NoRow]_db

(* Within one attempt the progress a client polls never goes back, and a   *)
(* failure keeps the progress that was reached.                            *)
ProgressNeverFalls ==
    [][\A i \in Ids :
        Exists(i) /\ db'[i] # NoRow /\ db'[i].retries = db[i].retries =>
            db'[i].progress >= db[i].progress]_db

(* A deleted analysis stays deleted, whatever handler or worker still      *)
(* holds an object for it.                                                 *)
DeletedStaysDeleted ==
    [][\A i \in Ids : i <= lastId /\ db[i] = NoRow => db'[i] = NoRow]_db

-----------------------------------------------------------------------------
(* An analysis that is under way does not stay so for ever.                *)
NothingStuck == \A i \in Ids : (Exists(i) /\ IsActive(db[i])) ~> ~(Exists(i) /\ IsActive(db[i]))

(* Every job gives its place in the queue back, whatever becomes of its    *)
(* row, its session or its pipeline.                                       *)
EveryJobEnds == \A t \in Tasks : (t \in Live) ~> (t \notin Live)

-----------------------------------------------------------------------------
(* The life of an analysis as its owner sees it. *)
lifeOf ==
    [i \in Ids |->
        IF Exists(i)
        THEN [phase |-> db[i].status, device |-> db[i].device, retries |-> db[i].retries]
        ELSE [phase   |-> IF i <= lastId THEN "removed" ELSE "unborn",
              device  |-> "nobody",
              retries |-> 0]]

Lifecycle == INSTANCE AnalysisLifecycle WITH life <- lifeOf

(* When every device sends one request at a time, the backend implements   *)
(* the promised life cycle, crashes and failing sessions included.         *)
ImplementsLifecycle == Lifecycle!LifeSafety

=============================================================================
