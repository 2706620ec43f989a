------------------------ MODULE PetFitBackendProofs ------------------------
(***************************************************************************)
(* For any number of devices, clients, analyses, crashes and failing       *)
(* sessions, any pipeline and any queue size, and with no assumption on    *)
(* how many requests a device sends at once: the backend keeps its state   *)
(* well typed, it uses its queue as the queue is specified, so that the    *)
(* limits of the queue hold in the whole system, and no step brings a      *)
(* deleted analysis back.                                                  *)
(***************************************************************************)
EXTENDS PetFitBackend, AnalysisQueueProofs

(* What the transitions of a row do, for every row, stage and retry limit. *)

LEMMA StageProgressType ==
    ASSUME NEW s \in Stages
    PROVE  StageProgress[s] \in 1..99
BY DEF Stages, StageProgress

LEMMA StageProgressNatural ==
    ASSUME NEW s \in Stages
    PROVE  StageProgress[s] \in Nat
BY DEF Stages, StageProgress

LEMMA ProgressForType ==
    ASSUME NEW status \in Statuses, NEW s \in Stages \cup {NoStage}
    PROVE  ProgressFor(status, s) \in 0..100
BY StageProgressType DEF ProgressFor, Statuses

(* Every transition yields a row again. *)
LEMMA NewRowType ==
    ASSUME NEW d \in Devices
    PROVE  NewRow(d) \in Row
BY RowAssumption DEF NewRow, Row, Statuses

LEMMA MarkStageType ==
    ASSUME NEW r \in Row, NEW s \in Stages
    PROVE  MarkStage(r, s) \in Row
<1>1. ProgressFor("PROCESSING", s) \in 0..100
    BY ProgressForType DEF Statuses
<1> QED
    BY <1>1 DEF MarkStage, Row, Statuses

LEMMA MarkCompletedType ==
    ASSUME NEW r \in Row
    PROVE  MarkCompleted(r) \in Row
<1>1. ProgressFor("COMPLETED", NoStage) \in 0..100
    BY ProgressForType DEF Statuses
<1> QED
    BY <1>1 DEF MarkCompleted, Row, Statuses

LEMMA MarkFailedType ==
    ASSUME NEW r \in Row, NEW e \in Errors, NEW s \in Stages \cup {NoStage}
    PROVE  MarkFailed(r, e, s) \in Row
<1>1. ProgressFor("FAILED", s) \in 0..100
    BY ProgressForType DEF Statuses
<1> QED
    BY <1>1 DEF MarkFailed, Row, Statuses

LEMMA PrepareRetryType ==
    ASSUME NEW r \in Row, r.retries < MaxRetryCount
    PROVE  PrepareRetry(r) \in Row
<1> DEFINE n == r.retries + 1
<1>1. n \in 0..MaxRetryCount
    BY RowAssumption DEF Row
<1>2. 0 \in 0..100
    OBVIOUS
<1>3. PrepareRetry(r) = [r EXCEPT !.status = "PENDING", !.stage = NoStage, !.progress = 0,
                                  !.error = NoError, !.retries = n, !.completed = FALSE,
                                  !.results = FALSE]
    BY DEF PrepareRetry
<1> HIDE DEF n
<1> QED
    BY <1>1, <1>2, <1>3 DEF Row, Statuses

LEMMA FailInterruptedType ==
    ASSUME NEW r \in Row
    PROVE  FailInterrupted(r) \in Row
BY DEF FailInterrupted, Row, Statuses, Errors

(* A flush takes every column from one of two rows. *)
LEMMA MergedType ==
    ASSUME NEW current \in Row, NEW snap \in Row, NEW new \in Row
    PROVE  Merged(current, snap, new) \in Row
<1>1. DOMAIN current = {"device", "status", "stage", "progress", "error", "retries",
                        "completed", "results"}
    BY DEF Row
<1>2. Merged(current, snap, new) =
        [device    |-> IF new.device # snap.device THEN new.device ELSE current.device,
         status    |-> IF new.status # snap.status THEN new.status ELSE current.status,
         stage     |-> IF new.stage # snap.stage THEN new.stage ELSE current.stage,
         progress  |-> IF new.progress # snap.progress THEN new.progress ELSE current.progress,
         error     |-> IF new.error # snap.error THEN new.error ELSE current.error,
         retries   |-> IF new.retries # snap.retries THEN new.retries ELSE current.retries,
         completed |-> IF new.completed # snap.completed THEN new.completed ELSE current.completed,
         results   |-> IF new.results # snap.results THEN new.results ELSE current.results]
    BY <1>1 DEF Merged
<1> QED
    BY <1>2 DEF Row

(* When nobody else wrote the row since it was loaded, the flush stores    *)
(* exactly the object.                                                     *)
LEMMA MergeOfUnchangedRow ==
    ASSUME NEW snap \in Row, NEW new \in Row
    PROVE  Merged(snap, snap, new) = new
<1>1. DOMAIN snap = DOMAIN new
    BY DEF Row
<1>2. new = [f \in DOMAIN new |-> new[f]]
    BY DEF Row
<1> QED
    BY <1>1, <1>2 DEF Merged

(* A worker that owns its row never has a write refused: reporting a stage *)
(* on an active row, ending it either way, and resetting a failed one all  *)
(* satisfy the constraints over several columns.                           *)
THEOREM TransitionsPassChecks ==
    ASSUME NEW r \in Row, RowChecks(r)
    PROVE  /\ IsActive(r) => /\ \A s \in Stages : RowChecks(MarkStage(r, s))
                             /\ RowChecks(MarkCompleted(r))
                             /\ \A e \in Errors, s \in Stages \cup {NoStage} :
                                    RowChecks(MarkFailed(r, e, s))
                             /\ RowChecks(FailInterrupted(r))
           /\ \A b \in BOOLEAN : CanRetry(r, b) => RowChecks(PrepareRetry(r))
<1>1. ASSUME IsActive(r), NEW s \in Stages
      PROVE  RowChecks(MarkStage(r, s))
    <2>1. s # NoStage
        BY DEF Stages, NoStage
    <2> QED
        BY <1>1, <2>1 DEF IsActive, ActiveStatuses, RowChecks, MarkStage, Row
<1>2. ASSUME IsActive(r)
      PROVE  RowChecks(MarkCompleted(r))
    BY <1>2 DEF IsActive, ActiveStatuses, RowChecks, MarkCompleted, ProgressFor, Row
<1>3. ASSUME IsActive(r), NEW e \in Errors, NEW s \in Stages \cup {NoStage}
      PROVE  RowChecks(MarkFailed(r, e, s))
    <2>1. e # NoError
        BY DEF Errors, NoError
    <2> QED
        BY <1>3, <2>1 DEF IsActive, ActiveStatuses, RowChecks, MarkFailed, Row
<1>4. ASSUME IsActive(r)
      PROVE  RowChecks(FailInterrupted(r))
    BY <1>4 DEF IsActive, ActiveStatuses, RowChecks, FailInterrupted, Row, NoError
<1>5. ASSUME NEW b \in BOOLEAN, CanRetry(r, b)
      PROVE  RowChecks(PrepareRetry(r))
    BY <1>5, RowAssumption DEF CanRetry, RowChecks, PrepareRetry, Row
<1> QED
    BY <1>1, <1>2, <1>3, <1>4, <1>5
-----------------------------------------------------------------------------
(* What the table shows of a row that only its owner has written: the      *)
(* constraints hold, the result columns are those of a completed analysis, *)
(* and the progress of one that is under way is that of its stage.         *)
RowSound(r) ==
    /\ RowChecks(r)
    /\ r.results <=> r.status = "COMPLETED"
    /\ IsActive(r) => r.progress = ProgressFor(r.status, r.stage)

LEMMA NewRowSound ==
    ASSUME NEW d \in Devices
    PROVE  RowSound(NewRow(d))
BY RowAssumption DEF RowSound, NewRow, RowChecks, IsActive, ActiveStatuses, ProgressFor

LEMMA MarkStageSound ==
    ASSUME NEW r \in Row, RowSound(r), IsActive(r), NEW s \in Stages
    PROVE  RowSound(MarkStage(r, s))
<1>1. RowChecks(MarkStage(r, s))
    BY TransitionsPassChecks DEF RowSound
<1>2. ~r.results
    BY DEF RowSound, IsActive, ActiveStatuses
<1> QED
    BY <1>1, <1>2 DEF RowSound, MarkStage, Row

LEMMA MarkFailedSound ==
    ASSUME NEW r \in Row, RowSound(r), IsActive(r),
           NEW e \in Errors, NEW s \in Stages \cup {NoStage}
    PROVE  RowSound(MarkFailed(r, e, s))
<1>1. RowChecks(MarkFailed(r, e, s))
    BY TransitionsPassChecks DEF RowSound
<1>2. ~r.results
    BY DEF RowSound, IsActive, ActiveStatuses
<1>3. MarkFailed(r, e, s).status = "FAILED" /\ MarkFailed(r, e, s).results = r.results
    BY DEF MarkFailed, Row
<1> QED
    BY <1>1, <1>2, <1>3 DEF RowSound, IsActive, ActiveStatuses

LEMMA MarkCompletedSound ==
    ASSUME NEW r \in Row, RowSound(r), IsActive(r)
    PROVE  RowSound(MarkCompleted(r))
<1>1. RowChecks(MarkCompleted(r))
    BY TransitionsPassChecks DEF RowSound
<1>2. MarkCompleted(r).status = "COMPLETED" /\ MarkCompleted(r).results = TRUE
    BY DEF MarkCompleted, Row
<1> QED
    BY <1>1, <1>2 DEF RowSound, IsActive, ActiveStatuses

LEMMA PrepareRetrySound ==
    ASSUME NEW r \in Row, RowSound(r), r.status = "FAILED", r.retries < MaxRetryCount
    PROVE  RowSound(PrepareRetry(r))
<1>1. CanRetry(r, FALSE)
    BY DEF CanRetry
<1>2. RowChecks(PrepareRetry(r))
    BY <1>1, TransitionsPassChecks DEF RowSound
<1>3. /\ PrepareRetry(r).status = "PENDING"
      /\ PrepareRetry(r).progress = 0
      /\ PrepareRetry(r).results = FALSE
    BY DEF PrepareRetry, Row
<1> QED
    BY <1>2, <1>3 DEF RowSound, ProgressFor

LEMMA FailInterruptedSound ==
    ASSUME NEW r \in Row, RowSound(r), IsActive(r)
    PROVE  RowSound(FailInterrupted(r))
<1>1. RowChecks(FailInterrupted(r))
    BY TransitionsPassChecks DEF RowSound
<1>2. ~r.results
    BY DEF RowSound, IsActive, ActiveStatuses
<1>3. FailInterrupted(r).status = "FAILED" /\ FailInterrupted(r).results = r.results
    BY DEF FailInterrupted, Row
<1> QED
    BY <1>1, <1>2, <1>3 DEF RowSound, IsActive, ActiveStatuses

-----------------------------------------------------------------------------

(* TypeOK is not inductive: a handler that is about to write must hold a   *)
(* row that was really read, a worker must work for some analysis, and the *)
(* slot a new task gets must exist, which takes the invariant of the queue *)
(* (SomeSlotIsFree).                                                       *)
StoreInv ==
    /\ db \in [Ids -> Row \cup {NoRow}]
    /\ children \in SUBSET Ids
    /\ videos \in SUBSET (Ids \cup Clients)
    /\ lastId \in 0..MaxAnalyses

RequestOK(r) ==
    /\ r \in Request
    /\ r.pc \in {"retry", "submit", "full", "delete"} => r.id \in Ids /\ r.snap \in Row
    /\ r.pc = "retry" => r.snap.retries < MaxRetryCount

RequestInv ==
    /\ req \in [Clients -> Request]
    /\ \A c \in Clients : RequestOK(req[c])

WorkerOK(w) ==
    /\ w \in Worker
    /\ w.pc \in {"stage", "saving"} => w.snap \in Row
    /\ w.pc = "stage" => w.k < Len(PipelineStages)

WorkerInv ==
    /\ task \in [Tasks -> Worker]
    /\ \A t \in Tasks : WorkerOK(task[t])
    /\ \A t \in Live : task[t].id \in Ids

BoundsInv ==
    /\ up \in BOOLEAN
    /\ crashes \in 0..MaxCrashes
    /\ faults \in 0..MaxFaults

BackendInv == QueueInv /\ StoreInv /\ RequestInv /\ WorkerInv /\ BoundsInv

-----------------------------------------------------------------------------
(* A step that leaves a group of variables alone keeps its part. *)
LEMMA QueueFrame ==
    ASSUME QueueInv, UNCHANGED queueVars
    PROVE  QueueInv' /\ Live' = Live
BY DEF QueueInv, QueueTypeOK, TasksDistinct, PendingCountsLive, WithinLimits,
       Waiting, Live, queueVars

LEMMA WorkerFrame ==
    ASSUME QueueInv, WorkerInv, UNCHANGED queueVars, UNCHANGED task
    PROVE  WorkerInv'
BY QueueFrame DEF WorkerInv

(* Storing one request or one worker. *)
LEMMA RequestUpdate ==
    ASSUME RequestInv, NEW c \in Clients, NEW r, RequestOK(r),
           req' = [req EXCEPT ![c] = r]
    PROVE  RequestInv'
BY DEF RequestInv, RequestOK

LEMMA WorkerUpdate ==
    ASSUME WorkerInv, NEW t \in Tasks, NEW w, WorkerOK(w),
           task' = [task EXCEPT ![t] = w],
           \A u \in Live' : u \in Live \/ u = t,
           t \in Live' => w.id \in Ids
    PROVE  WorkerInv'
<1>1. task' \in [Tasks -> Worker] /\ \A u \in Tasks : WorkerOK(task'[u])
    BY DEF WorkerInv, WorkerOK
<1>2. ASSUME NEW u \in Live'
      PROVE  task'[u].id \in Ids
    <2>1. CASE u = t
        BY <2>1, <1>2 DEF WorkerInv
    <2>2. CASE u # t
        BY <2>2, <1>2 DEF WorkerInv
    <2> QED
        BY <2>1, <2>2
<1> QED
    BY <1>1, <1>2 DEF WorkerInv

LEMMA NoRequestOK == RequestOK(NoRequest)
BY DEF RequestOK, NoRequest, Request, RequestPc

LEMMA NewWorkerOK ==
    ASSUME NEW i \in Ids \cup {NoId}
    PROVE  WorkerOK(NewWorker(i))
<1>1. 0 \in 0..Len(PipelineStages)
    BY BackendAssumption, LenProperties
<1>2. Success \in Outcome
    BY DEF Success, Outcome
<1> QED
    BY <1>1, <1>2 DEF WorkerOK, NewWorker, Worker, WorkerPc

(* What a flush leaves in the table is a row, or nothing when the row was  *)
(* not there.                                                              *)
LEMMA UpdatedType ==
    ASSUME StoreInv, NEW i \in Ids, NEW snap \in Row, NEW new \in Row
    PROVE  Updated(i, snap, new) \in [Ids -> Row \cup {NoRow}]
<1>1. db[i] # NoRow => Merged(db[i], snap, new) \in Row
    BY MergedType DEF StoreInv
<1> QED
    BY <1>1 DEF Updated, StoreInv

LEMMA MergedCompletionType ==
    ASSUME NEW current \in Row, NEW snap \in Row
    PROVE  MergedCompletion(current, snap) \in Row
<1> DEFINE m == Merged(current, snap, MarkCompleted(snap))
<1>1. m \in Row
    BY MarkCompletedType, MergedType
<1>2. MergedCompletion(current, snap) = [m EXCEPT !.completed = TRUE, !.results = TRUE]
    BY DEF MergedCompletion
<1> HIDE DEF m
<1> QED
    BY <1>1, <1>2 DEF Row

-----------------------------------------------------------------------------
(* POST /analyses *)

LEMMA BeginUploadInv ==
    ASSUME BackendInv, NEW c \in Clients, BeginUpload(c)
    PROVE  BackendInv'
<1> USE DEF BackendInv, BeginUpload
<1> DEFINE r == [req[c] EXCEPT !.pc = "upload"]
<1>1. RequestOK(r)
    BY DEF RequestInv, RequestOK, Request, RequestPc
<1>2. RequestInv'
    BY <1>1, RequestUpdate
<1>3. StoreInv'
    BY DEF StoreInv, storeVars
<1> QED
    BY <1>2, <1>3, QueueFrame, WorkerFrame DEF BoundsInv, boundVars

LEMMA RejectUploadInv ==
    ASSUME BackendInv, NEW c \in Clients, RejectUpload(c)
    PROVE  BackendInv'
<1> USE DEF BackendInv, RejectUpload
<1>1. RequestInv'
    BY NoRequestOK, RequestUpdate DEF EndRequest
<1>2. StoreInv'
    BY DEF StoreInv, storeVars
<1> QED
    BY <1>1, <1>2, QueueFrame, WorkerFrame DEF BoundsInv, boundVars

LEMMA CheckDeviceInv ==
    ASSUME BackendInv, NEW c \in Clients, CheckDevice(c)
    PROVE  BackendInv'
<1> USE DEF BackendInv, CheckDevice
<1> DEFINE r == [req[c] EXCEPT !.pc = "insert"]
<1>1. RequestOK(r)
    BY DEF RequestInv, RequestOK, Request, RequestPc
<1>2. RequestInv'
    BY <1>1, NoRequestOK, RequestUpdate DEF EndRequest
<1>3. StoreInv'
    BY DEF StoreInv, storeVars
<1> QED
    BY <1>2, <1>3, QueueFrame, WorkerFrame DEF BoundsInv, boundVars

LEMMA InsertRowInv ==
    ASSUME BackendInv, NEW c \in Clients, InsertRow(c)
    PROVE  BackendInv'
<1> USE DEF BackendInv, InsertRow
<1> DEFINE i == lastId + 1
           row == NewRow(DeviceOf[c])
           r == [pc |-> "submit", id |-> i, snap |-> row]
<1>1. i \in Ids /\ i \in 0..MaxAnalyses
    BY BackendAssumption DEF StoreInv, Ids
<1>2. row \in Row
    BY NewRowType, BackendAssumption
<1>3. RequestOK(r)
    BY <1>1, <1>2 DEF RequestOK, Request, RequestPc
<1>4. RequestInv'
    <2> HIDE DEF r
    <2>1. req' = [req EXCEPT ![c] = r]
        BY DEF r
    <2> QED
        BY <1>3, <2>1, RequestUpdate
<1>5. StoreInv'
    BY <1>1, <1>2 DEF StoreInv
<1> QED
    BY <1>4, <1>5, QueueFrame, WorkerFrame DEF BoundsInv, boundVars

-----------------------------------------------------------------------------
(* The submission of a job, and the record of a refused one *)

(* The slot CHOOSE picks is a real one. *)
LEMMA FreeSlotType ==
    ASSUME QueueInv, ~IsFull
    PROVE  FreeSlot \in Tasks /\ FreeSlot \notin Live
BY SomeSlotIsFree DEF FreeSlot

LEMMA SubmitLive ==
    ASSUME QueueInv, NEW t \in Tasks, Submit(t)
    PROVE  Live' = Live \cup {t}
<1>1. /\ Len(waiting') = Len(waiting) + 1
      /\ \A i \in 1..Len(waiting) : waiting'[i] = waiting[i]
      /\ waiting'[Len(waiting) + 1] = t
    BY AppendProperties DEF QueueInv, QueueTypeOK, Submit
<1>2. waiting' \in Seq(Tasks) /\ waiting \in Seq(Tasks)
    BY AppendProperties DEF QueueInv, QueueTypeOK, Submit
<1>3. /\ DOMAIN waiting' = 1..Len(waiting) + 1
      /\ DOMAIN waiting = 1..Len(waiting)
      /\ Len(waiting) \in Nat
    BY <1>1, <1>2, LenProperties
<1>4. ASSUME NEW i \in DOMAIN waiting'
      PROVE  waiting'[i] \in Waiting \/ waiting'[i] = t
    BY <1>1, <1>3 DEF Waiting
<1>5. ASSUME NEW i \in DOMAIN waiting
      PROVE  waiting[i] \in Waiting'
    BY <1>1, <1>3 DEF Waiting
<1>6. t \in Waiting'
    BY <1>1, <1>3 DEF Waiting
<1>7. Waiting' = Waiting \cup {t}
    BY <1>4, <1>5, <1>6 DEF Waiting
<1> QED
    BY <1>7 DEF Live, Submit

LEMMA SubmitAnalysisInv ==
    ASSUME BackendInv, NEW c \in Clients, SubmitAnalysis(c)
    PROVE  BackendInv'
<1> USE DEF BackendInv, SubmitAnalysis
<1>1. RequestOK(req[c]) /\ req[c].id \in Ids
    BY DEF RequestInv, RequestOK
<1>2. StoreInv' /\ BoundsInv'
    BY DEF StoreInv, storeVars, BoundsInv, boundVars
<1>3. CASE /\ Submit(FreeSlot)
           /\ task' = [task EXCEPT ![FreeSlot] = NewWorker(req[c].id)]
           /\ EndRequest(c)
    <2>1. FreeSlot \in Tasks
        BY <1>3, FreeSlotType DEF Submit
    <2>2. QueueInv'
        BY <1>3, <2>1, SubmitInv
    <2>3. RequestInv'
        BY <1>3, NoRequestOK, RequestUpdate DEF EndRequest
    <2>4. WorkerOK(NewWorker(req[c].id)) /\ NewWorker(req[c].id).id \in Ids
        BY <1>1, NewWorkerOK DEF NewWorker
    <2>5. Live' = Live \cup {FreeSlot}
        BY <1>3, <2>1, SubmitLive
    <2>6. WorkerInv'
        BY <1>3, <2>1, <2>4, <2>5, WorkerUpdate
    <2> QED
        BY <1>2, <2>2, <2>3, <2>6
<1>4. CASE /\ IsFull
           /\ req' = [req EXCEPT ![c].pc = "full"]
           /\ UNCHANGED <<queueVars, task>>
    <2> DEFINE r == [req[c] EXCEPT !.pc = "full"]
    <2>1. RequestOK(r)
        BY <1>1 DEF RequestInv, RequestOK, Request, RequestPc
    <2>2. RequestInv'
        BY <1>4, <2>1, RequestUpdate
    <2> QED
        BY <1>2, <1>4, <2>2, QueueFrame, WorkerFrame
<1> QED
    BY <1>3, <1>4

LEMMA RecordQueueFullInv ==
    ASSUME BackendInv, NEW c \in Clients, RecordQueueFull(c)
    PROVE  BackendInv'
<1> USE DEF BackendInv, RecordQueueFull
<1> DEFINE new == MarkFailed(req[c].snap, "queue full", NoStage)
<1>1. req[c].id \in Ids /\ req[c].snap \in Row
    BY DEF RequestInv, RequestOK
<1>2. new \in Row
    BY <1>1, MarkFailedType DEF Errors
<1>3. StoreInv'
    <2>1. Updated(req[c].id, req[c].snap, new) \in [Ids -> Row \cup {NoRow}]
        BY <1>1, <1>2, UpdatedType
    <2> QED
        BY <2>1 DEF StoreInv
<1>4. RequestInv'
    BY NoRequestOK, RequestUpdate DEF EndRequest
<1> QED
    BY <1>3, <1>4, QueueFrame, WorkerFrame DEF BoundsInv, boundVars

-----------------------------------------------------------------------------
(* POST /analyses/{id}/retry *)

LEMMA BeginRetryInv ==
    ASSUME BackendInv, NEW c \in Clients, NEW i \in Ids, BeginRetry(c, i)
    PROVE  BackendInv'
<1> USE DEF BackendInv, BeginRetry
<1> DEFINE r == [pc |-> "retry", id |-> i, snap |-> db[i]]
<1>1. db[i] \in Row /\ db[i].retries < MaxRetryCount
    BY DEF StoreInv, Owns, Exists, CanRetry
<1>2. RequestOK(r)
    BY <1>1 DEF RequestOK, Request, RequestPc
<1>3. RequestInv'
    <2> HIDE DEF r
    <2>1. req' = [req EXCEPT ![c] = r]
        BY DEF r
    <2> QED
        BY <1>2, <2>1, RequestUpdate
<1>4. StoreInv'
    BY DEF StoreInv, storeVars
<1> QED
    BY <1>3, <1>4, QueueFrame, WorkerFrame DEF BoundsInv, boundVars

LEMMA CommitRetryInv ==
    ASSUME BackendInv, NEW c \in Clients, CommitRetry(c)
    PROVE  BackendInv'
<1> USE DEF BackendInv, CommitRetry
<1> DEFINE i == req[c].id
           snap == req[c].snap
           new == PrepareRetry(snap)
<1>1. i \in Ids /\ snap \in Row /\ snap.retries < MaxRetryCount
    BY DEF RequestInv, RequestOK
<1>2. new \in Row
    BY <1>1, PrepareRetryType
<1>3. QueueInv' /\ WorkerInv' /\ BoundsInv'
    BY QueueFrame, WorkerFrame DEF BoundsInv, boundVars
<1>4. CASE /\ db' = Updated(i, snap, new)
           /\ children' = children \ {i}
           /\ req' = [req EXCEPT ![c].pc = "submit", ![c].snap = new]
    <2> DEFINE r == [req[c] EXCEPT !.pc = "submit", !.snap = new]
    <2>1. StoreInv'
        <3>1. Updated(i, snap, new) \in [Ids -> Row \cup {NoRow}]
            BY <1>1, <1>2, UpdatedType
        <3> QED
            BY <1>4, <3>1 DEF StoreInv
    <2>2. RequestOK(r)
        <3> HIDE DEF new
        <3> QED
            BY <1>1, <1>2 DEF RequestInv, RequestOK, Request, RequestPc
    <2>3. req' = [req EXCEPT ![c] = r]
        <3> HIDE DEF new
        <3> QED
            BY <1>4 DEF RequestInv
    <2>4. RequestInv'
        <3> HIDE DEF r
        <3> QED
            BY <2>2, <2>3, RequestUpdate
    <2> QED
        BY <1>3, <2>1, <2>4
<1>5. CASE EndRequest(c) /\ UNCHANGED <<db, children>>
    <2>1. RequestInv'
        BY <1>5, NoRequestOK, RequestUpdate DEF EndRequest
    <2>2. StoreInv'
        BY <1>5 DEF StoreInv
    <2> QED
        BY <1>3, <2>1, <2>2
<1> QED
    BY <1>4, <1>5

-----------------------------------------------------------------------------
(* DELETE /analyses/{id} *)

LEMMA BeginDeleteInv ==
    ASSUME BackendInv, NEW c \in Clients, NEW i \in Ids, BeginDelete(c, i)
    PROVE  BackendInv'
<1> USE DEF BackendInv, BeginDelete
<1> DEFINE r == [pc |-> "delete", id |-> i, snap |-> db[i]]
<1>1. db[i] \in Row
    BY DEF StoreInv, Owns, Exists
<1>2. RequestOK(r)
    BY <1>1 DEF RequestOK, Request, RequestPc
<1>3. RequestInv'
    <2> HIDE DEF r
    <2>1. req' = [req EXCEPT ![c] = r]
        BY DEF r
    <2> QED
        BY <1>2, <2>1, RequestUpdate
<1>4. StoreInv'
    BY DEF StoreInv, storeVars
<1> QED
    BY <1>3, <1>4, QueueFrame, WorkerFrame DEF BoundsInv, boundVars

LEMMA CommitDeleteInv ==
    ASSUME BackendInv, NEW c \in Clients, CommitDelete(c)
    PROVE  BackendInv'
<1> USE DEF BackendInv, CommitDelete
<1>1. req[c].id \in Ids
    BY DEF RequestInv, RequestOK
<1>2. RequestInv'
    BY NoRequestOK, RequestUpdate DEF EndRequest
<1>3. StoreInv'
    BY <1>1 DEF StoreInv
<1> QED
    BY <1>2, <1>3, QueueFrame, WorkerFrame DEF BoundsInv, boundVars

-----------------------------------------------------------------------------
(* AnalysisQueue._run and _execute *)

LEMMA RunningWorker ==
    ASSUME QueueInv, WorkerInv, NEW t \in running
    PROVE  t \in Tasks /\ t \in Live /\ task[t] \in Worker /\ WorkerOK(task[t])
           /\ task[t].id \in Ids
BY DEF QueueInv, QueueTypeOK, WorkerInv, Live

LEMMA AcquireLive ==
    ASSUME QueueInv, NEW t \in Tasks, Acquire(t)
    PROVE  Live' = Live
<1>1. /\ waiting' \in Seq(Tasks)
      /\ Len(waiting') = Len(waiting) - 1
      /\ \A i \in 1..Len(waiting') : waiting'[i] = waiting[i + 1]
    BY HeadTailProperties DEF QueueInv, QueueTypeOK, Acquire
<1>2. Len(waiting) \in Nat \ {0} /\ DOMAIN waiting = 1..Len(waiting)
    BY LenProperties, EmptySeq DEF QueueInv, QueueTypeOK, Acquire
<1>3. DOMAIN waiting' = 1..Len(waiting) - 1
    BY <1>1, LenProperties
<1>4. t \in Waiting /\ t = waiting[1]
    BY <1>2 DEF Waiting, Acquire, QueueInv, QueueTypeOK
<1>5. ASSUME NEW i \in DOMAIN waiting'
      PROVE  waiting'[i] \in Waiting
    <2>1. i + 1 \in DOMAIN waiting /\ waiting'[i] = waiting[i + 1]
        BY <1>1, <1>2, <1>3
    <2> QED
        BY <2>1 DEF Waiting
<1>6. ASSUME NEW i \in DOMAIN waiting, waiting[i] # t
      PROVE  waiting[i] \in Waiting'
    <2>1. i \in 1..Len(waiting) /\ i # 1
        BY <1>2, <1>4, <1>6
    <2>2. i - 1 \in DOMAIN waiting' /\ (i - 1) + 1 = i
        BY <1>2, <1>3, <2>1
    <2>3. waiting'[i - 1] = waiting[i]
        BY <1>1, <1>2, <1>3, <2>2
    <2> QED
        BY <2>2, <2>3 DEF Waiting
<1>7. Waiting' \subseteq Waiting /\ Waiting \subseteq Waiting' \cup {t}
    BY <1>5, <1>6 DEF Waiting
<1> QED
    BY <1>4, <1>7 DEF Live, Acquire

LEMMA FinishLive ==
    ASSUME QueueInv, NEW t \in Tasks, Finish(t)
    PROVE  Live' = Live \ {t}
<1>1. Waiting' = Waiting /\ t \notin Waiting
    BY DEF Finish, Waiting, QueueInv, TasksDistinct
<1> QED
    BY <1>1 DEF Finish, Live

LEMMA StartTaskInv ==
    ASSUME BackendInv, NEW t \in Tasks, StartTask(t)
    PROVE  BackendInv'
<1> USE DEF BackendInv, StartTask
<1>1. QueueInv'
    BY AcquireInv
<1>2. WorkerInv'
    BY AcquireLive DEF WorkerInv
<1> QED
    BY <1>1, <1>2 DEF StoreInv, storeVars, RequestInv, BoundsInv, boundVars

(* The pipeline is over: the worker is left with its outcome. *)
LEMMA SettleWorker ==
    ASSUME QueueInv, WorkerInv, NEW t \in running,
           NEW error \in Errors \cup {NoError}, NEW stage \in Stages \cup {NoStage},
           Settle(t, error, stage), UNCHANGED queueVars
    PROVE  WorkerInv'
<1> DEFINE w == [task[t] EXCEPT !.pc = "save", !.snap = NoRow,
                                !.outcome = [error |-> error, stage |-> stage]]
<1>1. task[t] \in Worker /\ t \in Tasks /\ task[t].id \in Ids
    BY RunningWorker
<1>2. [error |-> error, stage |-> stage] \in Outcome
    BY DEF Outcome
<1>3. WorkerOK(w) /\ w.id = task[t].id
    BY <1>1, <1>2 DEF WorkerOK, Worker, WorkerPc
<1>4. task' = [task EXCEPT ![t] = w]
    BY <1>1 DEF Settle, WorkerInv
<1> HIDE DEF w
<1> QED
    BY <1>1, <1>3, <1>4, QueueFrame, WorkerUpdate

(* The job is over: its slot holds no worker and no analysis. *)
LEMMA EndTaskInv ==
    ASSUME QueueInv, WorkerInv, NEW t \in Tasks, EndTask(t)
    PROVE  QueueInv' /\ WorkerInv'
<1>1. QueueInv'
    BY FinishInv DEF EndTask
<1>2. WorkerOK(NoWorker)
    BY NewWorkerOK DEF NoWorker
<1>3. Live' = Live \ {t}
    BY FinishLive DEF EndTask
<1>4. WorkerInv'
    BY <1>2, <1>3, WorkerUpdate DEF EndTask
<1> QED
    BY <1>1, <1>4

LEMMA ReadStageInv ==
    ASSUME BackendInv, NEW t \in Tasks, ReadStage(t)
    PROVE  BackendInv'
<1> USE DEF BackendInv, ReadStage
<1> DEFINE w == task[t]
<1>1. w \in Worker /\ WorkerOK(w) /\ w.id \in Ids
    BY RunningWorker
<1>2. Len(PipelineStages) \in Nat /\ w.k < Len(PipelineStages) /\ w.k \in Nat
    BY <1>1, BackendAssumption, LenProperties DEF Worker
<1>3. CASE Exists(w.id)
    <2> DEFINE v == [w EXCEPT !.pc = "stage", !.snap = db[w.id]]
    <2>1. db[w.id] \in Row
        BY <1>1, <1>3 DEF StoreInv, Exists
    <2>2. WorkerOK(v) /\ v.id = w.id
        BY <1>1, <1>2, <2>1 DEF WorkerOK, Worker, WorkerPc
    <2>3. task' = [task EXCEPT ![t] = v]
        BY <1>3
    <2> HIDE DEF v
    <2>4. WorkerInv'
        BY <1>1, <2>2, <2>3, QueueFrame, WorkerUpdate
    <2> QED
        BY <2>4, QueueFrame DEF StoreInv, storeVars, RequestInv, BoundsInv, boundVars
<1>4. CASE ~Exists(w.id)
    <2> DEFINE v == [w EXCEPT !.k = @ + 1]
    <2>1. w.k + 1 \in 0..Len(PipelineStages)
        BY <1>2
    <2>2. WorkerOK(v) /\ v.id = w.id
        BY <1>1, <1>2, <2>1 DEF WorkerOK, Worker, WorkerPc
    <2>3. task' = [task EXCEPT ![t] = v]
        BY <1>4
    <2> HIDE DEF v
    <2>4. WorkerInv'
        BY <1>1, <2>2, <2>3, QueueFrame, WorkerUpdate
    <2> QED
        BY <2>4, QueueFrame DEF StoreInv, storeVars, RequestInv, BoundsInv, boundVars
<1> QED
    BY <1>3, <1>4

LEMMA WriteStageInv ==
    ASSUME BackendInv, NEW t \in Tasks, WriteStage(t)
    PROVE  BackendInv'
<1> USE DEF BackendInv, WriteStage
<1> DEFINE w == task[t]
           new == MarkStage(w.snap, PipelineStages[w.k + 1])
<1>1. w \in Worker /\ WorkerOK(w) /\ w.id \in Ids /\ w.snap \in Row
    BY RunningWorker DEF WorkerOK
<1>2. w.k < Len(PipelineStages) /\ w.k \in Nat /\ Len(PipelineStages) \in Nat
    BY <1>1, BackendAssumption, LenProperties DEF Worker, WorkerOK
<1>3. PipelineStages[w.k + 1] \in Stages
    <2>1. w.k + 1 \in 1..Len(PipelineStages)
        BY <1>2
    <2> QED
        BY <2>1, BackendAssumption, ElementOfSeq
<1>4. new \in Row
    BY <1>1, <1>3, MarkStageType
<1>5. QueueInv' /\ RequestInv' /\ BoundsInv'
    BY QueueFrame DEF RequestInv, BoundsInv, boundVars
<1>6. CASE /\ db' = Updated(w.id, w.snap, new)
           /\ task' = [task EXCEPT ![t].pc = "run", ![t].k = @ + 1, ![t].snap = NoRow]
    <2> DEFINE v == [w EXCEPT !.pc = "run", !.k = @ + 1, !.snap = NoRow]
    <2>1. w.k + 1 \in 0..Len(PipelineStages)
        BY <1>2
    <2>2. WorkerOK(v) /\ v.id = w.id
        BY <1>1, <1>2, <2>1 DEF WorkerOK, Worker, WorkerPc
    <2>3. task' = [task EXCEPT ![t] = v]
        BY <1>6 DEF WorkerInv
    <2>4. WorkerInv'
        <3> HIDE DEF v
        <3> QED
            BY <1>1, <2>2, <2>3, QueueFrame, WorkerUpdate
    <2>5. StoreInv'
        <3>1. Updated(w.id, w.snap, new) \in [Ids -> Row \cup {NoRow}]
            BY <1>1, <1>4, UpdatedType
        <3> QED
            BY <1>6, <3>1 DEF StoreInv
    <2> QED
        BY <1>5, <2>4, <2>5
<1>7. CASE Settle(t, "internal", NoStage) /\ UNCHANGED db
    <2>1. WorkerInv'
        BY <1>7, SettleWorker DEF Errors
    <2>2. StoreInv'
        BY <1>7 DEF StoreInv
    <2> QED
        BY <1>5, <2>1, <2>2
<1> QED
    BY <1>6, <1>7

LEMMA PipelineReturnsInv ==
    ASSUME BackendInv, NEW t \in Tasks, PipelineReturns(t)
    PROVE  BackendInv'
<1> USE DEF BackendInv, PipelineReturns
<1>1. WorkerInv'
    BY SettleWorker
<1> QED
    BY <1>1, QueueFrame DEF StoreInv, storeVars, RequestInv, BoundsInv, boundVars

LEMMA PipelineRaisesInv ==
    ASSUME BackendInv, NEW t \in Tasks, PipelineRaises(t)
    PROVE  BackendInv'
<1> USE DEF BackendInv, PipelineRaises
<1>1. task[t].k \in 1..Len(PipelineStages)
    BY RunningWorker, BackendAssumption, LenProperties DEF Worker
<1>2. PipelineStages[task[t].k] \in Stages
    BY <1>1, BackendAssumption, ElementOfSeq
<1>3. WorkerInv'
    BY <1>2, SettleWorker DEF Errors
<1> QED
    BY <1>3, QueueFrame DEF StoreInv, storeVars, RequestInv, BoundsInv, boundVars

LEMMA TimeOutInv ==
    ASSUME BackendInv, NEW t \in Tasks, TimeOut(t)
    PROVE  BackendInv'
<1> USE DEF BackendInv, TimeOut
<1>1. WorkerInv'
    BY SettleWorker DEF Errors, InPipeline
<1> QED
    BY <1>1, QueueFrame DEF StoreInv, storeVars, RequestInv, BoundsInv, boundVars

LEMMA ReadForSaveInv ==
    ASSUME BackendInv, NEW t \in Tasks, ReadForSave(t)
    PROVE  BackendInv'
<1> USE DEF BackendInv, ReadForSave
<1> DEFINE w == task[t]
           v == [w EXCEPT !.pc = "saving", !.snap = db[w.id]]
<1>1. w \in Worker /\ WorkerOK(w) /\ w.id \in Ids
    BY RunningWorker
<1>2. StoreInv' /\ RequestInv' /\ BoundsInv'
    BY DEF StoreInv, storeVars, RequestInv, BoundsInv, boundVars
<1>3. CASE /\ Exists(w.id)
           /\ task' = [task EXCEPT ![t].pc = "saving", ![t].snap = db[w.id]]
           /\ UNCHANGED queueVars
    <2>1. db[w.id] \in Row
        BY <1>1, <1>3 DEF StoreInv, Exists
    <2>2. WorkerOK(v) /\ v.id = w.id
        BY <1>1, <2>1 DEF WorkerOK, Worker, WorkerPc
    <2>3. task' = [task EXCEPT ![t] = v]
        BY <1>3 DEF WorkerInv
    <2>4. WorkerInv'
        <3> HIDE DEF v
        <3> QED
            BY <1>1, <1>3, <2>2, <2>3, QueueFrame, WorkerUpdate
    <2> QED
        BY <1>2, <1>3, <2>4, QueueFrame
<1>4. CASE EndTask(t)
    BY <1>2, <1>4, EndTaskInv
<1> QED
    BY <1>3, <1>4

LEMMA SaveFailureInv ==
    ASSUME BackendInv, NEW t \in Tasks, SaveFailure(t)
    PROVE  BackendInv'
<1> USE DEF BackendInv, SaveFailure
<1> DEFINE w == task[t]
           new == MarkFailed(w.snap, w.outcome.error, w.outcome.stage)
<1>1. w \in Worker /\ w.id \in Ids /\ w.snap \in Row
    BY RunningWorker DEF WorkerOK
<1>2. w.outcome.error \in Errors /\ w.outcome.stage \in Stages \cup {NoStage}
    BY <1>1 DEF Worker, Outcome
<1>3. new \in Row
    BY <1>1, <1>2, MarkFailedType
<1>4. StoreInv'
    <2>1. Updated(w.id, w.snap, new) \in [Ids -> Row \cup {NoRow}]
        BY <1>1, <1>3, UpdatedType
    <2> QED
        BY <2>1 DEF StoreInv
<1> QED
    BY <1>4, EndTaskInv DEF RequestInv, BoundsInv, boundVars

LEMMA SaveResultInv ==
    ASSUME BackendInv, NEW t \in Tasks, SaveResult(t)
    PROVE  BackendInv'
<1> USE DEF BackendInv, SaveResult
<1> DEFINE w == task[t]
<1>1. w.id \in Ids /\ w.snap \in Row
    BY RunningWorker DEF WorkerOK
<1>2. StoreInv'
    <2>1. CASE StorableResult(w)
        <3>1. MergedCompletion(db[w.id], w.snap) \in Row
            BY <1>1, <2>1, MergedCompletionType DEF StorableResult, Exists, StoreInv
        <3> QED
            BY <1>1, <2>1, <3>1 DEF StoreInv
    <2>2. CASE ~StorableResult(w)
        BY <2>2 DEF StoreInv
    <2> QED
        BY <2>1, <2>2
<1> QED
    BY <1>2, EndTaskInv DEF RequestInv, BoundsInv, boundVars

-----------------------------------------------------------------------------
(* Failing sessions, crash and restart *)

LEMMA FaultBound ==
    ASSUME BoundsInv, CountFault
    PROVE  faults' \in 0..MaxFaults
BY BackendAssumption DEF BoundsInv, CountFault

LEMMA RequestFaultInv ==
    ASSUME BackendInv, NEW c \in Clients, RequestFault(c)
    PROVE  BackendInv'
<1> USE DEF BackendInv, RequestFault
<1>1. RequestInv'
    BY NoRequestOK, RequestUpdate DEF EndRequest
<1>2. StoreInv'
    BY DEF StoreInv, storeVars
<1> QED
    BY <1>1, <1>2, FaultBound, QueueFrame, WorkerFrame DEF BoundsInv

LEMMA StageFaultInv ==
    ASSUME BackendInv, NEW t \in Tasks, StageFault(t)
    PROVE  BackendInv'
<1> USE DEF BackendInv, StageFault
<1>1. WorkerInv'
    BY SettleWorker DEF Errors, InPipeline
<1> QED
    BY <1>1, FaultBound, QueueFrame DEF StoreInv, storeVars, RequestInv, BoundsInv

LEMMA SaveFaultInv ==
    ASSUME BackendInv, NEW t \in Tasks, SaveFault(t)
    PROVE  BackendInv'
BY FaultBound, EndTaskInv DEF BackendInv, SaveFault, StoreInv, storeVars, RequestInv, BoundsInv

LEMMA CrashInv ==
    ASSUME BackendInv, Crash
    PROVE  BackendInv'
<1> USE DEF BackendInv, Crash
<1>1. QueueInv' /\ Live' = {}
    BY DiscardInv DEF Discard, Live, Waiting
<1>2. RequestInv'
    BY NoRequestOK DEF RequestInv, RequestOK
<1>3. WorkerInv'
    <2>1. WorkerOK(NoWorker)
        BY NewWorkerOK DEF NoWorker
    <2> QED
        BY <1>1, <2>1 DEF WorkerInv, WorkerOK
<1>4. BoundsInv'
    <2>1. crashes' \in 0..MaxCrashes
        BY BackendAssumption DEF BoundsInv
    <2>2. up' \in BOOLEAN
        OBVIOUS
    <2> QED
        BY <2>1, <2>2 DEF BoundsInv
<1> QED
    BY <1>1, <1>2, <1>3, <1>4 DEF StoreInv, storeVars

LEMMA StartupInv ==
    ASSUME BackendInv, Startup
    PROVE  BackendInv'
<1> USE DEF BackendInv, Startup
<1>1. StoreInv'
    <2>1. \A i \in Ids : Exists(i) => FailInterrupted(db[i]) \in Row
        BY FailInterruptedType DEF StoreInv, Exists
    <2> QED
        BY <2>1 DEF StoreInv, requestVars
<1> QED
    BY <1>1, QueueFrame, WorkerFrame DEF RequestInv, requestVars, BoundsInv

LEMMA StartupFaultInv ==
    ASSUME BackendInv, StartupFault
    PROVE  BackendInv'
BY FaultBound, QueueFrame, WorkerFrame
DEF BackendInv, StartupFault, StoreInv, storeVars, RequestInv, requestVars, BoundsInv

-----------------------------------------------------------------------------
LEMMA BackendInitInv == Init => BackendInv
<1> SUFFICES ASSUME Init PROVE BackendInv
    OBVIOUS
<1> USE DEF Init
<1>1. QueueInv /\ Live = {}
    BY QueueInitInv DEF QueueInit, Live, Waiting
<1>2. StoreInv /\ BoundsInv
    BY BackendAssumption DEF StoreInv, BoundsInv
<1>3. RequestInv
    BY NoRequestOK DEF RequestInv, RequestOK
<1>4. WorkerInv
    <2>1. WorkerOK(NoWorker)
        BY NewWorkerOK DEF NoWorker
    <2> QED
        BY <1>1, <2>1 DEF WorkerInv, WorkerOK
<1> QED
    BY <1>1, <1>2, <1>3, <1>4 DEF BackendInv

LEMMA BackendNextInv == BackendInv /\ [Next]_vars => BackendInv'
<1> SUFFICES ASSUME BackendInv, [Next]_vars PROVE BackendInv'
    OBVIOUS
<1>1. ASSUME NEW c \in Clients, BeginUpload(c) PROVE BackendInv'
    BY <1>1, BeginUploadInv
<1>2. ASSUME NEW c \in Clients, RequestStep(c) PROVE BackendInv'
    BY <1>2, RejectUploadInv, CheckDeviceInv, InsertRowInv, CommitRetryInv,
       SubmitAnalysisInv, RecordQueueFullInv, CommitDeleteInv DEF RequestStep
<1>3. ASSUME NEW c \in Clients, NEW i \in Ids, BeginRetry(c, i) \/ BeginDelete(c, i)
      PROVE  BackendInv'
    BY <1>3, BeginRetryInv, BeginDeleteInv
<1>4. ASSUME NEW c \in Clients, RequestFault(c) PROVE BackendInv'
    BY <1>4, RequestFaultInv
<1>5. ASSUME NEW t \in Tasks, StartTask(t) PROVE BackendInv'
    BY <1>5, StartTaskInv
<1>6. ASSUME NEW t \in Tasks, PipelineStep(t) PROVE BackendInv'
    BY <1>6, ReadStageInv, WriteStageInv, PipelineReturnsInv, PipelineRaisesInv
    DEF PipelineStep
<1>7. ASSUME NEW t \in Tasks, TimeOut(t) PROVE BackendInv'
    BY <1>7, TimeOutInv
<1>8. ASSUME NEW t \in Tasks, SaveStep(t) PROVE BackendInv'
    BY <1>8, ReadForSaveInv, SaveFailureInv, SaveResultInv DEF SaveStep
<1>9. ASSUME NEW t \in Tasks, StageFault(t) \/ SaveFault(t) PROVE BackendInv'
    BY <1>9, StageFaultInv, SaveFaultInv
<1>10. CASE Crash \/ Startup \/ StartupFault
    BY <1>10, CrashInv, StartupInv, StartupFaultInv
<1>11. CASE UNCHANGED vars
    BY <1>11, QueueFrame, WorkerFrame
    DEF vars, BackendInv, StoreInv, RequestInv, BoundsInv
<1> QED
    BY <1>1, <1>2, <1>3, <1>4, <1>5, <1>6, <1>7, <1>8, <1>9, <1>10, <1>11 DEF Next

(* The inductive invariant of the system. *)
THEOREM BackendInvariant == Safety => []BackendInv
BY BackendInitInv, BackendNextInv, PTL DEF Safety

(* Every variable keeps its type: a counter never leaves its range, a      *)
(* session never stores anything but a row, a slot is always found for a   *)
(* job that is let in.                                                     *)
THEOREM TypeCorrect == Safety => []TypeOK
<1>1. BackendInv => TypeOK
    BY DEF BackendInv, TypeOK, QueueInv, StoreInv, RequestInv, WorkerInv, BoundsInv
<1> QED
    BY <1>1, BackendInvariant, PTL

-----------------------------------------------------------------------------
(* A step of the system is a step of its queue, or none. *)
LEMMA QueueStep == BackendInv /\ [Next]_vars => [QueueNext]_queueVars
<1> SUFFICES ASSUME BackendInv, [Next]_vars, ~UNCHANGED queueVars
             PROVE  QueueNext
    OBVIOUS
<1>1. ASSUME NEW c \in Clients, SubmitAnalysis(c) PROVE QueueNext
    <2>1. Submit(FreeSlot)
        BY <1>1 DEF SubmitAnalysis
    <2>2. FreeSlot \in Tasks
        BY <2>1, FreeSlotType DEF Submit, BackendInv
    <2> QED
        BY <2>1, <2>2 DEF QueueNext
<1>2. ASSUME NEW t \in Tasks, StartTask(t) PROVE QueueNext
    BY <1>2 DEF StartTask, QueueNext
<1>3. ASSUME NEW t \in Tasks, SaveStep(t) \/ SaveFault(t) PROVE QueueNext
    BY <1>3 DEF SaveStep, ReadForSave, SaveFailure, SaveResult, SaveFault, EndTask, QueueNext
<1>4. CASE Crash
    BY <1>4 DEF Crash, QueueNext
<1>5. ASSUME NEW c \in Clients,
             \/ BeginUpload(c) \/ RejectUpload(c) \/ CheckDevice(c) \/ InsertRow(c)
             \/ CommitRetry(c) \/ RecordQueueFull(c) \/ CommitDelete(c) \/ RequestFault(c)
             \/ \E i \in Ids : BeginRetry(c, i) \/ BeginDelete(c, i)
      PROVE  FALSE
    BY <1>5 DEF BeginUpload, RejectUpload, CheckDevice, InsertRow, CommitRetry,
                RecordQueueFull, CommitDelete, RequestFault, BeginRetry, BeginDelete
<1>6. ASSUME NEW t \in Tasks, PipelineStep(t) \/ TimeOut(t) \/ StageFault(t)
      PROVE  FALSE
    BY <1>6 DEF PipelineStep, ReadStage, WriteStage, PipelineReturns, PipelineRaises,
                TimeOut, StageFault
<1>7. CASE Startup \/ StartupFault \/ UNCHANGED vars
    BY <1>7 DEF Startup, StartupFault, vars
<1> QED
    BY <1>1, <1>2, <1>3, <1>4, <1>5, <1>6, <1>7 DEF Next, RequestStep

(* The backend uses its queue as the queue is specified: whatever happens  *)
(* to requests, sessions, rows and pipelines, a job enters only through    *)
(* submit(), runs only with a permit, and leaves through the finally of    *)
(* _run.                                                                   *)
THEOREM BackendUsesQueue == Safety => QueueSafety
<1>1. Init => QueueInit
    BY DEF Init
<1> QED
    BY <1>1, QueueStep, BackendInvariant, PTL DEF Safety, QueueSafety

(* So the counter that decides about QUEUE_FULL is exact in the whole      *)
(* system: no failing session, timeout or deleted row makes a place in the *)
(* queue disappear.                                                        *)
THEOREM BackendPendingIsExact == Safety => []PendingCountsLive
BY BackendUsesQueue, PendingIsExact, PTL

(* Nor are the limits of the queue ever exceeded. *)
THEOREM BackendLimitsHold == Safety => []WithinLimits
BY BackendUsesQueue, LimitsHold, PTL

-----------------------------------------------------------------------------
(* A flush never creates a row: it changes the one that is there.          *)
LEMMA UpdatedKeepsMissing ==
    ASSUME StoreInv, NEW i, NEW snap, NEW new, db' = Updated(i, snap, new),
           NEW j \in Ids, db[j] = NoRow
    PROVE  db'[j] = NoRow
BY DEF Updated, StoreInv

(* A deleted analysis stays deleted: the worker's writes, the record of a  *)
(* refused submission, a late retry and the startup cleanup change rows    *)
(* that exist, and an INSERT takes an id that was never used.              *)
THEOREM DeletedIsFinal == Safety => DeletedStaysDeleted
<1> DEFINE Kept == \A i \in Ids : i <= lastId /\ db[i] = NoRow => db'[i] = NoRow
<1>1. BackendInv /\ [Next]_vars => [Kept]_db
    <2> SUFFICES ASSUME BackendInv, [Next]_vars, db' # db,
                        NEW i \in Ids, i <= lastId, db[i] = NoRow
                 PROVE  db'[i] = NoRow
        OBVIOUS
    <2> USE DEF BackendInv
    <2>1. ASSUME NEW c \in Clients, InsertRow(c) PROVE db'[i] = NoRow
        <3>1. i # lastId + 1
            BY DEF StoreInv, Ids
        <3> QED
            BY <2>1, <3>1 DEF InsertRow, StoreInv
    <2>2. ASSUME NEW c \in Clients, RecordQueueFull(c) \/ CommitRetry(c)
          PROVE  db'[i] = NoRow
        <3>1. \/ db' = db
              \/ db' = Updated(req[c].id, req[c].snap,
                                MarkFailed(req[c].snap, "queue full", NoStage))
              \/ db' = Updated(req[c].id, req[c].snap, PrepareRetry(req[c].snap))
            BY <2>2 DEF RecordQueueFull, CommitRetry
        <3> QED
            BY <3>1, UpdatedKeepsMissing, Zenon
    <2>3. ASSUME NEW c \in Clients, CommitDelete(c) PROVE db'[i] = NoRow
        BY <2>3 DEF CommitDelete, StoreInv
    <2>4. ASSUME NEW t \in Tasks, WriteStage(t) \/ SaveFailure(t) PROVE db'[i] = NoRow
        BY <2>4, UpdatedKeepsMissing DEF WriteStage, SaveFailure
    <2>5. ASSUME NEW t \in Tasks, SaveResult(t) PROVE db'[i] = NoRow
        BY <2>5 DEF SaveResult, StorableResult, Exists, StoreInv
    <2>6. CASE Startup
        BY <2>6 DEF Startup, Exists
    <2>7. ASSUME NEW c \in Clients,
                 \/ BeginUpload(c) \/ RejectUpload(c) \/ CheckDevice(c)
                 \/ SubmitAnalysis(c) \/ RequestFault(c)
                 \/ \E j \in Ids : BeginRetry(c, j) \/ BeginDelete(c, j)
          PROVE  FALSE
        BY <2>7 DEF BeginUpload, RejectUpload, CheckDevice, SubmitAnalysis, RequestFault,
                    BeginRetry, BeginDelete, storeVars
    <2>8. ASSUME NEW t \in Tasks,
                 \/ StartTask(t) \/ ReadStage(t) \/ PipelineReturns(t) \/ PipelineRaises(t)
                 \/ TimeOut(t) \/ ReadForSave(t) \/ StageFault(t) \/ SaveFault(t)
          PROVE  FALSE
        BY <2>8 DEF StartTask, ReadStage, PipelineReturns, PipelineRaises, TimeOut,
                    ReadForSave, StageFault, SaveFault, storeVars
    <2>9. CASE Crash \/ StartupFault \/ UNCHANGED vars
        BY <2>9 DEF Crash, StartupFault, vars, storeVars
    <2> QED
        BY <2>1, <2>2, <2>3, <2>4, <2>5, <2>6, <2>7, <2>8, <2>9
        DEF Next, RequestStep, PipelineStep, SaveStep
<1> QED
    BY <1>1, BackendInvariant, PTL DEF Safety, DeletedStaysDeleted

-----------------------------------------------------------------------------
(* The uploads on disk *)

(* VideosMatchRows is not inductive alone: the id of an INSERT must be one *)
(* that no row has and no handler is deleting.                             *)
VideoInv ==
    /\ \A i \in Ids : Exists(i) => i <= lastId
    /\ \A c \in Clients : req[c].pc = "delete" => req[c].id <= lastId
    /\ VideosMatchRows

(* A step that no upload, row or deletion comes or goes with.              *)
LEMMA VideosKept ==
    ASSUME VideoInv, UNCHANGED <<videos, lastId>>,
           \A i \in Ids : Exists(i)' <=> Exists(i),
           \A c \in Clients : req'[c] = req[c] \/
                /\ Uploading(c)' <=> Uploading(c)
                /\ req[c].pc # "delete" /\ req'[c].pc # "delete",
           crashes' = 0 => crashes = 0, faults' = 0 => faults = 0
    PROVE  VideoInv'
<1>1. \A c \in Clients : /\ Uploading(c)' <=> Uploading(c)
                         /\ req'[c].pc = "delete" <=> req[c].pc = "delete"
                         /\ req'[c].pc = "delete" => req'[c].id = req[c].id
    BY DEF Uploading
<1>2. \A i \in Ids : Deleting(i)' <=> Deleting(i)
    BY <1>1 DEF Deleting
<1> QED
    BY <1>1, <1>2 DEF VideoInv, VideosMatchRows

(* One request moves on, and with it at most the upload v of that step.    *)
LEMMA BeginUploadVideos ==
    ASSUME BackendInv, VideoInv, NEW c \in Clients, BeginUpload(c)
    PROVE  VideoInv'
<1>1. /\ req'[c].pc = "upload" /\ req[c].pc = "idle"
      /\ \A d \in Clients : d # c => req'[d] = req[d]
    BY DEF BeginUpload, BackendInv, RequestInv, Request
<1>2. UNCHANGED <<db, lastId, crashes, faults>> /\ videos' = videos \cup {c}
    BY DEF BeginUpload, storeVars, boundVars
<1>3. \A i \in Ids : Deleting(i)' <=> Deleting(i)
    BY <1>1 DEF Deleting
<1> QED
    BY <1>1, <1>2, <1>3, BackendAssumption DEF VideoInv, VideosMatchRows, Uploading, Exists

LEMMA UploadDropped ==
    ASSUME BackendInv, VideoInv, NEW c \in Clients, Uploading(c), EndRequest(c),
           videos' = videos \ {c}, UNCHANGED <<db, lastId, crashes, faults>>
    PROVE  VideoInv'
<1>1. req'[c].pc = "idle" /\ \A d \in Clients : d # c => req'[d] = req[d]
    BY DEF EndRequest, NoRequest, BackendInv, RequestInv
<1>2. \A i \in Ids : Deleting(i)' <=> Deleting(i)
    BY <1>1 DEF Deleting, Uploading
<1> QED
    BY <1>1, <1>2, BackendAssumption DEF VideoInv, VideosMatchRows, Uploading, Exists

LEMMA InsertRowVideos ==
    ASSUME BackendInv, VideoInv, NEW c \in Clients, InsertRow(c)
    PROVE  VideoInv'
<1>0. lastId + 1 \in Ids /\ lastId \in Nat
    BY BackendAssumption DEF InsertRow, BackendInv, StoreInv, Ids
<1> PICK i \in Ids : i = lastId + 1
    BY <1>0
<1>1. /\ db'[i] = NewRow(DeviceOf[c]) /\ \A j \in Ids : j # i => db'[j] = db[j]
      /\ videos' = (videos \ {c}) \cup {i} /\ lastId' = i
      /\ UNCHANGED <<crashes, faults>>
    BY DEF InsertRow, BackendInv, StoreInv, boundVars
<1>2. /\ req'[c].pc = "submit" /\ req[c].pc = "insert"
      /\ \A d \in Clients : d # c => req'[d] = req[d]
    BY DEF InsertRow, BackendInv, RequestInv
<1>3. Exists(i)' /\ \A j \in Ids : j # i => (Exists(j)' <=> Exists(j))
    BY <1>1, NewRowType, RowAssumption, BackendAssumption DEF Exists
<1>4. ~Deleting(i)
    <2>1. ~(i <= lastId)
        BY <1>0
    <2> QED
        BY <2>1 DEF VideoInv, Deleting
<1>5. \A j \in Ids : Deleting(j)' <=> Deleting(j)
    BY <1>2 DEF Deleting
<1>6. \A n \in Ids : n <= lastId => n <= lastId'
    BY <1>0, <1>1 DEF Ids
<1>7. lastId' <= lastId'
    BY <1>0, <1>1
<1>8. \A d \in Clients : req'[d].pc = "delete" => req'[d].id <= lastId'
    BY <1>2, <1>6 DEF VideoInv, BackendInv, RequestInv, RequestOK
<1>9. \A j \in Ids : Exists(j)' => j <= lastId'
    BY <1>1, <1>3, <1>6, <1>7 DEF VideoInv
<1>10. VideosMatchRows'
    BY <1>1, <1>2, <1>3, <1>4, <1>5, BackendAssumption DEF VideoInv, VideosMatchRows, Uploading
<1> QED
    BY <1>8, <1>9, <1>10 DEF VideoInv

LEMMA BeginDeleteVideos ==
    ASSUME BackendInv, VideoInv, NEW c \in Clients, NEW i \in Ids, BeginDelete(c, i)
    PROVE  VideoInv'
<1>1. /\ req'[c].pc = "delete" /\ req'[c].id = i /\ req[c].pc = "idle"
      /\ \A d \in Clients : d # c => req'[d] = req[d]
    BY DEF BeginDelete, BackendInv, RequestInv
<1>2. /\ UNCHANGED <<db, lastId, crashes, faults>> /\ videos' = videos \ {i}
      /\ Exists(i)
    BY DEF BeginDelete, Owns, storeVars, boundVars
<1>3. Deleting(i)' /\ \A j \in Ids : j # i => (Deleting(j)' <=> Deleting(j))
    BY <1>1 DEF Deleting
<1> QED
    BY <1>1, <1>2, <1>3, BackendAssumption DEF VideoInv, VideosMatchRows, Uploading, Exists

LEMMA CommitDeleteVideos ==
    ASSUME BackendInv, VideoInv, NEW c \in Clients, CommitDelete(c)
    PROVE  VideoInv'
<1>0. req[c].id \in Ids /\ req[c].pc = "delete"
    BY DEF CommitDelete, BackendInv, RequestInv, RequestOK
<1> PICK i \in Ids : i = req[c].id
    BY <1>0
<1>1. req'[c].pc = "idle" /\ \A d \in Clients : d # c => req'[d] = req[d]
    BY DEF CommitDelete, EndRequest, NoRequest, BackendInv, RequestInv
<1>2. /\ UNCHANGED <<videos, lastId, crashes, faults>>
      /\ db'[i] = NoRow /\ \A j \in Ids : j # i => db'[j] = db[j]
    BY DEF CommitDelete, boundVars, BackendInv, StoreInv
<1>3. Deleting(i) /\ \A j \in Ids : j # i => (Deleting(j)' <=> Deleting(j))
    BY <1>0, <1>1 DEF Deleting
<1>4. ~Exists(i)' /\ \A j \in Ids : j # i => (Exists(j)' <=> Exists(j))
    BY <1>2 DEF Exists
<1>5. \A d \in Clients : Uploading(d)' <=> Uploading(d)
    BY <1>0, <1>1 DEF Uploading
<1> QED
    BY <1>1, <1>2, <1>3, <1>4, <1>5 DEF VideoInv, VideosMatchRows

(* A request that ends without its commit takes its upload with it, or     *)
(* else the process has crashed.                                           *)
LEMMA VideosAfterFault ==
    ASSUME VideoInv, UNCHANGED <<db, lastId>>, videos' \subseteq videos,
           \A c \in Clients : \/ req'[c] = req[c]
                              \/ /\ req'[c].pc = "idle"
                                 /\ crashes' = 0 => c \notin videos',
           crashes' = 0 => crashes = 0,
           crashes' # 0 \/ faults' # 0
    PROVE  VideoInv'
<1>1. \A i \in Ids : Deleting(i)' => Deleting(i)
    BY DEF Deleting
<1>2. \A i \in Ids : i \in videos' => Exists(i)' /\ ~Deleting(i)'
    BY <1>1 DEF VideoInv, VideosMatchRows, Exists
<1>3. crashes' = 0 => \A c \in Clients : c \in videos' => Uploading(c)'
    BY DEF VideoInv, VideosMatchRows, Uploading
<1>4. VideosMatchRows'
    BY <1>2, <1>3 DEF VideosMatchRows
<1> QED
    BY <1>4 DEF VideoInv, Exists

(* A flush leaves every row where it is. *)
LEMMA UpdatedKeepsRows ==
    ASSUME StoreInv, NEW i \in Ids, NEW snap \in Row, NEW new \in Row,
           db' = Updated(i, snap, new)
    PROVE  \A j \in Ids : Exists(j)' <=> Exists(j)
<1>1. db[i] # NoRow => Merged(db[i], snap, new) # NoRow
    BY MergedType, RowAssumption DEF StoreInv
<1> QED
    BY <1>1 DEF Updated, StoreInv, Exists

LEMMA VideoNextInv == BackendInv /\ VideoInv /\ [Next]_vars => VideoInv'
<1> SUFFICES ASSUME BackendInv, VideoInv, [Next]_vars PROVE VideoInv'
    OBVIOUS
<1>1. ASSUME NEW c \in Clients, RejectUpload(c) PROVE VideoInv'
    BY <1>1, UploadDropped DEF RejectUpload, Uploading, storeVars, boundVars
<1>2. ASSUME NEW c \in Clients, CheckDevice(c) PROVE VideoInv'
    <2>1. CASE EndRequest(c) /\ videos' = videos \ {c}
        BY <1>2, <2>1, UploadDropped DEF CheckDevice, Uploading, storeVars, boundVars
    <2>2. CASE req' = [req EXCEPT ![c].pc = "insert"] /\ UNCHANGED videos
        <3>1. /\ req[c].pc = "upload" /\ req'[c].pc = "insert"
              /\ \A d \in Clients : d # c => req'[d] = req[d]
            BY <1>2, <2>2 DEF CheckDevice, BackendInv, RequestInv, Request
        <3> QED
            BY <1>2, <2>2, <3>1, VideosKept
            DEF CheckDevice, Uploading, Exists, storeVars, boundVars
    <2> QED
        BY <1>2, <2>1, <2>2 DEF CheckDevice
<1>3. ASSUME NEW c \in Clients, CommitRetry(c) PROVE VideoInv'
    <2>1. /\ req[c].pc = "retry" /\ req'[c].pc \in {"submit", "idle"}
          /\ \A d \in Clients : d # c => req'[d] = req[d]
        BY <1>3 DEF CommitRetry, EndRequest, NoRequest, BackendInv, RequestInv, Request
    <2>2. \A j \in Ids : Exists(j)' <=> Exists(j)
        <3>1. /\ req[c].id \in Ids /\ req[c].snap \in Row
              /\ PrepareRetry(req[c].snap) \in Row
            BY <2>1, PrepareRetryType DEF BackendInv, RequestInv, RequestOK
        <3>2. \/ db' = Updated(req[c].id, req[c].snap, PrepareRetry(req[c].snap))
              \/ db' = db
            BY <1>3 DEF CommitRetry
        <3> QED
            BY <3>1, <3>2, UpdatedKeepsRows DEF BackendInv, Exists
    <2> QED
        BY <1>3, <2>1, <2>2, VideosKept DEF CommitRetry, Uploading, boundVars
<1>4. ASSUME NEW c \in Clients, SubmitAnalysis(c) PROVE VideoInv'
    <2>1. /\ req[c].pc = "submit" /\ req'[c].pc \in {"full", "idle"}
          /\ \A d \in Clients : d # c => req'[d] = req[d]
        BY <1>4 DEF SubmitAnalysis, EndRequest, NoRequest, BackendInv, RequestInv, Request
    <2> QED
        BY <1>4, <2>1, VideosKept DEF SubmitAnalysis, Uploading, Exists, storeVars, boundVars
<1>5. ASSUME NEW c \in Clients, RecordQueueFull(c) PROVE VideoInv'
    <2>1. /\ req[c].pc = "full" /\ req'[c].pc = "idle"
          /\ \A d \in Clients : d # c => req'[d] = req[d]
        BY <1>5 DEF RecordQueueFull, EndRequest, NoRequest, BackendInv, RequestInv
    <2>2. \A j \in Ids : Exists(j)' <=> Exists(j)
        <3> DEFINE new == MarkFailed(req[c].snap, "queue full", NoStage)
        <3>1. req[c].id \in Ids /\ req[c].snap \in Row /\ new \in Row
            BY <2>1, MarkFailedType DEF BackendInv, RequestInv, RequestOK, Errors
        <3>2. db' = Updated(req[c].id, req[c].snap, new) \/ db' = db
            BY <1>5 DEF RecordQueueFull
        <3> HIDE DEF new
        <3> QED
            BY <3>1, <3>2, UpdatedKeepsRows DEF BackendInv, Exists
    <2> QED
        BY <1>5, <2>1, <2>2, VideosKept DEF RecordQueueFull, Uploading, boundVars
<1>6. ASSUME NEW c \in Clients, NEW i \in Ids, BeginRetry(c, i) PROVE VideoInv'
    <2>1. /\ req[c].pc = "idle" /\ req'[c].pc = "retry"
          /\ \A d \in Clients : d # c => req'[d] = req[d]
        BY <1>6 DEF BeginRetry, BackendInv, RequestInv
    <2> QED
        BY <1>6, <2>1, VideosKept DEF BeginRetry, Uploading, Exists, storeVars, boundVars
<1>7. ASSUME NEW c \in Clients, RequestFault(c) PROVE VideoInv'
    <2>1. faults' # 0
        BY <1>7 DEF RequestFault, CountFault, BackendInv, BoundsInv
    <2>2. /\ req'[c].pc = "idle" /\ \A d \in Clients : d # c => req'[d] = req[d]
          /\ c \notin videos' /\ videos' \subseteq videos
          /\ UNCHANGED <<db, lastId, crashes>>
        BY <1>7 DEF RequestFault, EndRequest, NoRequest, BackendInv, RequestInv, storeVars
    <2>3. \A d \in Clients : \/ req'[d] = req[d]
                             \/ req'[d].pc = "idle" /\ d \notin videos'
        BY <2>2
    <2> QED
        BY <2>1, <2>2, <2>3, VideosAfterFault
<1>8. ASSUME NEW t \in Tasks, WriteStage(t) PROVE VideoInv'
    <2> DEFINE w == task[t]
               new == MarkStage(w.snap, PipelineStages[w.k + 1])
    <2>1. t \in running /\ w.pc = "stage"
        BY <1>8 DEF WriteStage
    <2>2. w \in Worker /\ WorkerOK(w) /\ w.id \in Ids /\ w.snap \in Row
        BY <2>1, RunningWorker DEF BackendInv, WorkerOK
    <2>3. w.k + 1 \in 1..Len(PipelineStages)
        BY <2>1, <2>2, BackendAssumption, LenProperties DEF Worker, WorkerOK
    <2>4. new \in Row
        BY <2>2, <2>3, BackendAssumption, ElementOfSeq, MarkStageType
    <2>5. db' = Updated(w.id, w.snap, new) \/ db' = db
        BY <1>8 DEF WriteStage
    <2> HIDE DEF w, new
    <2>6. \A j \in Ids : Exists(j)' <=> Exists(j)
        BY <2>2, <2>4, <2>5, UpdatedKeepsRows DEF BackendInv, Exists
    <2> QED
        BY <1>8, <2>6, VideosKept DEF WriteStage, boundVars
<1>9. ASSUME NEW t \in Tasks, SaveFailure(t) PROVE VideoInv'
    <2> DEFINE w == task[t]
               new == MarkFailed(w.snap, w.outcome.error, w.outcome.stage)
    <2>1. t \in running /\ w.pc = "saving" /\ w.outcome.error # NoError
        BY <1>9 DEF SaveFailure
    <2>2. w \in Worker /\ w.id \in Ids /\ w.snap \in Row
        BY <2>1, RunningWorker DEF BackendInv, WorkerOK
    <2>3. new \in Row
        BY <2>1, <2>2, MarkFailedType DEF Worker, Outcome
    <2>4. db' = Updated(w.id, w.snap, new) \/ db' = db
        BY <1>9 DEF SaveFailure
    <2> HIDE DEF w, new
    <2>5. \A j \in Ids : Exists(j)' <=> Exists(j)
        BY <2>2, <2>3, <2>4, UpdatedKeepsRows DEF BackendInv, Exists
    <2> QED
        BY <1>9, <2>5, VideosKept DEF SaveFailure, boundVars
<1>10. ASSUME NEW t \in Tasks, SaveResult(t) PROVE VideoInv'
    <2> DEFINE w == task[t]
    <2>1. t \in running /\ w.pc = "saving"
        BY <1>10 DEF SaveResult
    <2>2. w.id \in Ids /\ w.snap \in Row
        BY <2>1, RunningWorker DEF BackendInv, WorkerOK
    <2>3. \/ Exists(w.id) /\ db' = [db EXCEPT ![w.id] = MergedCompletion(@, w.snap)]
          \/ db' = db
        BY <1>10 DEF SaveResult, StorableResult
    <2> HIDE DEF w
    <2>4. Exists(w.id) => MergedCompletion(db[w.id], w.snap) \in Row
        BY <2>2, MergedCompletionType DEF BackendInv, StoreInv, Exists
    <2>5. \A j \in Ids : Exists(j)' <=> Exists(j)
        BY <2>2, <2>3, <2>4, RowAssumption DEF BackendInv, StoreInv, Exists
    <2> QED
        BY <1>10, <2>5, VideosKept DEF SaveResult, boundVars
<1>11. ASSUME NEW t \in Tasks,
              \/ StartTask(t) \/ ReadStage(t) \/ PipelineReturns(t) \/ PipelineRaises(t)
              \/ TimeOut(t) \/ ReadForSave(t)
       PROVE  VideoInv'
    <2>1. UNCHANGED <<db, lastId, videos, req, crashes, faults>>
        BY <1>11 DEF StartTask, ReadStage, PipelineReturns, PipelineRaises, TimeOut,
                     ReadForSave, storeVars, boundVars
    <2> QED
        BY <2>1, VideosKept DEF Exists
<1>12. ASSUME NEW t \in Tasks, StageFault(t) \/ SaveFault(t) PROVE VideoInv'
    <2>1. faults' # 0 /\ UNCHANGED <<db, lastId, req, videos, crashes>>
        BY <1>12 DEF StageFault, SaveFault, CountFault, BackendInv, BoundsInv, storeVars
    <2> QED
        BY <2>1, VideosAfterFault
<1>13. CASE Crash
    BY <1>13, VideosAfterFault DEF Crash, NoRequest, storeVars, BackendInv, BoundsInv
<1>14. CASE Startup
    <2>1. \A i \in Ids : Exists(i)' <=> Exists(i)
        BY <1>14, FailInterruptedType, RowAssumption DEF Startup, Exists, BackendInv, StoreInv
    <2> QED
        BY <1>14, <2>1, VideosKept DEF Startup, requestVars
<1>15. CASE StartupFault
    BY <1>15, VideosAfterFault DEF StartupFault, CountFault, storeVars, requestVars,
                                   BackendInv, BoundsInv
<1>16. CASE UNCHANGED vars
    BY <1>16, VideosKept DEF vars, Exists
<1> QED
    BY <1>1, <1>2, <1>3, <1>4, <1>5, <1>6, <1>7, <1>8, <1>9, <1>10, <1>11, <1>12, <1>13,
       <1>14, <1>15, <1>16, BeginUploadVideos, InsertRowVideos, BeginDeleteVideos,
       CommitDeleteVideos
    DEF Next, RequestStep, PipelineStep, SaveStep

(* A deleted analysis leaves no video, only a crash leaves an upload, and  *)
(* while nothing crashes or fails no retry finds its video gone, whatever  *)
(* the requests of a device do to each other: this needs no assumption on  *)
(* clients.                                                                *)
THEOREM VideosStay == Safety => []VideosMatchRows
<1>1. Init => VideoInv
    BY BackendAssumption DEF Init, VideoInv, VideosMatchRows, Exists, NoRequest, Uploading
<1>2. VideoInv => VideosMatchRows
    BY DEF VideoInv
<1> QED
    BY <1>1, <1>2, VideoNextInv, BackendInvariant, PTL DEF Safety
=============================================================================
