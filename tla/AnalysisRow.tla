---------------------------- MODULE AnalysisRow ----------------------------
(***************************************************************************)
(* One row of the table `analysis`: its columns, the state transitions     *)
(* AnalysisService applies to it in memory, the CHECK constraints the      *)
(* database holds every write against, and what an ORM flush does with a   *)
(* row object that was read from an older snapshot.                        *)
(*                                                                         *)
(* Abstracted: the wording of error_message (only which of the five causes *)
(* wrote it), completed_at (only whether it is NULL), and the columns that *)
(* carry a result (scores, occupancy, thumbnail, risk factors, analysis    *)
(* text), which are written and reset together: `results` says whether     *)
(* they hold a result.                                                     *)
(***************************************************************************)
EXTENDS Naturals

CONSTANTS
    MaxRetryCount,  \* MAX_RETRY_COUNT
    Devices,        \* the X-Device-Id values
    NoRow           \* what a query for a missing row returns

Statuses == {"PENDING", "PROCESSING", "COMPLETED", "FAILED"}

ActiveStatuses == {"PENDING", "PROCESSING"}

\* The stages in the order a pipeline reports them, with the progress shown on entry.
StageProgress ==
    [FRAME_EXTRACTION     |-> 10,
     OBJECT_DETECTION     |-> 20,
     OBJECT_TRACKING      |-> 55,
     FRAME_SELECTION      |-> 65,
     RISK_MARKING         |-> 72,
     SCORE_CALCULATION    |-> 78,
     ENVIRONMENT_ANALYSIS |-> 82]

Stages == {"FRAME_EXTRACTION", "OBJECT_DETECTION", "OBJECT_TRACKING",
           "FRAME_SELECTION", "RISK_MARKING", "SCORE_CALCULATION",
           "ENVIRONMENT_ANALYSIS"}

NoStage == "no stage"   \* NULL in the column, None in Python
NoError == "no error"

\* TIMEOUT_MESSAGE, a PipelineError's message, INTERNAL_MESSAGE,
\* QUEUE_FULL_MESSAGE and RESTART_MESSAGE.
Errors == {"timeout", "pipeline", "internal", "queue full", "restart"}

Row == [device:    Devices,
        status:    Statuses,
        stage:     Stages \cup {NoStage},
        progress:  0..100,
        error:     Errors \cup {NoError},
        retries:   0..MaxRetryCount,
        completed: BOOLEAN,
        results:   BOOLEAN]

ASSUME RowAssumption ==
    /\ MaxRetryCount \in Nat
    /\ NoRow \notin Row

-----------------------------------------------------------------------------
(* The progress a status and a stage stand for.  The code raises for       *)
(* PROCESSING without a stage, which no caller passes.                     *)
ProgressFor(status, stage) ==
    CASE status = "COMPLETED" -> 100
      [] status = "PENDING"   -> 0
      [] status \in {"PROCESSING", "FAILED"} ->
            IF stage = NoStage THEN 0 ELSE StageProgress[stage]

IsActive(r) == r.status \in ActiveStatuses

NewRow(d) ==
    [device |-> d, status |-> "PENDING", stage |-> NoStage, progress |-> 0,
     error |-> NoError, retries |-> 0, completed |-> FALSE, results |-> FALSE]

\* completed_at is left alone: a mark_stage on a row that was COMPLETED keeps it.
MarkStage(r, s) ==
    [r EXCEPT !.status   = "PROCESSING",
              !.stage    = s,
              !.progress = ProgressFor("PROCESSING", s),
              !.error    = NoError]

MarkCompleted(r) ==
    [r EXCEPT !.status    = "COMPLETED",
              !.stage     = NoStage,
              !.progress  = ProgressFor("COMPLETED", NoStage),
              !.error     = NoError,
              !.completed = TRUE,
              !.results   = TRUE]

\* Mutant: a failure that did not say where it happened resets the stage and the
\* progress the client has already seen.
MarkFailedFromScratch(r, e, s) ==
    [r EXCEPT !.status    = "FAILED",
              !.error     = e,
              !.completed = FALSE,
              !.stage     = s,
              !.progress  = ProgressFor("FAILED", s)]

\* Without a stage the row keeps the one it reached: where it failed must stay visible.
MarkFailed(r, e, s) ==
    [r EXCEPT !.status    = "FAILED",
              !.error     = e,
              !.completed = FALSE,
              !.stage     = IF s = NoStage THEN @ ELSE s,
              !.progress  = IF s = NoStage THEN @ ELSE ProgressFor("FAILED", s)]

\* Mutant: a completed analysis may be run again.
CanRetryFinished(r, deviceHasActive) ==
    /\ ~IsActive(r)
    /\ r.retries < MaxRetryCount
    /\ ~deviceHasActive

\* canRetry, and the three guards of prepare_retry.
CanRetry(r, deviceHasActive) ==
    /\ r.status = "FAILED"
    /\ r.retries < MaxRetryCount
    /\ ~deviceHasActive

\* Mutant: the retry keeps the error text of the attempt before.
PrepareRetryKeepsError(r) ==
    [r EXCEPT !.status = "PENDING", !.stage = NoStage, !.progress = 0,
              !.retries = @ + 1, !.completed = FALSE, !.results = FALSE]

PrepareRetry(r) ==
    [r EXCEPT !.status    = "PENDING",
              !.stage     = NoStage,
              !.progress  = 0,
              !.error     = NoError,
              !.retries   = @ + 1,
              !.completed = FALSE,
              !.results   = FALSE]

\* cleanup_interrupted: one UPDATE of the two columns, stage and progress kept.
FailInterrupted(r) ==
    [r EXCEPT !.status = "FAILED", !.error = "restart"]

-----------------------------------------------------------------------------
(* The CHECK constraints over several columns (the ranges of the single    *)
(* columns are in Row).                                                    *)
RowChecks(r) ==
    /\ r.status = "PROCESSING" => r.stage # NoStage
    /\ r.status \in {"PENDING", "COMPLETED"} => r.stage = NoStage
    /\ r.status = "PENDING" => r.progress = 0
    /\ r.status = "COMPLETED" => r.progress = 100
    /\ (r.status = "COMPLETED") <=> r.completed
    /\ (r.status = "FAILED") <=> (r.error # NoError)
    /\ r.retries \in 0..MaxRetryCount

(* A flush sends UPDATE with the columns whose value differs from the one   *)
(* that was loaded; every other column keeps what is in the table by then.  *)
Merged(current, snap, new) ==
    [f \in DOMAIN current |-> IF new[f] # snap[f] THEN new[f] ELSE current[f]]

\* completed_at = now and the result columns differ from any earlier value.
MergedCompletion(current, snap) ==
    [Merged(current, snap, MarkCompleted(snap)) EXCEPT !.completed = TRUE,
                                                       !.results   = TRUE]
=============================================================================
