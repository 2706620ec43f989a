# PetFit backend: TLA+ models, model checking and proofs

PetFit takes a short video of a room, has a pipeline of neural networks and rules look
for hazards to a pet, and serves the result.  The backend is one Python process: FastAPI
handlers and background workers are coroutines of one event loop, next to a MySQL database
and a directory of files.  The work queue lives in the process and dies with it; the rows
in the database survive.  Most of what can go wrong lies between these two.

## Inventory

| component | state it keeps | operations | who it talks to |
|---|---|---|---|
| work queue, `app/services/queue.py` | `_pending`, `_tasks`, a semaphore | `submit`, `is_full`, `_run`, `_execute`, `drain` | runs a `Pipeline`, opens a session per stage and one for the outcome |
| life cycle service, `app/services/analysis_service.py` | none (works on a session) | `create`, `mark_stage`, `mark_completed`, `mark_failed`, `prepare_retry`, `delete`, `can_retry`, `cleanup_interrupted`, `cleanup_orphan_images` | repository, storage |
| repository and tables, `app/services/repository.py`, `app/models/*`, `app/db/session.py` | tables `analysis`, `detected_object`, `recommendation` | queries, `fail_all_active`, `clear_children`, cascade; CHECK and UNIQUE constraints | MySQL (REPEATABLE READ) |
| endpoints, `app/api/v1/analysis.py`, `app/api/deps.py` | one session per request | POST, retry, DELETE, three GETs | queue, service, storage |
| startup and shutdown, `app/main.py` | the application state | `lifespan` | service, queue |
| storage, `app/services/storage.py` | files `videos/`, `images/` | `save_video`, `save_image`, `delete`, `list_images` | disk |
| statuses and stages, `app/schemas/enums.py` | none | `progress_for` | |
| pipeline, `app/ai/analysis_pipeline.py`, `app/ai/stub.py`, `app/ai/pipeline.py` | images it has written | `run`, `_discard`, `select_analysis_frames` | vision, environment analysis, storage |
| vision, `app/ai/vision/*` | the detections of one video | sampling, detection, identity assignment, occupancy, marking | threads, storage |
| environment analysis, `app/ai/environment_analysis.py`, `app/ai/validation.py` | the attempts of one call | `analyze`, `validate` | language model |
| language model, `app/ai/llm/*` | the loaded model, two locks | load, generate | threads |
| scoring and rules, `app/ai/score_generator.py`, `app/rules/*` | none | `generate` | |
| geometry, rounding, `app/utils/*` | none | `union_area`, rounding | |

What is hard here: coroutines that interleave at every await, with checks made in one
transaction step and relied on in a later one; rows read in a session and flushed after
others have written them; a time limit that cancels a pipeline at any await; final writes
that fail and are only logged; a queue that is lost in a crash while its rows are not;
files that no transaction covers; threads that outlive the coroutine that started them; and
a chain of roundings, thresholds, cuts and repairs whose end the constraints of three tables
judge.  `PROJECT.json` lists the hazards one by one, at their
lines, with the properties that would catch them.

What makes each part correct: the queue counts exactly the jobs that exist, respects its
two limits and starves nobody; a device has one analysis under way; an analysis that is
under way has exactly one owner (a worker, or a handler about to submit it) and ends; a
completed one is final, a deleted one gone; a retry leaves nothing of the attempt before;
progress does not fall within an attempt; no write is refused by the database; no upload is
lost or left behind.  A call of the text model holds a lock, a thread and its images only
while it needs them, and the loop around it asks exactly as often as it may.  The data that
reaches the tables fits them, is about the objects that were detected and the score that is
stored, and does not depend on accidents such as the order of a list.

## Modules

| module | what it is |
|---|---|
| `AnalysisRow` | one row of `analysis`: columns, the transitions of `AnalysisService`, the CHECK constraints over several columns, and what a flush of a stale object does (`Merged`) |
| `AnalysisQueue` | the queue alone: `Submit`, `Acquire`, `Finish`, `Discard`; FIFO as asyncio's semaphore is |
| `AnalysisLifecycle` | the abstract specification: the life of an analysis in the eyes of its owner, with no queue, no session and no crash |
| `PetFitBackend` | the composition: requests, workers, tables, videos, failing sessions, crash and startup.  It EXTENDS the first two, whose actions are conjuncts of its own, and maps its rows to `AnalysisLifecycle` (`lifeOf`) |
| `ImageFiles` | the image files: the threads that write them, the pipeline that hands them over or discards them, the rows that refer to them, retry, delete, and the cleanup of orphans at startup |
| `RegenerationLoop` | the abstract specification of stage 12: ask until an answer is valid, at most so often |
| `EnvironmentAnalysis` | stage 12 on the local model: the loop of `analyze`, the thread pool, the lazy load of the weights, both locks, the temporary images, cancellation.  Implements `RegenerationLoop` |
| `AnalysisData` | the composition of the data path: from the request through the twelve stages, the save and the two responses, with the modules below as its operators |
| `FrameSampling` | stages 1 to 3: the moments to sample, rounding to even, the first frame after each moment |
| `Tracking` | stages 4 to 6: what the detector's results become, floor occupancy, both trackers, adoption of tracks |
| `Imaging` | stages 8 to 10: the frame of the thumbnail, marks and crops, the frames kept for the text model |
| `Rules`, `Scoring` | the tables of `app/rules` and the Pet Fit Score |
| `ResponseValidation` | what `validate` rejects, repairs and accepts of the model's text |
| `Responses` | what the request schemas refuse, the queries behind the responses, pages |
| `Boxes`, `Rounding`, `Lists` | geometry, both roundings, Python's sorts and comprehensions |
| `MCPetFitBackend`, `MCAnalysisData` | values of the constants for TLC |
| `AnalysisQueueProofs`, `ImageFilesProofs`, `EnvironmentAnalysisProofs` | the theorems about a module |
| `PetFitBackendProofs` | the theorems about rows (`AnalysisRow`) and about the backend, for any clients |
| `PetFitOwnershipProofs` | the theorems about `PetFitBackend` whose clients send one request of a device at a time, and the refinement: `PetFitBackend` implements `AnalysisLifecycle` |
| `ListsProofs` | lemmas about `Lists` and the folds, sums and flattening of the community modules |
| `AnalysisDataProofs` | the theorems about `AnalysisData` that follow an answer, a history and the moments of a video, and the arithmetic of the data path |
| `VisionProofs` | the theorems about `AnalysisData` that follow the detections: tracks, objects, areas, scores, the prompt, the result that is saved |

How they compose: `PetFitBackend` treats the pipeline as any program that reports stages and
ends; `EnvironmentAnalysis` opens the one stage of it that calls threads, and an answer there
is only valid or rejected for a reason; `AnalysisData` opens the stages as functions of their
data, one analysis at a time, and `ResponseValidation` says which answers are valid.

**State and code.**  `db` and `children` are the tables, `lastId` the AUTO_INCREMENT,
`videos` the files of `videos/`, `pending`, `waiting`, `running` the queue's counter, the
semaphore's waiters and the coroutines inside it.  `req[c]` is the request of client `c`:
`pc` is what its handler does next and `snap` the row object its session holds.  `task[t]`
is a worker: what `_execute` does next, the stages entered (`k`), the row object of its open
session and the outcome it will store.  Slots of `Tasks` stand for `asyncio.Task` objects
and are reused when a task has ended.

**Granularity.**  Code between two awaits is atomic.  A transaction is two steps: the first
takes the snapshot and evaluates the checks on it, the second flushes and commits.  The
flush sends the columns that differ from the loaded object, so it merges with what others
have committed since; it is refused when a CHECK fails, when the row is gone (an UPDATE of
no row is a `StaleDataError`) or when children exist already.  Files are deleted in the
step that makes the checks: the code does so before the flush.  A session that fails
(`RequestFault`, `StageFault`, `SaveFault`, `StartupFault`) commits nothing.  The pipeline
is any implementation of `Pipeline`: it reports stages in order, and returns, fails with a
named stage, or fails without one.

**`ImageFiles`** looks at the same analyses from the disk.  A file is the k-th image of a
build, a build being one call of `imaging.build` in a thread; `build[b]` is that thread, and
what became of its result.  `worker[i]` is the pipeline and the final save of analysis `i`:
`early` (stages 1 to 9), `marking` (awaits the thread), `later` (the paths are known and
`_discard` would remove them), then the save.  `refs[i]` are the files the row and its
`detected_object` rows name, `requests` the retries and deletions that have removed files
and not yet committed.  A cancelled `marking` leaves its thread writing.  The age limit of
the cleanup is a choice of which files are old.  The queue, the read that precedes a write,
and overlapping retries are left to `PetFitBackend`; an unlink that fails is left out.  The
process that `main.py` starts still runs `StubPipeline`, which writes no files: this is the
pipeline it is to be replaced by.

**`EnvironmentAnalysis`.**  `run[r]` is one call of `analyze` with the answers it has got;
`job[<<r, k>>]` is its k-th call of `complete`, whose `pc` says where the thread is in
`QwenMLX._run`.  `pool` are the jobs of the default executor that no thread has begun,
`loaded`, `loadLock` and `generateLock` the fields of the backend object, `directories` the
temporary directories on disk.  `Cancel` is the time limit: a job that still waits in the
pool is withdrawn with its future, any other goes on for nobody.  An answer is `Valid`,
`Error` (the call raised) or the reason of a rejection.

**`AnalysisData`.**  `stage` is the stage of one analysis, `input`, `vision` and `report`
what the stages have handed on, `row` what `mark_completed` flushes, `shown` and `listing`
the two responses.  Each stage is one action.  What the program does not decide comes from
`Worlds`: a record says what the request, the video, the detector, the model and the history
may be, and a behaviour takes one of the worlds in its first state.  Lengths are integers on
a grid, quotients are kept exact (`Ratio`), and nothing is rounded where the code does not
round; scores are exact where the code adds floats, which gives the same scores on all
inputs the rules admit.  A text is its words and the names of objects it mentions.

## Not modelled

* *External*: the neural networks, the tracker inside the detector's library (its
  identifiers are an input) and MySQL itself.
* *Wording and drawing*: messages, the text of the prompt, labels in Korean; resizing,
  rotation and drawing of pixels; JPEG encoding, of which only success matters.
* *No state and no decision*: the lists under `/meta`, time zones, configuration, logging.
* *Not in the service*: `scripts/`, migrations and tests.  `TrackIdTracker` is used by the
  benchmark; it is modelled because it implements the same interface.
* `drain()`, which delays the end of the process by up to five seconds: `Crash` may happen
  at every point it could end at.

## Runs

Deadlock is not checked in the runs of the backend: with all rows and retries used up the
system has nothing left to do, which is no error.  The queue's run checks it.

| run | what it shows |
|---|---|
| `queue` | `QueueTypeOK`, `PendingCountsLive`, `WithinLimits`, `NoStarvation` with 5 slots, 4 places, 2 permits: jobs wait, run in parallel, fill the queue, and slots are reused |
| `backend_full` | two devices, each sending one request at a time, one place in the queue for both, two stages, one retry, one crash: the queue fills up between a handler's first look and its `submit`. `TypeOK`, `ActiveIffOwned`, `WritesAccepted`, `ResultsIffCompleted`, `CompletedIsFinal`, and the refinement `ImplementsLifecycle` |
| `backend_stages` | the seven stages and three retries of the code, two crashes, one failing session: `ProgressNeverFalls` |
| `backend_waiting` | two such devices, two places, one permit, one stage, one crash: a job waits behind another, and a device asks again while its analysis is under way. `OneActivePerDevice`, `ActiveIffOwned`, `VideosMatchRows` (a refused upload leaves no video), `ImplementsLifecycle`, and `NothingStuck` |
| `backend_racing` | two requests of one device at a time on one analysis, a crash and a failing session: `PendingCountsLive`, `VideosMatchRows` (a failed INSERT leaves no video), `DeletedStaysDeleted`, `EveryJobEnds` |
| `images` | two analyses and two builds of two images, one crash, one failing session: `ImagesTypeOK`, `HeldImagesOnDisk`, `OnlyMarkingLeaks`, `ReferencedImagesKept` |
| `environment` | two analyses at a time on two threads, three calls each, two reasons for a rejection, one analysis without readable images: `AnalyzerTypeOK`, `HeldWhileNeeded`, `RetryNamesCause`, `WeightsReadOnce`, `EveryCallEnds` and the refinement `ImplementsLoop`, its liveness included |
| `data` | ten worlds.  Videos: `FramesUsedOnce`.  Boxes that move, overlap, or carry identifiers: `UnionAreaExact`, `EachDetectionOnce`, `OrderIrrelevant`.  Rooms and images: `MarkedIffCostly`, `ExamplesFollowRules` (the rooms of `FEW_SHOTS` and of the stub), `ModelSeesTheResult`.  Edges and answers: `ResultFitsTables`, `RepairsAccountForChanges`.  Histories: `PagesPartition` |
| `double_create` (violation) | `OneActivePerDevice` fails when one device sends two uploads at once |
| `double_retry` (violation) | `CompletedIsFinal` fails when one device sends two retries at once |
| `lost_save` (violation) | `NothingStuck` fails when one session fails in the final save |
| `failed_delete` (violation) | `ShownResultsHaveImages` fails when the session of a deletion fails |

**Bounds.**  Two clients are enough for every race between two handlers, and with two
workers for every race between handler and worker; the third party of each hazard is the
crash or the failing session, which is bounded by one or two.  One place in the queue makes
it full with one job, so that the path through `QUEUE_FULL` is taken; two places and one
permit make a job wait.  Two stages distinguish the first report from a later one;
`backend_stages` has all seven.  `MaxAnalyses` bounds the rows ever inserted, and counts the
uploads under way so that the bound never cuts a request off in the middle.  In `images`,
two builds are two analyses at once, or one whose abandoned thread still writes while its
retry runs; two images tell the thumbnail from a marked object and let a thread be
interrupted between them.

In `environment` three calls with two reasons are the fewest in which a prompt is built after
a rejection and then a failed call, or after two rejections for different reasons; the code
makes up to four, and `PromptNamesCause` holds for any number.  Two analyses let one be
cancelled while its job loads, waits or generates, and the other go on beside that job; two
threads and two locks make a job wait for each lock.  More jobs than threads do not occur in
the run, only in the theorems.  In `data` the
side of a frame is 32 units: a power of two, so that the code's floats are exact, and the
smallest that has ties of the fourth decimal, where both columns of a box are rounded up.
Videos have at most eight decoded frames and three of them analysed (`FrameRate`, `FrameMin`
and `FrameMax` are scaled from 5, 15 and 30); the list limits of the answers are 2 and go up
to 3 items, one more than is kept; histories have four analyses and pages of one or two.  The
areas are compared with the number of units that some box covers.

**Assumptions.**  `backend_full` and `backend_waiting` assume what a well-behaved client
does: one request of a device at a time.  The three violation runs show what happens without
that, or with a database that fails.  `backend_racing` assumes nothing of clients, nor do
the theorems of `PetFitBackendProofs`.  Those of `PetFitOwnershipProofs`
assume `OneRequestPerDevice`: no two requests of a device are open
at once, whichever clients send them.  It is weaker than what the two runs give (a client of
its own for each device, `OwnDeviceSuffices`), and says nothing of crashes or failing
sessions, which the theorems allow in any number.

**Fairness.**  Weak fairness for each request that was received, for a permit that is free,
for the time limit, for the final save and for the restart: the event loop runs what is
ready, a session answers or fails, `wait_for` cuts off a pipeline that does not return, and
the service is started again.  No fairness for clients, who need not send anything, nor for
the pipeline, which need not move: that a job ends is due to its time limit.
`EnvironmentAnalysis` assumes that the loop resumes a coroutine whose answer is there, that
the pool starts a job when it has a thread, and that a thread goes on, because `generate`
stops at `max_tokens`; nothing is assumed of the time limit, so that `EveryCallEnds` and
`ImplementsLoop` hold without it.  `AnalysisData` has no fairness: its properties are about
what the stages compute.

## Disagreements between code and documents

`PROJECT.json` lists them with the lines.  One analysis per device is checked before the
INSERT, not enforced by it (`double_create`).  A completed analysis is final only if two
retries do not overlap (`double_retry`).  An analysis is not failed after 180 seconds when
the write of that failure itself fails: `list_stale_processing` exists and is never called
(`lost_save`).  A deletion whose commit fails does not turn the analysis into `FAILED`: its
result is shown without its images (`failed_delete`).

Observations that contradict no document but that the models make precise:

* A box that ends at the edge of the frame can be refused by `ck_detected_object_bounds`:
  with x = 1/32 and width = 31/32 the columns are .0313 and .9688, whose sum is 1.0001.  Then
  the final write fails and the row stays as it is (`lost_save` shows what follows).
  `OverrunOfOneUnit` says that the excess is one unit on any grid.
* A side that is shorter than half a unit of the fourth decimal is stored as .0000, which
  `ck_detected_object_wh` refuses: `clamp_box` keeps it, and what keeps a detection is its
  unrounded area.  It takes a grid finer than 1/20000, which no run has; the proof of
  `ResultFitsTables` asked for it.  `ResultFitsTables` says that these two are the only ways
  the write is refused.
* A video of three seconds is planned with 15 frames, the least that is accepted; when no
  decoded frame is at or after its last moment one is missing, and the analysis fails.
* `validate` accepts factors that are marked as observed when no image was sent, though the
  prompt forbids them.
* A cancelled analysis leaves its thread behind, which takes its turn at the model before
  later analyses.  It ends, and keeps nothing.
* A row that is created or deleted between two pages shifts the rest; `PagesPartition` is
  about a table that does not change.

## Proofs

The theorems hold for every value of the constants: any number of devices, clients, rows,
crashes and faults, any pipeline, any capacity, any world. They assume what the modules
assume of their constants, each by a named assumption that TLC evaluates
(`QueueAssumption`, `RowAssumption`, `BackendAssumption`, `ImageAssumption`,
`AnalyzerAssumption`, `CallsAssumption`, `GridAssumption`, `SamplingAssumption`,
`ImagesAssumption`, `LimitsAssumption`, `PageAssumption`, and, of what the worlds hold,
`RequestAssumption`, `VideoAssumption`, `AnswerAssumption`, `HistoryAssumption`), and some of the backend's
theorems more than that, in their statement: `OneRequestPerDevice` where a race of a device
with itself breaks the property (`double_create`, `double_retry`); `faults = 0` in
`ExactlyOneOwner`, because a session that fails in the final write leaves an analysis
without owner (`lost_save`); and `StagesInOrder` in `ProgressGrows`, which
`AllStagesInOrder` shows of the stages of the code. Each inductive invariant was an
invariant of a TLC run before it was proved, but for `VisionInv` and `SavedInv`, whose
quantifiers over lists TLC cannot evaluate: there the properties that follow from them were.

* `AnalysisQueueProofs`: `QueueInvariant`, `QueueTyped`, `PendingIsExact`, `LimitsHold`.
  `PendingCountsLive` is not inductive by itself: the counter and the sizes of `waiting` and
  `running` move together only because a task is never in both, nor twice in one
  (`TasksDistinct`).  `QueueInv` adds that.
* `PetFitBackendProofs`, on rows: every transition of a row yields a row; no transition from
  the state the code expects is refused by the constraints (`TransitionsPassChecks`); a flush
  into an unchanged row stores the object (a lemma of `NoStaleWrite`).
  On the backend: `TypeCorrect`.  `TypeOK` is not inductive: a handler about to write
  must hold a row that was really read, a worker must work for some analysis, and a new job
  must find a slot, which follows from the queue's invariant by counting
  (`SomeSlotIsFree`).  `BackendInv` adds these, and one lemma per action preserves it.  From
  it: `BackendUsesQueue` (every step of the backend is a step of the queue or leaves it
  alone), hence `BackendPendingIsExact` and `BackendLimitsHold` with races, crashes and
  faults; and `DeletedIsFinal`.  `VideosStay` proves `VideosMatchRows` for racing clients
  too, in its three parts: a deleted analysis leaves no video, whatever crashes or fails; only
  a crash leaves an upload behind; and nothing is lost while nothing crashes or fails.  It
  needs `VideoInv`: an upload becomes the video of a new row, so the id of an INSERT must be
  one that no row has and no handler is deleting.
* `PetFitOwnershipProofs`: who may write a row.  `OwnershipInv` has a part for each of the
  three that hold one, and none is inductive without the others.  `WorkerFits`: a worker's
  object is the row in the table, active, at the stage the worker is in; true because nobody
  else writes it.  `RequestFits`: what a handler read before its await is still so, because no
  other request of that device is open and a row it may write has no worker.  `RowFits`: only
  completed rows have children, and a row satisfies the constraints, because every write
  starts from the current row.  With `OneWorkerPerRow` and `ActiveIsOwned` (every active row
  has a worker or a handler about to submit it, while the process serves) this gives
  `OneActiveAnalysis`, `NoWriteRefused`, `ResultsOfCompleted` and `ExactlyOneOwner`.
  `NoStaleWrite` is stronger than what the constraints refuse: whoever is about to write holds
  the row as the table has it, so that its flush stores that object and merges nothing.
  `StepOfTable` reads from the invariant the seven ways in which a step can change the table
  (insert, stage, completion, failure, retry, deletion, interruption), from which the two
  action properties follow: `CompletedStays` and `ProgressGrows`.
  `BackendKeepsLifecycle` is the refinement.  Each of those seven ways is a step of
  `AnalysisLifecycle`, or the fall of several lives at a restart (`InsertIsAccept`,
  `StageIsStart`, `CompletionIsComplete`, `FailureIsFail`, `RetryIsRetry`, `DeletionIsRemove`,
  `InterruptionIsFail`), every other step is a stutter.  The runs show it with one crash and
  no failing session, the theorem with both.
* `ImageFilesProofs`: `ImagesTyped`, `HeldImagesStay`, `ReferencedImagesStay`.  Three actions
  remove files (`LaterFails`, `Begin`, the cleanup), and each must be shown to hit its own
  analysis only.  `ImageInv` says why: paths in circulation come from builds that delivered,
  a build delivers to the analysis it was started for, a worker and its row never know paths
  at the same time, and the cleanup runs when no worker and no thread exists.
  `OnlyMarkingLeaves` is the other direction, that files do not stay without reason.  `LeakInv`
  says which build wrote a file, and, before the first crash or failing session, that a path
  which was delivered is known to the worker or to the row of its analysis until the file is
  gone; a file nobody knows is then one of a marking that was cut short.
* `EnvironmentAnalysisProofs`: `AnalyzerTyped`, `NothingIsKept`, `PromptNamesCause`,
  `WeightsOnce`, `AnalyzerIsLoop`, for any number of runs, threads and reasons.
  `HeldWhileNeeded` and `RetryNamesCause` are not inductive: a submission overwrites the
  record of its call, so that call must be unused, or a job that holds a lock would lose it;
  a job must wait in the pool only once, or a thread would leave a second one behind; and an
  answer must be there when its job is done.  `AnalyzerInv` adds these.  The refinement is
  proved for the initial states and for every step.
* `AnalysisDataProofs`: `StoredScoreIsTold` (`ScoreInv`: the score in the report is the one
  the rules give for the input and the detections, which no later stage changes), and lemmas
  of arithmetic on every number instead of a grid of 32: `ClampedBoxInFrame`,
  `OverrunOfOneUnit`, `OverlapIsShare`, `NextPageIffLeft`.  They rest on what rounding half
  up keeps (`RoundHalfUpNearest`).  `HistoryReadOnce` proves `PagesPartition` for any table
  and any legal query: the k-th analysis of the list is the one with k - 1 before it, each
  k belongs to exactly one analysis (`CountingNumbers`, `HistoryLists`), and the pages a
  client has are a beginning of that list (`ListingInv`, `PagesAreBeginning`).
  `MomentsServedOnce` proves `FramesUsedOnce` for any decoded times, sorted or not: after n
  frames, `_collect` has picked those that have passed more moments than all before them
  (`PicksSoFar`), which are the first frames for the moments (`ServedFirst`).

  `ChangesAreRepairs` proves `RepairsAccountForChanges` for answers of any length: `AnswerInv`
  says that an output was accepted from the answer that is kept beside it, and each of the
  steps of `validate` (demotion, removal of duplicates, cut, reordering) leaves a list as it
  is when it does not say that it changed it.
* `ListsProofs`: what the operators on lists return, for lists of any length.  `Sorted` is a
  permutation, in the order of its keys and stable (`SortedPlaces`, `SortedElements`); `max`
  returns the first of the greatest (`FirstGreatest`); a comprehension keeps what it should,
  in order (`ChosenPlaces`, `FilteredList`); a sum over a finite set is that of its parts
  (`SumRules`); a fold over a list has its steps (`LeftFold`), and so has a flattened list
  (`FlattenedSteps`).
* `VisionProofs`, the tracks.  `GreedyAssignment` says what `_assign` takes, whatever the
  number of tracks and detections: pairs that do not meet, and a pair is left only where a
  closer one has taken its track or its detection.  `DetectionsPlaced` turns this into a
  function from the detections of a frame to the tracks after it.  From it, by counting how
  often a detection occurs in the tracks so far (`TrackedTimes`), `DetectionsTrackedOnce`
  proves `EachDetectionOnce`.  `OrderDoesNotMatter` proves `OrderIrrelevant`: without ties the
  greedy choice is determined by the overlaps alone (`FirstTakenOnce`, by a first pair on
  which two choices differ), so that the tracks of the reversed lists are, frame by frame,
  the same tracks in another order (`SameThrough`).
* `VisionProofs`, areas.  The edges of the boxes cut the frame into strips (`IsCut`), a unit
  lies in one cell, and a cell is covered as a whole or not at all; the cells that are covered
  add up to the units that are (`UnionCountsUnits`), hence `UnionIsExact`.
* `VisionProofs`, what becomes of the objects.  `VisionInv` follows them through the stages:
  every detection lies in the frame it was found in, every object has a box in the frame and
  its frame among those sampled, the thumbnail is one of those, and the frames that are kept
  are those that `select_analysis_frames` chooses.  This gives `PromptSeesTheResult`.  Every
  score is a percentage (`ScoresInRange`), and taking out an object makes safety better if it
  is a cable, stairs or a window, and nothing better otherwise (`ScoresWithout`); hence
  `MarkedIsCostly`.  `ExamplesAreTrue` computes the examples of the prompt, and the room of the
  stub in the three spaces its tests score it for, for every occupancy that has their penalty.  `SavedInv` says that the row is what the stages have computed and
  the shown result what the row holds; `SavedResultFits` compares it with the constraints.

Two lemmas stand for the induction that is out of the prover's reach.  `LeastNatural`: a
claim about numbers that fails has a least number where it fails (`StepByStep` is induction up
to a number, as a set of numbers).  `SetFold`: a fold over a finite set, which the community
modules define by `CHOOSE` of a recursive function, has such a function.  Filters are
written with `Chosen` and sums with `SumFunction`: the provers cannot open `SelectSeq`, and
a fold with an operator as its argument only where it is spelled out.

With TLC stay the liveness properties: `NothingStuck`, `EveryJobEnds`, `NoStarvation`,
`EveryCallEnds` and the liveness of `ImplementsLoop`.  The installed provers cannot treat
them.  Every other property of a passing run is a theorem.

## Plan

Done: the queue, the backend, the image files, stage 12 with the local model, and the whole
data path are modelled, and each has a theorem for every safety property that a run checks
and no violation run refutes.  What could follow: the deletion of a file that fails; the two
pages of a history that changes in between; the stale analyses that
`list_stale_processing` would find, once something calls it.
