\* Two analyses at a time on two threads, with up to three calls each: a prompt follows a
\* rejection, another rejection, or a call that failed after a rejection.  An analysis can be
\* cancelled while its job loads, waits or generates, and the other goes on beside that job.
SPECIFICATION Spec
CONSTANTS
    MaxRuns = 2
    MaxConcurrent = 2
    MaxRegenerations = 2
    PoolSize = 2
    Illustrated = {1}
    Rejections = {"NOT_JSON", "BAD_TYPE"}
    Valid = Valid
    Error = Error
    None = None
INVARIANTS
    AnalyzerTypeOK
    HeldWhileNeeded
    RetryNamesCause
PROPERTIES
    WeightsReadOnce
    EveryCallEnds
    ImplementsLoop
CHECK_DEADLOCK FALSE
