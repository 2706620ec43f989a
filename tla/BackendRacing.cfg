\* Two requests of one device at a time on one analysis, a crash and a failing session:
\* nothing is assumed of the clients or of the database.
SPECIFICATION Spec
CONSTANTS
    c1 = c1
    c2 = c2
    d1 = d1
    d2 = d2
    NoRow = NoRow
    Clients = {c1, c2}
    Devices = {d1}
    DeviceOf <- SharedDevice
    PipelineStages <- OneStage
    MaxRetryCount = 1
    MaxAnalyses = 1
    MaxCrashes = 1
    MaxFaults = 1
    Tasks = {t1, t2}
    Capacity = 2
    Concurrency = 1
INVARIANTS
    PendingCountsLive
    VideosMatchRows
PROPERTIES
    DeletedStaysDeleted
    EveryJobEnds
CHECK_DEADLOCK FALSE
