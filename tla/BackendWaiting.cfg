\* Two devices, one client each, two places in the queue and one permit: a job waits
\* while the other runs.  One crash at any point, followed by a restart.
SPECIFICATION Spec
CONSTANTS
    c1 = c1
    c2 = c2
    d1 = d1
    d2 = d2
    NoRow = NoRow
    Clients = {c1, c2}
    Devices = {d1, d2}
    DeviceOf <- OwnDevices
    PipelineStages <- OneStage
    MaxRetryCount = 1
    MaxAnalyses = 2
    MaxCrashes = 1
    MaxFaults = 0
    Tasks = {t1, t2}
    Capacity = 2
    Concurrency = 1
INVARIANTS
    OneActivePerDevice
    ActiveIffOwned
    VideosMatchRows
PROPERTIES
    ImplementsLifecycle
    NothingStuck
CHECK_DEADLOCK FALSE
