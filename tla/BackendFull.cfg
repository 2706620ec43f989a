\* Two devices, one client each, one place in the queue for both: the queue fills up
\* between a handler's first look and its submit.  One crash at any point.
SPECIFICATION Safety
CONSTANTS
    c1 = c1
    c2 = c2
    d1 = d1
    d2 = d2
    NoRow = NoRow
    Clients = {c1, c2}
    Devices = {d1, d2}
    DeviceOf <- OwnDevices
    PipelineStages <- TwoStages
    MaxRetryCount = 1
    MaxAnalyses = 2
    MaxCrashes = 1
    MaxFaults = 0
    Tasks = {t1}
    Capacity = 1
    Concurrency = 1
INVARIANTS
    TypeOK
    ActiveIffOwned
    WritesAccepted
    ResultsIffCompleted
PROPERTIES
    CompletedIsFinal
    ImplementsLifecycle
CHECK_DEADLOCK FALSE
