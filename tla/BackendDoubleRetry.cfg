\* Two retries of one failed analysis at once.
SPECIFICATION Safety
CONSTANTS
    c1 = c1
    c2 = c2
    d1 = d1
    d2 = d2
    NoRow = NoRow
    Clients = {c1, c2}
    Devices = {d1}
    DeviceOf <- SharedDevice
    PipelineStages <- OneStage
    MaxRetryCount = 1
    MaxAnalyses = 1
    MaxCrashes = 0
    MaxFaults = 0
    Tasks = {t1, t2}
    Capacity = 2
    Concurrency = 2
PROPERTIES
    CompletedIsFinal
CHECK_DEADLOCK FALSE
