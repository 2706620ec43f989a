\* One client, no crash, and one database session that fails.
SPECIFICATION Spec
CONSTANTS
    c1 = c1
    c2 = c2
    d1 = d1
    d2 = d2
    NoRow = NoRow
    Clients = {c1}
    Devices = {d1}
    DeviceOf <- OneClient
    PipelineStages <- OneStage
    MaxRetryCount = 1
    MaxAnalyses = 1
    MaxCrashes = 0
    MaxFaults = 1
    Tasks = {t1}
    Capacity = 1
    Concurrency = 1
PROPERTIES
    NothingStuck
CHECK_DEADLOCK FALSE
