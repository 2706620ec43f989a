\* One device and the real stages and retry limit: every stage can fail, time out or be
\* cut off by a crash, and the analysis is run up to four times.
SPECIFICATION Safety
CONSTANTS
    c1 = c1
    c2 = c2
    d1 = d1
    d2 = d2
    NoRow = NoRow
    Clients = {c1}
    Devices = {d1}
    DeviceOf <- OneClient
    PipelineStages <- AllStages
    MaxRetryCount = 3
    MaxAnalyses = 1
    MaxCrashes = 2
    MaxFaults = 1
    Tasks = {t1}
    Capacity = 1
    Concurrency = 1
PROPERTIES
    ProgressNeverFalls
CHECK_DEADLOCK FALSE
