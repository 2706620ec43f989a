\* Five task slots over a queue of four with two permits: jobs wait, run in
\* parallel, fill the queue, and slots are reused.
SPECIFICATION QueueSpec
CONSTANTS
    Tasks = {t1, t2, t3, t4, t5}
    Capacity = 4
    Concurrency = 2
INVARIANTS
    QueueTypeOK
    PendingCountsLive
    WithinLimits
PROPERTIES
    NoStarvation
